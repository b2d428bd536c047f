SPECIFICATION AccessSpec
CONSTANTS
    User = {u1, u2, u3}
    Device = {d1, d2, d3}
    Invite = {c1, c2}
    Handler = {h1, h2}
    MaxUsers = 2
    MaxDevices = 1
    MaxTokens = 4
INVARIANTS
    AccessTypeOK
    TokensIdentify
    OpenInvitesFit
    LastMemberStays
    DevicesBounded
PROPERTY
    RevokedDevicesStay
SYMMETRY Symmetry
