SPECIFICATION SessionSpec
CONSTANTS
    User = {u1}
    Device = {d1, d2}
    Invite = {}
    Handler = {h1}
    MaxUsers = 1
    MaxDevices = 1
    MaxTokens = 2
    Call = {c1, c2}
INVARIANTS
    ClientTypeOK
    AtMostOnce
    WaitersHaveFlight
    NeverReplays
    
PROPERTIES
    CallsEnd
    SignOutEnds
