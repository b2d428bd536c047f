--------------------------- MODULE FamilyAccess ----------------------------
(***************************************************************************)
(* Who may use the vault: accounts, devices with their refresh tokens, and *)
(* invites, as the server's tables hold them.  Requests are served         *)
(* concurrently.  Most handlers read something on the read pool first, and *)
(* change the tables in one immediate transaction later: req[h] is what    *)
(* handler h has read and still believes.  The transaction is the second   *)
(* step of the request; a handler that reads nothing outside of its        *)
(* transaction that can change is one step.                                *)
(*                                                                         *)
(* A refresh token is the number of its issue, so no two are equal, and    *)
(* stands for its hash.  Users are never deleted, only disabled.           *)
(* Passwords, verifiers and wrapped keys are abstracted: a request with a  *)
(* wrong one changes nothing.                                              *)
(***************************************************************************)
EXTENDS Integers, FiniteSets

CONSTANTS
    User,        \* accounts by login
    Device,      \* device ids
    Invite,      \* hashes of invite codes; a code is random, so used once
    Handler,     \* requests under way at a time
    MaxUsers,    \* vaults.max_users (5)
    MaxDevices,  \* maxActiveDevicesPerVault (10)
    MaxTokens    \* bound: refresh tokens ever issued

ASSUME FiniteAssumption ==
    IsFiniteSet(User) /\ IsFiniteSet(Device) /\ IsFiniteSet(Invite)
ASSUME LimitAssumption ==
    MaxUsers \in Nat \ {0} /\ MaxDevices \in Nat \ {0} /\ MaxTokens \in Nat

VARIABLES
    account,  \* account[u]: whether u has an account, and may use it
    device,   \* the devices table: a row for each id it holds
    retired,  \* retired_refresh_tokens: tokens known to be rotated away
    tokens,   \* the last refresh token issued
    invite,   \* invite[c]: the state of the invite with code hash c
    req       \* req[h]: the request handler h is between reading and writing

vars == <<account, device, retired, tokens, invite, req>>

AccountStatus == {"none", "active", "disabled"}

InviteStatus == {"none", "open", "expired", "used", "deleted"}

DeviceRow == [user : User, token : Nat, revoked : BOOLEAN]

Idle == [op |-> "idle"]

Request ==
    {Idle}
    \cup [op : {"login"}, user : User, id : Device]
    \cup [op : {"refresh"}, id : Device, user : User, hash : Nat]
    \cup [op : {"reuse"}, user : User]
    \cup [op : {"logout"}, id : Device]
    \cup [op : {"invite"}, code : Invite, lapsed : SUBSET Invite]
    \cup [op : {"cancel"}, code : Invite]
    \cup [op : {"remove"}, user : User]

(* Type correctness of the tables and of the requests under way.           *)
AccessTypeOK ==
    /\ account \in [User -> AccountStatus]
    /\ DOMAIN device \subseteq Device
    /\ \A d \in DOMAIN device : device[d] \in DeviceRow
    /\ retired \subseteq [hash : Nat, user : User]
    /\ tokens \in Nat
    /\ invite \in [Invite -> InviteStatus]
    /\ req \in [Handler -> Request]

Init ==
    /\ account = [u \in User |-> "none"]
    /\ device = [d \in {} |-> Idle]
    /\ retired = {}
    /\ tokens = 0
    /\ invite = [c \in Invite |-> "none"]
    /\ req = [h \in Handler |-> Idle]
-----------------------------------------------------------------------------
(* The queries and statements of the repositories.                         *)

Accounts == {u \in User : account[u] # "none"}

(* CountActiveUsers counts these.                                          *)
ActiveUsers == {u \in User : account[u] = "active"}

(* CountActiveDevices counts these, those of disabled users included.      *)
ActiveDevices == {d \in DOMAIN device : ~device[d].revoked}

(* Mutant: only members count against the quota.                           *)
NoInviteCounts(lapsed) == {}

(* CountActiveInvites at a time when the invites in "lapsed" had expired:  *)
(* those made and neither used nor deleted since.                          *)
ActiveInvites(lapsed) ==
    {c \in Invite : invite[c] \in {"open", "expired"} /\ c \notin lapsed}

(* A token is issued to a device of u that is new to the table, the others *)
(* being as in "rows" ...                                                  *)
CreateDevice(d, u, rows) ==
    /\ d \notin DOMAIN device
    /\ tokens < MaxTokens
    /\ tokens' = tokens + 1
    /\ device' = [x \in DOMAIN device \cup {d} |->
                    IF x = d THEN [user |-> u, token |-> tokens + 1, revoked |-> FALSE]
                             ELSE rows[x]]

(* Mutant: a new token takes the revocation back.                          *)
RehashAndRestore(d) ==
    /\ tokens < MaxTokens
    /\ tokens' = tokens + 1
    /\ device' = [device EXCEPT ![d].token = tokens + 1, ![d].revoked = FALSE]

(* ... or to one of the table, whatever its state.                         *)
UpdateDeviceRefreshHash(d) ==
    /\ tokens < MaxTokens
    /\ tokens' = tokens + 1
    /\ device' = [device EXCEPT ![d].token = tokens + 1]

(* The devices table when every device of u is revoked.                    *)
AllRevoked(u) ==
    [d \in DOMAIN device |->
        IF device[d].user = u THEN [device[d] EXCEPT !.revoked = TRUE] ELSE device[d]]

Holders(t) == {d \in DOMAIN device : device[d].token = t}

Begin(h, r) == req[h] = Idle /\ req' = [req EXCEPT ![h] = r]

(* Handler h serves a request of kind op with the transaction that follows.*)
End(h, op) == req[h].op = op /\ req' = [req EXCEPT ![h] = Idle]
-----------------------------------------------------------------------------
(* Accounts.                                                               *)

(* POST /v1/auth/bootstrap: the first account and its vault, once.         *)
Bootstrap(u, d) ==
    /\ Accounts = {}
    /\ account' = [account EXCEPT ![u] = "active"]
    /\ CreateDevice(d, u, device)
    /\ UNCHANGED <<retired, invite, req>>

(* POST /v1/auth/login: the password and the disabled flag are checked on  *)
(* the read pool.  The device id is one the client proposes, or a new one. *)
BeginLogin(h, u, d) ==
    /\ account[u] = "active"
    /\ Begin(h, [op |-> "login", user |-> u, id |-> d])
    /\ UNCHANGED <<account, device, retired, tokens, invite>>

RoomForDevice == Cardinality(ActiveDevices) < MaxDevices

(* A device that u already has gets a new token, even when it is revoked;  *)
(* a new one needs room; an id of another user's device is an error.       *)
EndLogin(h) ==
    /\ End(h, "login")
    /\ LET u == req[h].user
           d == req[h].id
       IN  \/ /\ d \in DOMAIN device /\ device[d].user = u
              /\ UpdateDeviceRefreshHash(d)
           \/ RoomForDevice /\ CreateDevice(d, u, device)
           \/ /\ \/ d \in DOMAIN device /\ device[d].user # u
                 \/ d \notin DOMAIN device /\ ~RoomForDevice
              /\ UNCHANGED <<device, tokens>>
    /\ UNCHANGED <<account, retired, invite>>

(* POST /v1/auth/refresh with the token t: its device is looked up on the  *)
(* read pool; a revoked one is refused.                                    *)
BeginRefresh(h, t) ==
    /\ \E d \in Holders(t) \cap ActiveDevices :
          Begin(h, [op |-> "refresh", id |-> d, user |-> device[d].user, hash |-> t])
    /\ UNCHANGED <<account, device, retired, tokens, invite>>

(* Mutant: the device's id is stored where the user's belongs.             *)
RetireForDevice(r) == retired \cup {[hash |-> r.hash, user |-> r.id]}

(* Mutant: the new token is retired in the place of the old one.           *)
RetireNew(r) == retired \cup {[hash |-> tokens + 1, user |-> r.user]}

(* RetireRefreshHash.                                                      *)
Retire(r) == retired \cup {[hash |-> r.hash, user |-> r.user]}

(* The token that was presented is retired, and whatever token the device  *)
(* has by now is replaced.                                                 *)
EndRefresh(h) ==
    /\ End(h, "refresh")
    /\ retired' = Retire(req[h])
    /\ UpdateDeviceRefreshHash(req[h].id)
    /\ UNCHANGED <<account, invite>>

(* No device holds the token, but it was retired: handlePossibleReuse.     *)
(* A token that no device holds is never held again, so the two lookups    *)
(* are as good as one.                                                     *)
BeginReuse(h, t) ==
    /\ Holders(t) = {}
    /\ \E r \in retired : r.hash = t /\ Begin(h, [op |-> "reuse", user |-> r.user])
    /\ UNCHANGED <<account, device, retired, tokens, invite>>

EndReuse(h) ==
    /\ End(h, "reuse")
    /\ device' = AllRevoked(req[h].user)
    /\ UNCHANGED <<account, retired, tokens, invite>>

(* POST /v1/auth/logout.                                                   *)
BeginLogout(h, t) ==
    /\ \E d \in Holders(t) : Begin(h, [op |-> "logout", id |-> d])
    /\ UNCHANGED <<account, device, retired, tokens, invite>>

EndLogout(h) ==
    /\ End(h, "logout")
    /\ device' = [device EXCEPT ![req[h].id].revoked = TRUE]
    /\ UNCHANGED <<account, retired, tokens, invite>>

(* Mutant: recovery leaves the other devices of the account signed in.     *)
RecoverBesides(u, d) ==
    /\ u \in Accounts
    /\ CreateDevice(d, u, device)
    /\ UNCHANGED <<account, retired, invite, req>>

(* POST /v1/auth/recovery/redeem: every device of the account is revoked   *)
(* and a new one made, without a look at the limit or the disabled flag.   *)
RecoveryRedeem(u, d) ==
    /\ u \in Accounts
    /\ CreateDevice(d, u, AllRevoked(u))
    /\ UNCHANGED <<account, retired, invite, req>>
-----------------------------------------------------------------------------
(* Membership.                                                             *)

(* RequireAuth lets a request with an access token of device d pass.       *)
Authenticated(d) == d \in ActiveDevices /\ account[device[d].user] = "active"

(* POST /v1/invites: the time is taken before the transaction.             *)
BeginInvite(h, c) ==
    /\ \E d \in Device : Authenticated(d)
    /\ invite[c] = "none"
    /\ Begin(h, [op |-> "invite", code |-> c,
                 lapsed |-> {x \in Invite : invite[x] = "expired"}])
    /\ UNCHANGED <<account, device, retired, tokens, invite>>

EndInvite(h) ==
    /\ End(h, "invite")
    /\ LET c == req[h].code
           taken == Cardinality(ActiveUsers) + Cardinality(ActiveInvites(req[h].lapsed))
       IN  \/ /\ taken < MaxUsers /\ invite[c] = "none"
              /\ invite' = [invite EXCEPT ![c] = "open"]
           \/ /\ taken >= MaxUsers \/ invite[c] # "none"
              /\ UNCHANGED invite
    /\ UNCHANGED <<account, device, retired, tokens>>

(* POST /v1/invites/{code_hash}/redeem: every check is made inside the     *)
(* transaction.                                                            *)
RedeemInvite(c, u, d) ==
    /\ invite[c] = "open"
    /\ Cardinality(ActiveUsers) < MaxUsers
    /\ account[u] = "none"
    /\ RoomForDevice
    /\ invite' = [invite EXCEPT ![c] = "used"]
    /\ account' = [account EXCEPT ![u] = "active"]
    /\ CreateDevice(d, u, device)
    /\ UNCHANGED <<retired, req>>

(* DELETE /v1/invites/{code_hash}, in whatever state the invite is.        *)
BeginCancel(h, c) ==
    /\ \E d \in Device : Authenticated(d)
    /\ Begin(h, [op |-> "cancel", code |-> c])
    /\ UNCHANGED <<account, device, retired, tokens, invite>>

EndCancel(h) ==
    /\ End(h, "cancel")
    /\ \/ /\ invite[req[h].code] # "none"
          /\ invite' = [invite EXCEPT ![req[h].code] = "deleted"]
       \/ invite[req[h].code] = "none" /\ UNCHANGED invite
    /\ UNCHANGED <<account, device, retired, tokens>>

(* DELETE /v1/members/{user_id}, of any member by any member.              *)
BeginRemove(h, u) ==
    /\ \E d \in Device : Authenticated(d)
    /\ Begin(h, [op |-> "remove", user |-> u])
    /\ UNCHANGED <<account, device, retired, tokens, invite>>

(* Mutant: the limit is off by one.                                        *)
MayRemoveOneOrMore(u) ==
    u \in Accounts /\ (account[u] = "active" => Cardinality(ActiveUsers) >= 1)

(* The target is a member, and not the last active one.                    *)
MayRemove(u) ==
    u \in Accounts /\ (account[u] = "active" => Cardinality(ActiveUsers) > 1)

EndRemove(h) ==
    /\ End(h, "remove")
    /\ LET u == req[h].user
       IN  \/ /\ MayRemove(u)
              /\ account' = [account EXCEPT ![u] = "disabled"]
              /\ device' = AllRevoked(u)
           \/ ~MayRemove(u) /\ UNCHANGED <<account, device>>
    /\ UNCHANGED <<retired, tokens, invite>>
-----------------------------------------------------------------------------
(* The time an invite lives has passed.                                    *)
Expire(c) ==
    /\ invite[c] = "open"
    /\ invite' = [invite EXCEPT ![c] = "expired"]
    /\ UNCHANGED <<account, device, retired, tokens, req>>

(* A request is given up before its transaction: the client has gone away  *)
(* and cancelled its context, or the server was stopped.                   *)
GiveUp(h) ==
    /\ req[h] # Idle
    /\ req' = [req EXCEPT ![h] = Idle]
    /\ UNCHANGED <<account, device, retired, tokens, invite>>

Serve(h) ==
    \/ EndLogin(h) \/ EndRefresh(h) \/ EndReuse(h) \/ EndLogout(h)
    \/ EndInvite(h) \/ EndCancel(h) \/ EndRemove(h)

Arrive(h) ==
    \/ \E u \in User, d \in Device : BeginLogin(h, u, d)
    \/ \E t \in 1 .. tokens : BeginRefresh(h, t) \/ BeginReuse(h, t) \/ BeginLogout(h, t)
    \/ \E c \in Invite : BeginInvite(h, c) \/ BeginCancel(h, c)
    \/ \E u \in User : BeginRemove(h, u)

Next ==
    \/ \E u \in User, d \in Device : Bootstrap(u, d) \/ RecoveryRedeem(u, d)
    \/ \E c \in Invite, u \in User, d \in Device : RedeemInvite(c, u, d)
    \/ \E c \in Invite : Expire(c)
    \/ \E h \in Handler : Arrive(h) \/ Serve(h) \/ GiveUp(h)

AccessSpec == Init /\ [][Next]_vars
-----------------------------------------------------------------------------
(* An invite that is handed out has a place kept for it: active members    *)
(* and open invites together never exceed the quota, whatever expires or   *)
(* is redeemed while an invite is being made.  So the quota check of       *)
(* RedeemInvite never refuses an invite.                                   *)
OpenInvitesFit ==
    Cardinality(ActiveUsers) + Cardinality({c \in Invite : invite[c] = "open"}) <= MaxUsers

(* A vault that has been set up keeps an active member, even when members  *)
(* remove each other at the same time: each passed RequireAuth before the  *)
(* other's transaction.                                                    *)
LastMemberStays == Accounts # {} => ActiveUsers # {}

(* A revoked device never comes back, also when a refresh or a login that  *)
(* was under way gives it a new token after it was revoked.                *)
RevokedDevicesStay ==
    [][\A d \in DOMAIN device :
         device[d].revoked => d \in DOMAIN device' /\ device'[d].revoked]_vars

(* A token opens the session of one device, and one that was retired opens *)
(* none again, also when two refreshes with one token cross each other: so *)
(* no token in use is ever taken for a stolen one.                         *)
TokensIdentify ==
    /\ \A d, e \in DOMAIN device : device[d].token = device[e].token => d = e
    /\ \A r \in retired : Holders(r.hash) = {}

(* How far the limit of devices can be exceeded.  Recovery does not count, *)
(* but leaves its account one device: beyond the limit there is at most    *)
(* one device for each account but one.                                    *)
DevicesBounded ==
    Accounts # {} => Cardinality(ActiveDevices) <= MaxDevices + Cardinality(Accounts) - 1
=============================================================================
