------------------------ MODULE FamilyAccessProofs -------------------------
(***************************************************************************)
(* The limits of a family, for any number of users, devices, invites and   *)
(* requests under way, and any limits.                                     *)
(***************************************************************************)
EXTENDS FamilyAccess, FiniteSetTheorems, TLAPS

-----------------------------------------------------------------------------
(* The inductive invariant.                                                *)

(* What a request of POST /v1/invites took for expired is so for good.     *)
LapsedStays ==
    \A h \in Handler : req[h].op = "invite" =>
        \A c \in req[h].lapsed : invite[c] \in {"expired", "deleted"}

OpenInvites == {c \in Invite : invite[c] = "open"}

(* Before the vault is set up there is no invite, open or under way.       *)
NothingBeforeBootstrap ==
    Accounts = {} => /\ OpenInvites = {}
                     /\ \A h \in Handler : req[h].op # "invite"

(* A login under way is of an account that exists, and so is every device. *)
OwnersExist ==
    /\ \A d \in DOMAIN device : device[d].user \in Accounts
    /\ \A h \in Handler : req[h].op = "login" => req[h].user \in Accounts

(* The active devices of the users in S.                                   *)
DevicesOf(S) == {d \in ActiveDevices : device[d].user \in S}

(* The limit, for every group of users.  DevicesBounded is the instance    *)
(* for all accounts; it is inductive for all groups only, because recovery *)
(* leaves one device to its account, whatever the others have.             *)
GroupsBounded ==
    \A S \in SUBSET User : S # {} =>
        Cardinality(DevicesOf(S)) <= MaxDevices + Cardinality(S) - 1

AccessInv ==
    /\ AccessTypeOK
    /\ LapsedStays
    /\ OwnersExist
    /\ NothingBeforeBootstrap
    /\ OpenInvitesFit
    /\ LastMemberStays
    /\ GroupsBounded
-----------------------------------------------------------------------------
(* Facts about requests and rows.                                          *)

(* What a request under way carries.                                       *)
LEMMA RequestFacts ==
    ASSUME NEW r \in Request
    PROVE  /\ r.op = "login" => r.user \in User /\ r.id \in Device
           /\ r.op = "refresh" => r.user \in User /\ r.id \in Device /\ r.hash \in Nat
           /\ r.op = "reuse" => r.user \in User
           /\ r.op = "logout" => r.id \in Device
           /\ r.op = "invite" => r.code \in Invite /\ r.lapsed \subseteq Invite
           /\ r.op = "cancel" => r.code \in Invite
           /\ r.op = "remove" => r.user \in User
BY DEF Request, Idle

(* The sets that are counted are finite.                                   *)
LEMMA CountedSetsAreFinite ==
    ASSUME AccessTypeOK
    PROVE  /\ IsFiniteSet(ActiveUsers) /\ IsFiniteSet(ActiveDevices)
           /\ IsFiniteSet(OpenInvites) /\ IsFiniteSet(Accounts)
           /\ Cardinality(ActiveUsers) \in Nat /\ Cardinality(ActiveDevices) \in Nat
           /\ Cardinality(OpenInvites) \in Nat /\ Cardinality(Accounts) \in Nat
<1>1. ActiveUsers \subseteq User /\ Accounts \subseteq User
  BY DEF ActiveUsers, Accounts
<1>2. ActiveDevices \subseteq Device
  BY DEF ActiveDevices, AccessTypeOK
<1>3. OpenInvites \subseteq Invite
  BY DEF OpenInvites
<1>4. /\ IsFiniteSet(ActiveUsers) /\ IsFiniteSet(ActiveDevices)
      /\ IsFiniteSet(OpenInvites) /\ IsFiniteSet(Accounts)
  BY <1>1, <1>2, <1>3, FiniteAssumption, FS_Subset
<1> QED BY <1>4, FS_CardinalityType

(* Revoking a user's devices changes nothing else.                         *)
LEMMA AllRevokedFacts ==
    ASSUME AccessTypeOK, NEW u \in User
    PROVE  /\ DOMAIN AllRevoked(u) = DOMAIN device
           /\ \A d \in DOMAIN device :
                /\ AllRevoked(u)[d] \in DeviceRow
                /\ AllRevoked(u)[d].user = device[d].user
                /\ AllRevoked(u)[d].revoked <=>
                     device[d].revoked \/ device[d].user = u
<1> SUFFICES ASSUME NEW d \in DOMAIN device
             PROVE  /\ AllRevoked(u)[d] \in DeviceRow
                    /\ AllRevoked(u)[d].user = device[d].user
                    /\ AllRevoked(u)[d].revoked <=>
                         device[d].revoked \/ device[d].user = u
  BY DEF AllRevoked
<1>1. device[d] \in DeviceRow
  BY DEF AccessTypeOK
<1>2. AllRevoked(u)[d] = IF device[d].user = u
                         THEN [device[d] EXCEPT !.revoked = TRUE] ELSE device[d]
  BY DEF AllRevoked
<1>3. CASE device[d].user = u
  BY <1>1, <1>2, <1>3 DEF DeviceRow
<1>4. CASE device[d].user # u
  BY <1>1, <1>2, <1>4 DEF DeviceRow
<1> QED BY <1>3, <1>4

(* A device that is new to the table.                                      *)
LEMMA CreateDeviceFacts ==
    ASSUME tokens \in Nat, NEW STATE d, d \in Device, NEW STATE u, u \in User,
           NEW STATE rows, \A x \in DOMAIN device : rows[x] \in DeviceRow,
           DOMAIN device \subseteq Device,
           CreateDevice(d, u, rows)
    PROVE  /\ d \notin DOMAIN device /\ DOMAIN device' = DOMAIN device \cup {d}
           /\ device'[d].user = u /\ ~device'[d].revoked
           /\ \A x \in DOMAIN device : device'[x] = rows[x]
           /\ \A x \in DOMAIN device' : device'[x] \in DeviceRow
           /\ DOMAIN device' \subseteq Device
           /\ tokens' \in Nat
<1>1. d \notin DOMAIN device /\ DOMAIN device' = DOMAIN device \cup {d}
  BY DEF CreateDevice
<1>2. device'[d] = [user |-> u, token |-> tokens + 1, revoked |-> FALSE]
  BY DEF CreateDevice
<1>3. \A x \in DOMAIN device : device'[x] = rows[x]
  BY <1>1 DEF CreateDevice
<1>4. device'[d] \in DeviceRow
  BY <1>2 DEF DeviceRow
<1>5. tokens' \in Nat
  BY DEF CreateDevice
<1>6. device'[d].user = u /\ ~device'[d].revoked
  BY <1>2
<1>7. \A x \in DOMAIN device' : device'[x] \in DeviceRow
  BY <1>1, <1>3, <1>4
<1> QED BY <1>1, <1>3, <1>5, <1>6, <1>7

(* A new token changes nothing else, even for an id without a row.         *)
LEMMA RehashFacts ==
    ASSUME AccessTypeOK, NEW STATE d, UpdateDeviceRefreshHash(d)
    PROVE  /\ DOMAIN device' = DOMAIN device
           /\ \A x \in DOMAIN device :
                /\ device'[x] \in DeviceRow
                /\ device'[x].user = device[x].user
                /\ device'[x].revoked = device[x].revoked
           /\ tokens' \in Nat
<1>1. device' = [device EXCEPT ![d].token = tokens + 1] /\ tokens' = tokens + 1
  BY DEF UpdateDeviceRefreshHash
<1>2. tokens \in Nat /\ \A x \in DOMAIN device : device[x] \in DeviceRow
  BY DEF AccessTypeOK
<1>3. ASSUME NEW x \in DOMAIN device
      PROVE  /\ device'[x] \in DeviceRow
             /\ device'[x].user = device[x].user
             /\ device'[x].revoked = device[x].revoked
  BY <1>1, <1>2 DEF DeviceRow
<1> QED BY <1>1, <1>2, <1>3

(* So does the logout of a device.                                         *)
LEMMA LogoutFacts ==
    ASSUME AccessTypeOK, NEW STATE d, device' = [device EXCEPT ![d].revoked = TRUE]
    PROVE  /\ DOMAIN device' = DOMAIN device
           /\ \A x \in DOMAIN device :
                /\ device'[x] \in DeviceRow
                /\ device'[x].user = device[x].user
                /\ device[x].revoked => device'[x].revoked
<1>1. \A x \in DOMAIN device : device[x] \in DeviceRow
  BY DEF AccessTypeOK
<1>2. ASSUME NEW x \in DOMAIN device
      PROVE  /\ device'[x] \in DeviceRow
             /\ device'[x].user = device[x].user
             /\ device[x].revoked => device'[x].revoked
  BY <1>1 DEF DeviceRow
<1> QED BY <1>2

-----------------------------------------------------------------------------
(* Type correctness.                                                       *)

LEMMA InitTypes == Init => AccessTypeOK
BY DEF Init, AccessTypeOK, AccountStatus, InviteStatus, Request

(* The requests under way are well-formed after every step that begins one *)
(* or ends one.                                                            *)
LEMMA RequestTypes ==
    ASSUME AccessTypeOK, NEW h \in Handler, NEW r \in Request,
           req' = [req EXCEPT ![h] = r]
    PROVE  req' \in [Handler -> Request]
BY DEF AccessTypeOK

LEMMA StepTypes == AccessTypeOK /\ [Next]_vars => AccessTypeOK'
<1> SUFFICES ASSUME AccessTypeOK, [Next]_vars PROVE AccessTypeOK'
  OBVIOUS
<1>0. Idle \in Request
  BY DEF Request
<1>1. CASE UNCHANGED vars
  BY <1>1 DEF vars, AccessTypeOK
<1>2. ASSUME NEW u \in User, NEW d \in Device, Bootstrap(u, d) PROVE AccessTypeOK'
  <2>1. account' \in [User -> AccountStatus]
    BY <1>2 DEF Bootstrap, AccessTypeOK, AccountStatus
  <2> QED BY <1>2, <2>1, CreateDeviceFacts DEF Bootstrap, AccessTypeOK
<1>3. ASSUME NEW u \in User, NEW d \in Device, RecoveryRedeem(u, d) PROVE AccessTypeOK'
  BY <1>3, CreateDeviceFacts, AllRevokedFacts DEF RecoveryRedeem, AccessTypeOK
<1>4. ASSUME NEW c \in Invite, NEW u \in User, NEW d \in Device, RedeemInvite(c, u, d)
      PROVE  AccessTypeOK'
  <2>1. account' \in [User -> AccountStatus] /\ invite' \in [Invite -> InviteStatus]
    BY <1>4 DEF RedeemInvite, AccessTypeOK, AccountStatus, InviteStatus
  <2> QED BY <1>4, <2>1, CreateDeviceFacts DEF RedeemInvite, AccessTypeOK
<1>5. ASSUME NEW c \in Invite, Expire(c) PROVE AccessTypeOK'
  BY <1>5 DEF Expire, AccessTypeOK, InviteStatus
<1>6. ASSUME NEW h \in Handler, GiveUp(h) PROVE AccessTypeOK'
  BY <1>6, <1>0, RequestTypes DEF GiveUp, AccessTypeOK
<1>7. ASSUME NEW h \in Handler, Arrive(h) PROVE AccessTypeOK'
  <2>1. PICK r \in Request : Begin(h, r)
    <3>1. \A u \in User, d \in Device : [op |-> "login", user |-> u, id |-> d] \in Request
      BY DEF Request
    <3>2. \A d \in DOMAIN device, t \in Nat :
            [op |-> "refresh", id |-> d, user |-> device[d].user, hash |-> t] \in Request
      BY DEF Request, AccessTypeOK, DeviceRow
    <3>3. \A x \in retired : [op |-> "reuse", user |-> x.user] \in Request
      BY DEF Request, AccessTypeOK
    <3>4. \A d \in DOMAIN device : [op |-> "logout", id |-> d] \in Request
      BY DEF Request, AccessTypeOK
    <3>5. \A c \in Invite : [op |-> "invite", code |-> c,
              lapsed |-> {x \in Invite : invite[x] = "expired"}] \in Request
      BY DEF Request
    <3>6. \A c \in Invite : [op |-> "cancel", code |-> c] \in Request
      BY DEF Request
    <3>7. \A u \in User : [op |-> "remove", user |-> u] \in Request
      BY DEF Request
    <3>8. ASSUME NEW t \in 1 .. tokens,
                 BeginRefresh(h, t) \/ BeginReuse(h, t) \/ BeginLogout(h, t)
          PROVE  \E r \in Request : Begin(h, r)
      <4>1. t \in Nat
        BY DEF AccessTypeOK
      <4>2. Holders(t) \subseteq DOMAIN device
        BY DEF Holders
      <4> QED BY <3>2, <3>3, <3>4, <3>8, <4>1, <4>2 DEF BeginRefresh, BeginReuse, BeginLogout
    <3> QED BY <1>7, <3>1, <3>5, <3>6, <3>7, <3>8
            DEF Arrive, BeginLogin, BeginInvite, BeginCancel, BeginRemove
  <2>2. UNCHANGED <<account, device, retired, tokens, invite>>
    BY <1>7 DEF Arrive, BeginLogin, BeginRefresh, BeginReuse, BeginLogout, BeginInvite,
                BeginCancel, BeginRemove
  <2> QED BY <2>1, <2>2, RequestTypes DEF Begin, AccessTypeOK
<1>8. ASSUME NEW h \in Handler, Serve(h) PROVE AccessTypeOK'
  <2>1. req[h] \in Request
    BY DEF AccessTypeOK
  <2>2. req' \in [Handler -> Request]
    BY <1>8, <1>0, RequestTypes
       DEF Serve, EndLogin, EndRefresh, EndReuse, EndLogout, EndInvite, EndCancel,
           EndRemove, End
  <2>3. CASE EndLogin(h)
    <3>1. req[h].user \in User /\ req[h].id \in Device
      BY <2>1, <2>3, RequestFacts DEF EndLogin, End
    <3>2. CASE UpdateDeviceRefreshHash(req[h].id)
      BY <2>2, <2>3, <3>2, RehashFacts DEF EndLogin, AccessTypeOK
    <3>3. CASE CreateDevice(req[h].id, req[h].user, device)
      BY <2>2, <2>3, <3>1, <3>3, CreateDeviceFacts DEF EndLogin, AccessTypeOK
    <3>4. CASE UNCHANGED <<device, tokens>>
      BY <2>2, <2>3, <3>4 DEF EndLogin, AccessTypeOK
    <3> QED BY <2>3, <3>2, <3>3, <3>4 DEF EndLogin
  <2>4. CASE EndRefresh(h)
    <3>1. req[h].user \in User /\ req[h].hash \in Nat
      BY <2>1, <2>4, RequestFacts DEF EndRefresh, End
    <3>2. retired' \subseteq [hash : Nat, user : User]
      BY <2>4, <3>1 DEF EndRefresh, Retire, AccessTypeOK
    <3> QED BY <2>2, <2>4, <3>2, RehashFacts DEF EndRefresh, AccessTypeOK
  <2>5. CASE EndReuse(h)
    <3>1. req[h].user \in User
      BY <2>1, <2>5, RequestFacts DEF EndReuse, End
    <3> QED BY <2>2, <2>5, <3>1, AllRevokedFacts DEF EndReuse, AccessTypeOK
  <2>6. CASE EndLogout(h)
    BY <2>2, <2>6, LogoutFacts DEF EndLogout, AccessTypeOK
  <2>7. CASE EndInvite(h)
    BY <2>2, <2>7 DEF EndInvite, AccessTypeOK, InviteStatus
  <2>8. CASE EndCancel(h)
    BY <2>2, <2>8 DEF EndCancel, AccessTypeOK, InviteStatus
  <2>9. CASE EndRemove(h)
    <3>1. req[h].user \in User
      BY <2>1, <2>9, RequestFacts DEF EndRemove, End
    <3>2. account' \in [User -> AccountStatus]
      BY <2>9 DEF EndRemove, AccessTypeOK, AccountStatus
    <3> QED BY <2>2, <2>9, <3>1, <3>2, AllRevokedFacts DEF EndRemove, AccessTypeOK
  <2> QED BY <1>8, <2>3, <2>4, <2>5, <2>6, <2>7, <2>8, <2>9 DEF Serve
<1> QED BY <1>1, <1>2, <1>3, <1>4, <1>5, <1>6, <1>7, <1>8 DEF Next

-----------------------------------------------------------------------------
(* What a step has to leave alone for each part of the invariant to hold   *)
(* after it.                                                               *)

(* A request under way stays as it is or ends.                             *)
RequestsKept == \A g \in Handler : req'[g] = req[g] \/ req'[g] = Idle

(* Ending one request is a case of that, and so is beginning none.         *)
LEMMA EndKeepsRequests ==
    ASSUME AccessTypeOK, NEW h \in Handler, req' = [req EXCEPT ![h] = Idle]
    PROVE  RequestsKept
BY DEF RequestsKept, AccessTypeOK

(* An expired invite may be deleted, but nothing else.                     *)
LEMMA LapsedKept ==
    ASSUME AccessTypeOK, LapsedStays, RequestsKept,
           \A c \in Invite : invite[c] \in {"expired", "deleted"}
                                => invite'[c] \in {"expired", "deleted"}
    PROVE  LapsedStays'
<1> SUFFICES ASSUME NEW g \in Handler, req'[g].op = "invite", NEW c \in req'[g].lapsed
             PROVE  invite'[c] \in {"expired", "deleted"}
  BY DEF LapsedStays
<1>1. req'[g] = req[g]
  BY DEF RequestsKept, Idle
<1>2. c \in Invite
  BY <1>1, RequestFacts DEF AccessTypeOK
<1> QED BY <1>1, <1>2 DEF LapsedStays

(* No account goes away, and the devices that are new have an owner.       *)
LEMMA OwnersKept ==
    ASSUME OwnersExist, RequestsKept, Accounts \subseteq Accounts',
           \A d \in DOMAIN device' :
              \/ d \in DOMAIN device /\ device'[d].user = device[d].user
              \/ device'[d].user \in Accounts'
    PROVE  OwnersExist'
<1>1. ASSUME NEW d \in DOMAIN device' PROVE device'[d].user \in Accounts'
  BY DEF OwnersExist
<1>2. ASSUME NEW h \in Handler, req'[h].op = "login" PROVE req'[h].user \in Accounts'
  BY <1>2 DEF OwnersExist, RequestsKept, Idle
<1> QED BY <1>1, <1>2 DEF OwnersExist

LEMMA BeforeBootstrapKept ==
    ASSUME NothingBeforeBootstrap, RequestsKept, Accounts \subseteq Accounts',
           Accounts # {} \/ OpenInvites' \subseteq OpenInvites
    PROVE  NothingBeforeBootstrap'
BY DEF NothingBeforeBootstrap, RequestsKept, Idle

(* Members and open invites may only get fewer.                            *)
LEMMA QuotaKept ==
    ASSUME AccessTypeOK, OpenInvitesFit,
           ActiveUsers' \subseteq ActiveUsers, OpenInvites' \subseteq OpenInvites
    PROVE  OpenInvitesFit'
<1>1. /\ Cardinality(ActiveUsers)' <= Cardinality(ActiveUsers)
      /\ Cardinality(OpenInvites)' <= Cardinality(OpenInvites)
      /\ IsFiniteSet(ActiveUsers') /\ IsFiniteSet(OpenInvites')
  BY CountedSetsAreFinite, FS_Subset
<1>2. Cardinality(ActiveUsers') \in Nat /\ Cardinality(OpenInvites') \in Nat
  BY <1>1, FS_CardinalityType
<1>3. Cardinality(ActiveUsers) + Cardinality(OpenInvites) <= MaxUsers
  BY DEF OpenInvitesFit, OpenInvites
<1>4. Cardinality(ActiveUsers') + Cardinality(OpenInvites') <= MaxUsers
  BY <1>1, <1>2, <1>3, CountedSetsAreFinite, LimitAssumption
<1> QED BY <1>4 DEF OpenInvitesFit, OpenInvites

LEMMA GroupsFinite ==
    ASSUME AccessTypeOK, NEW S \in SUBSET User
    PROVE  /\ IsFiniteSet(S) /\ Cardinality(S) \in Nat
           /\ S # {} => Cardinality(S) >= 1
           /\ IsFiniteSet(DevicesOf(S)) /\ Cardinality(DevicesOf(S)) \in Nat
           /\ Cardinality(DevicesOf(S)) <= Cardinality(ActiveDevices)
<1>1. IsFiniteSet(S)
  BY FiniteAssumption, FS_Subset
<1>2. Cardinality(S) \in Nat
  BY <1>1, FS_CardinalityType
<1>3. S # {} => Cardinality(S) >= 1
  BY <1>1, <1>2, FS_EmptySet
<1>4. DevicesOf(S) \subseteq ActiveDevices
  BY DEF DevicesOf
<1>5. IsFiniteSet(DevicesOf(S)) /\ Cardinality(DevicesOf(S)) <= Cardinality(ActiveDevices)
  BY <1>4, CountedSetsAreFinite, FS_Subset
<1> QED BY <1>1, <1>2, <1>3, <1>5, FS_CardinalityType

(* Devices may only be revoked.                                            *)
LEMMA GroupsKept ==
    ASSUME AccessTypeOK, GroupsBounded, ActiveDevices' \subseteq ActiveDevices,
           \A d \in ActiveDevices' : device'[d].user = device[d].user
    PROVE  GroupsBounded'
<1> SUFFICES ASSUME NEW S \in SUBSET User, S # {}
             PROVE  Cardinality(DevicesOf(S)') <= MaxDevices + Cardinality(S) - 1
  BY DEF GroupsBounded
<1>1. DevicesOf(S)' \subseteq DevicesOf(S)
  BY DEF DevicesOf
<1>2. /\ Cardinality(DevicesOf(S)') <= Cardinality(DevicesOf(S))
      /\ IsFiniteSet(DevicesOf(S)')
  BY <1>1, GroupsFinite, FS_Subset
<1>3. Cardinality(DevicesOf(S)') \in Nat
  BY <1>2, FS_CardinalityType
<1>4. Cardinality(DevicesOf(S)) <= MaxDevices + Cardinality(S) - 1
  BY DEF GroupsBounded
<1> QED BY <1>2, <1>3, <1>4, GroupsFinite, LimitAssumption

(* A login, or a new member: there was room for one more device, whoever   *)
(* it belongs to.                                                          *)
LEMMA RoomKeepsGroups ==
    ASSUME AccessTypeOK, RoomForDevice, NEW STATE d, d \in Device,
           NEW STATE u, u \in User, CreateDevice(d, u, device)
    PROVE  GroupsBounded'
<1> SUFFICES ASSUME NEW S \in SUBSET User, S # {}
             PROVE  Cardinality(DevicesOf(S)') <= MaxDevices + Cardinality(S) - 1
  BY DEF GroupsBounded
<1>1. /\ DOMAIN device' = DOMAIN device \cup {d}
      /\ \A x \in DOMAIN device : device'[x] = device[x]
  BY CreateDeviceFacts DEF AccessTypeOK
<1>2. DevicesOf(S)' \subseteq ActiveDevices \cup {d}
  BY <1>1 DEF DevicesOf, ActiveDevices
<1>3. /\ IsFiniteSet(ActiveDevices \cup {d})
      /\ Cardinality(ActiveDevices \cup {d}) \in Nat
      /\ Cardinality(ActiveDevices \cup {d}) <= MaxDevices
  <2>1. Cardinality(ActiveDevices) \in Nat /\ Cardinality(ActiveDevices) < MaxDevices
    BY CountedSetsAreFinite DEF RoomForDevice
  <2>2. Cardinality(ActiveDevices \cup {d}) =
          IF d \in ActiveDevices THEN Cardinality(ActiveDevices)
                                 ELSE Cardinality(ActiveDevices) + 1
    BY CountedSetsAreFinite, FS_AddElement
  <2>3. IsFiniteSet(ActiveDevices \cup {d})
    BY CountedSetsAreFinite, FS_AddElement
  <2> QED BY <2>1, <2>2, <2>3, LimitAssumption
<1>4. /\ Cardinality(DevicesOf(S)') <= Cardinality(ActiveDevices \cup {d})
      /\ Cardinality(DevicesOf(S)') \in Nat
  <2>1. /\ Cardinality(DevicesOf(S)') <= Cardinality(ActiveDevices \cup {d})
        /\ IsFiniteSet(DevicesOf(S)')
    BY <1>2, <1>3, FS_Subset
  <2> QED BY <2>1, FS_CardinalityType
<1>5. Cardinality(S) \in Nat /\ Cardinality(S) >= 1
  BY GroupsFinite
<1> QED BY <1>3, <1>4, <1>5, LimitAssumption

(* A recovery: the account has one device after it.  Take the account away *)
(* from a group that holds it, and use the bound of what is left.          *)
LEMMA RecoveryKeepsGroups ==
    ASSUME AccessTypeOK, GroupsBounded, NEW d \in Device, NEW u \in User,
           CreateDevice(d, u, AllRevoked(u))
    PROVE  GroupsBounded'
<1> SUFFICES ASSUME NEW S \in SUBSET User, S # {}
             PROVE  Cardinality(DevicesOf(S)') <= MaxDevices + Cardinality(S) - 1
  BY DEF GroupsBounded
<1>1. /\ d \notin DOMAIN device /\ DOMAIN device' = DOMAIN device \cup {d}
      /\ device'[d].user = u
      /\ \A x \in DOMAIN device : device'[x] = AllRevoked(u)[x]
  <2>1. \A x \in DOMAIN device : AllRevoked(u)[x] \in DeviceRow
    BY AllRevokedFacts
  <2>2. tokens \in Nat /\ DOMAIN device \subseteq Device
    BY DEF AccessTypeOK
  <2> QED BY <2>1, <2>2, CreateDeviceFacts
<1>2. \A x \in DOMAIN device :
        /\ device'[x].user = device[x].user
        /\ device'[x].revoked <=> device[x].revoked \/ device[x].user = u
  BY <1>1, AllRevokedFacts
<1> DEFINE R == S \ {u}
<1>3. R \in SUBSET User
  OBVIOUS
<1>4. DevicesOf(S)' \subseteq DevicesOf(R) \cup {d}
  BY <1>1, <1>2 DEF DevicesOf, ActiveDevices
<1>5. /\ Cardinality(DevicesOf(R) \cup {d}) <= Cardinality(DevicesOf(R)) + 1
      /\ Cardinality(DevicesOf(R) \cup {d}) \in Nat
      /\ IsFiniteSet(DevicesOf(R) \cup {d})
  <2>1. IsFiniteSet(DevicesOf(R)) /\ Cardinality(DevicesOf(R)) \in Nat
    BY <1>3, GroupsFinite
  <2>2. /\ IsFiniteSet(DevicesOf(R) \cup {d})
        /\ Cardinality(DevicesOf(R) \cup {d}) =
             IF d \in DevicesOf(R) THEN Cardinality(DevicesOf(R))
                                   ELSE Cardinality(DevicesOf(R)) + 1
    BY <2>1, FS_AddElement
  <2> QED BY <2>1, <2>2
<1>6. /\ Cardinality(DevicesOf(S)') <= Cardinality(DevicesOf(R) \cup {d})
      /\ Cardinality(DevicesOf(S)') \in Nat
  <2>1. /\ Cardinality(DevicesOf(S)') <= Cardinality(DevicesOf(R) \cup {d})
        /\ IsFiniteSet(DevicesOf(S)')
    BY <1>4, <1>5, FS_Subset
  <2> QED BY <2>1, FS_CardinalityType
<1>7. Cardinality(S) \in Nat /\ Cardinality(S) >= 1 /\ IsFiniteSet(S)
  BY GroupsFinite
<1>8. Cardinality(DevicesOf(R)) \in Nat
  BY <1>3, GroupsFinite
<1>9. CASE u \notin S
  <2>1. DevicesOf(S)' \subseteq DevicesOf(S)
    BY <1>1, <1>2, <1>9 DEF DevicesOf, ActiveDevices
  <2>2. Cardinality(DevicesOf(S)') <= Cardinality(DevicesOf(S))
    BY <2>1, GroupsFinite, FS_Subset
  <2>3. Cardinality(DevicesOf(S)) <= MaxDevices + Cardinality(S) - 1
    BY DEF GroupsBounded
  <2>4. Cardinality(DevicesOf(S)) \in Nat
    BY GroupsFinite
  <2> QED BY <1>6, <1>7, <2>2, <2>3, <2>4, LimitAssumption
<1>10. CASE u \in S /\ R = {}
  <2>1. DevicesOf(R) = {}
    BY <1>10 DEF DevicesOf
  <2>2. Cardinality(DevicesOf(R)) = 0
    BY <2>1, FS_EmptySet
  <2> QED BY <1>5, <1>6, <1>7, <2>2, LimitAssumption
<1>11. CASE u \in S /\ R # {}
  <2>1. Cardinality(R) = Cardinality(S) - 1
    BY <1>7, <1>11, FS_RemoveElement
  <2>2. Cardinality(DevicesOf(R)) <= MaxDevices + Cardinality(R) - 1
    BY <1>3, <1>11 DEF GroupsBounded
  <2> QED BY <1>5, <1>6, <1>7, <1>8, <2>1, <2>2, LimitAssumption
<1> QED BY <1>9, <1>10, <1>11

-----------------------------------------------------------------------------
(* The steps.                                                              *)

(* A request that arrives only reads.                                      *)
LEMMA ArriveReads ==
    ASSUME NEW h \in Handler, Arrive(h)
    PROVE  UNCHANGED <<account, device, retired, tokens, invite>>
BY DEF Arrive, BeginLogin, BeginRefresh, BeginReuse, BeginLogout, BeginInvite,
       BeginCancel, BeginRemove

(* A transaction ends its request.                                         *)
LEMMA ServeEnds ==
    ASSUME NEW h \in Handler, Serve(h)
    PROVE  req' = [req EXCEPT ![h] = Idle]
BY DEF Serve, EndLogin, EndRefresh, EndReuse, EndLogout, EndInvite, EndCancel,
       EndRemove, End

LEMMA InitInv == Init => AccessInv
<1> SUFFICES ASSUME Init PROVE AccessInv
  OBVIOUS
<1>1. AccessTypeOK
  BY InitTypes
<1>2. /\ Accounts = {} /\ ActiveUsers = {} /\ ActiveDevices = {} /\ OpenInvites = {}
      /\ DOMAIN device = {} /\ \A h \in Handler : req[h].op = "idle"
  BY DEF Init, Accounts, ActiveUsers, ActiveDevices, OpenInvites, Idle
<1>3. LapsedStays /\ OwnersExist /\ NothingBeforeBootstrap /\ LastMemberStays
  BY <1>2 DEF LapsedStays, OwnersExist, NothingBeforeBootstrap, LastMemberStays
<1>4. OpenInvitesFit
  BY <1>2, FS_EmptySet, LimitAssumption DEF OpenInvitesFit, OpenInvites
<1>5. GroupsBounded
  <2> SUFFICES ASSUME NEW S \in SUBSET User, S # {}
               PROVE  Cardinality(DevicesOf(S)) <= MaxDevices + Cardinality(S) - 1
    BY DEF GroupsBounded
  <2>1. DevicesOf(S) = {}
    BY <1>2 DEF DevicesOf
  <2>2. Cardinality(DevicesOf(S)) = 0
    BY <2>1, FS_EmptySet
  <2>3. Cardinality(S) \in Nat /\ Cardinality(S) >= 1
    BY <1>1, GroupsFinite
  <2> QED BY <2>2, <2>3, LimitAssumption
<1> QED BY <1>1, <1>3, <1>4, <1>5 DEF AccessInv

(* The first account: there is nothing else yet.                           *)
LEMMA BootstrapInv ==
    ASSUME AccessInv, AccessTypeOK', NEW u \in User, NEW d \in Device, Bootstrap(u, d)
    PROVE  AccessInv'
<1>1. /\ AccessTypeOK /\ Accounts = {} /\ account' = [account EXCEPT ![u] = "active"]
      /\ CreateDevice(d, u, device) /\ UNCHANGED <<retired, invite, req>>
  BY DEF Bootstrap, AccessInv
<1>2. DOMAIN device = {}
  BY <1>1 DEF AccessInv, OwnersExist
<1>3. /\ DOMAIN device' = {d} /\ device'[d].user = u
  BY <1>1, <1>2, CreateDeviceFacts DEF AccessTypeOK
<1>4. ActiveUsers' = {u} /\ Accounts' = {u}
  BY <1>1 DEF ActiveUsers, Accounts, AccessTypeOK
<1>5. OpenInvites' = {} /\ OpenInvites = {} /\ \A h \in Handler : req[h].op # "invite"
  BY <1>1 DEF AccessInv, NothingBeforeBootstrap, OpenInvites
<1>6. RequestsKept
  BY <1>1 DEF RequestsKept
<1>7. LapsedStays' /\ NothingBeforeBootstrap' /\ LastMemberStays'
  BY <1>1, <1>4, <1>5 DEF LapsedStays, NothingBeforeBootstrap, LastMemberStays
<1>8. OwnersExist'
  BY <1>1, <1>3, <1>4, <1>6, OwnersKept DEF AccessInv
<1>9. OpenInvitesFit'
  <2>1. Cardinality(ActiveUsers') = 1 /\ Cardinality(OpenInvites') = 0
    BY <1>4, <1>5, FS_Singleton, FS_EmptySet
  <2> QED BY <2>1, LimitAssumption DEF OpenInvitesFit, OpenInvites
<1>10. GroupsBounded'
  <2>1. ActiveDevices = {}
    BY <1>2 DEF ActiveDevices
  <2>2. RoomForDevice
    BY <2>1, FS_EmptySet, LimitAssumption DEF RoomForDevice
  <2> QED BY <1>1, <2>2, RoomKeepsGroups
<1> QED BY <1>7, <1>8, <1>9, <1>10 DEF AccessInv

(* Recovery changes devices only.                                          *)
LEMMA RecoveryInv ==
    ASSUME AccessInv, AccessTypeOK', NEW u \in User, NEW d \in Device, RecoveryRedeem(u, d)
    PROVE  AccessInv'
<1>1. /\ AccessTypeOK /\ u \in Accounts /\ CreateDevice(d, u, AllRevoked(u))
      /\ UNCHANGED <<account, retired, invite, req>>
  BY DEF RecoveryRedeem, AccessInv
<1>2. /\ RequestsKept /\ ActiveUsers' = ActiveUsers /\ Accounts' = Accounts
      /\ OpenInvites' = OpenInvites
  BY <1>1 DEF RequestsKept, ActiveUsers, Accounts, OpenInvites
<1>3. LapsedStays' /\ NothingBeforeBootstrap' /\ LastMemberStays' /\ OpenInvitesFit'
  BY <1>1, <1>2, LapsedKept, BeforeBootstrapKept, QuotaKept DEF AccessInv, LastMemberStays
<1>4. OwnersExist'
  <2>1. \A x \in DOMAIN device : AllRevoked(u)[x] \in DeviceRow
    BY <1>1, AllRevokedFacts
  <2>2. /\ DOMAIN device' = DOMAIN device \cup {d} /\ device'[d].user = u
        /\ \A x \in DOMAIN device : device'[x] = AllRevoked(u)[x]
    BY <1>1, <2>1, CreateDeviceFacts DEF AccessTypeOK
  <2>3. \A x \in DOMAIN device : device'[x].user = device[x].user
    BY <1>1, <2>2, AllRevokedFacts
  <2> QED BY <1>1, <1>2, <2>2, <2>3, OwnersKept DEF AccessInv
<1>5. GroupsBounded'
  BY <1>1, RecoveryKeepsGroups DEF AccessInv
<1> QED BY <1>3, <1>4, <1>5 DEF AccessInv

(* A redeemed invite leaves its place to the new member.                   *)
LEMMA RedeemInv ==
    ASSUME AccessInv, AccessTypeOK', NEW c \in Invite, NEW u \in User, NEW d \in Device,
           RedeemInvite(c, u, d)
    PROVE  AccessInv'
<1>1. /\ AccessTypeOK /\ invite[c] = "open" /\ account[u] = "none" /\ RoomForDevice
      /\ invite' = [invite EXCEPT ![c] = "used"]
      /\ account' = [account EXCEPT ![u] = "active"]
      /\ CreateDevice(d, u, device) /\ UNCHANGED <<retired, req>>
  BY DEF RedeemInvite, AccessInv
<1>2. /\ RequestsKept /\ ActiveUsers' = ActiveUsers \cup {u} /\ u \notin ActiveUsers
      /\ Accounts' = Accounts \cup {u}
      /\ OpenInvites' = OpenInvites \ {c} /\ c \in OpenInvites
  BY <1>1 DEF RequestsKept, ActiveUsers, Accounts, OpenInvites, AccessTypeOK
<1>3. LapsedStays'
  BY <1>1, <1>2, LapsedKept DEF AccessInv, AccessTypeOK
<1>4. NothingBeforeBootstrap' /\ LastMemberStays'
  BY <1>2 DEF NothingBeforeBootstrap, LastMemberStays
<1>5. OwnersExist'
  <2>1. /\ DOMAIN device' = DOMAIN device \cup {d} /\ device'[d].user = u
        /\ \A x \in DOMAIN device : device'[x] = device[x]
    BY <1>1, CreateDeviceFacts DEF AccessTypeOK
  <2> QED BY <1>2, <2>1, OwnersKept DEF AccessInv
<1>6. OpenInvitesFit'
  <2>1. /\ Cardinality(ActiveUsers') = Cardinality(ActiveUsers) + 1
        /\ Cardinality(OpenInvites') = Cardinality(OpenInvites) - 1
    BY <1>1, <1>2, CountedSetsAreFinite, FS_AddElement, FS_RemoveElement
  <2>2. Cardinality(ActiveUsers) + Cardinality(OpenInvites) <= MaxUsers
    BY DEF AccessInv, OpenInvitesFit, OpenInvites
  <2>3. Cardinality(ActiveUsers') + Cardinality(OpenInvites') <= MaxUsers
    BY <1>1, <2>1, <2>2, CountedSetsAreFinite, LimitAssumption
  <2> QED BY <2>3 DEF OpenInvitesFit, OpenInvites
<1>7. GroupsBounded'
  BY <1>1, RoomKeepsGroups
<1> QED BY <1>3, <1>4, <1>5, <1>6, <1>7 DEF AccessInv

(* A request that arrives changes no table; what it carries is right at    *)
(* that moment.                                                            *)
LEMMA ArriveInv ==
    ASSUME AccessInv, AccessTypeOK', NEW h \in Handler, Arrive(h)
    PROVE  AccessInv'
<1>1. AccessTypeOK /\ UNCHANGED <<account, device, retired, tokens, invite>>
  BY ArriveReads DEF AccessInv
<1>2. /\ Accounts' = Accounts /\ ActiveUsers' = ActiveUsers
      /\ ActiveDevices' = ActiveDevices /\ OpenInvites' = OpenInvites
  BY <1>1 DEF Accounts, ActiveUsers, ActiveDevices, OpenInvites
<1>3. PICK r : /\ Begin(h, r)
               /\ r.op = "login" => r.user \in Accounts
               /\ r.op = "invite" =>
                    /\ Accounts # {}
                    /\ \A c \in r.lapsed : invite[c] \in {"expired", "deleted"}
  <2>1. ASSUME NEW u \in User, NEW d \in Device, BeginLogin(h, u, d)
        PROVE  /\ Begin(h, [op |-> "login", user |-> u, id |-> d])
               /\ u \in Accounts
    BY <2>1 DEF BeginLogin, Accounts
  <2>2. ASSUME NEW c \in Invite, BeginInvite(h, c)
        PROVE  /\ Begin(h, [op |-> "invite", code |-> c,
                            lapsed |-> {x \in Invite : invite[x] = "expired"}])
               /\ Accounts # {}
    <3>1. PICK d \in Device : Authenticated(d)
      BY <2>2 DEF BeginInvite
    <3>2. device[d].user \in Accounts
      BY <3>1 DEF Authenticated, ActiveDevices, Accounts, AccessInv, AccessTypeOK, DeviceRow
    <3> QED BY <2>2, <3>2 DEF BeginInvite
  <2>3. CASE \E u \in User, d \in Device : BeginLogin(h, u, d)
    <3>1. PICK u \in User, d \in Device : BeginLogin(h, u, d)
      BY <2>3
    <3> DEFINE r == [op |-> "login", user |-> u, id |-> d]
    <3>2. Begin(h, r) /\ r.op = "login" /\ r.user \in Accounts
      BY <2>1, <3>1
    <3> HIDE DEF r
    <3> QED BY <3>2
  <2>4. CASE \E c \in Invite : BeginInvite(h, c)
    <3>1. PICK c \in Invite : BeginInvite(h, c)
      BY <2>4
    <3> DEFINE r == [op |-> "invite", code |-> c,
                     lapsed |-> {x \in Invite : invite[x] = "expired"}]
    <3>2. Begin(h, r) /\ r.op = "invite" /\ Accounts # {}
      BY <2>2, <3>1
    <3>3. \A x \in r.lapsed : invite[x] \in {"expired", "deleted"}
      OBVIOUS
    <3> HIDE DEF r
    <3> QED BY <3>2, <3>3
  <2>5. CASE \E t \in 1 .. tokens :
                BeginRefresh(h, t) \/ BeginReuse(h, t) \/ BeginLogout(h, t)
    <3>1. PICK t \in 1 .. tokens :
                  BeginRefresh(h, t) \/ BeginReuse(h, t) \/ BeginLogout(h, t)
      BY <2>5
    <3>2. ASSUME NEW d, Begin(h, [op |-> "refresh", id |-> d, user |-> device[d].user, hash |-> t])
          PROVE  \E r : Begin(h, r) /\ r.op = "refresh"
      BY <3>2
    <3>3. ASSUME NEW x, Begin(h, [op |-> "reuse", user |-> x.user])
          PROVE  \E r : Begin(h, r) /\ r.op = "reuse"
      BY <3>3
    <3>4. ASSUME NEW d, Begin(h, [op |-> "logout", id |-> d])
          PROVE  \E r : Begin(h, r) /\ r.op = "logout"
      BY <3>4
    <3>5. PICK r : Begin(h, r) /\ r.op \in {"refresh", "reuse", "logout"}
      BY <3>1, <3>2, <3>3, <3>4 DEF BeginRefresh, BeginReuse, BeginLogout
    <3> QED BY <3>5
  <2>6. CASE \/ \E c \in Invite : BeginCancel(h, c)
             \/ \E u \in User : BeginRemove(h, u)
    <3>1. ASSUME NEW c, Begin(h, [op |-> "cancel", code |-> c])
          PROVE  \E r : Begin(h, r) /\ r.op = "cancel"
      BY <3>1
    <3>2. ASSUME NEW u, Begin(h, [op |-> "remove", user |-> u])
          PROVE  \E r : Begin(h, r) /\ r.op = "remove"
      BY <3>2
    <3>3. PICK r : Begin(h, r) /\ r.op \in {"cancel", "remove"}
      BY <2>6, <3>1, <3>2 DEF BeginCancel, BeginRemove
    <3> QED BY <3>3
  <2> QED BY <2>3, <2>4, <2>5, <2>6 DEF Arrive
<1>4. \A g \in Handler : req'[g] = IF g = h THEN r ELSE req[g]
  BY <1>1, <1>3 DEF Begin, AccessTypeOK
<1>5. LapsedStays'
  BY <1>1, <1>3, <1>4 DEF LapsedStays, AccessInv
<1>6. OwnersExist'
  BY <1>1, <1>2, <1>3, <1>4 DEF OwnersExist, AccessInv
<1>7. NothingBeforeBootstrap'
  BY <1>2, <1>3, <1>4 DEF NothingBeforeBootstrap, AccessInv
<1>8. OpenInvitesFit' /\ LastMemberStays'
  BY <1>1, <1>2, QuotaKept DEF LastMemberStays, AccessInv
<1>9. GroupsBounded'
  BY <1>1, <1>2, GroupsKept DEF AccessInv
<1> QED BY <1>5, <1>6, <1>7, <1>8, <1>9 DEF AccessInv

(* The steps that change neither accounts nor devices, and open no invite. *)
LEMMA InviteClosesInv ==
    ASSUME AccessInv, AccessTypeOK', RequestsKept, UNCHANGED <<account, device>>,
           \A c \in Invite :
              /\ invite'[c] = "open" => invite[c] = "open"
              /\ invite[c] \in {"expired", "deleted"} => invite'[c] \in {"expired", "deleted"}
    PROVE  AccessInv'
<1>1. /\ Accounts' = Accounts /\ ActiveUsers' = ActiveUsers
      /\ ActiveDevices' = ActiveDevices /\ OpenInvites' \subseteq OpenInvites
  BY DEF Accounts, ActiveUsers, ActiveDevices, OpenInvites
<1>2. LapsedStays' /\ NothingBeforeBootstrap' /\ OpenInvitesFit' /\ LastMemberStays'
  BY <1>1, LapsedKept, BeforeBootstrapKept, QuotaKept DEF AccessInv, LastMemberStays
<1>3. OwnersExist'
  BY <1>1, OwnersKept DEF AccessInv
<1>4. GroupsBounded'
  BY <1>1, GroupsKept DEF AccessInv
<1> QED BY <1>2, <1>3, <1>4 DEF AccessInv

(* The steps that only revoke devices or give them new tokens.             *)
LEMMA DevicesOnlyInv ==
    ASSUME AccessInv, AccessTypeOK', RequestsKept, UNCHANGED <<account, invite>>,
           DOMAIN device' = DOMAIN device,
           \A d \in DOMAIN device : /\ device'[d].user = device[d].user
                                    /\ device[d].revoked => device'[d].revoked
    PROVE  AccessInv'
<1>1. /\ Accounts' = Accounts /\ ActiveUsers' = ActiveUsers /\ OpenInvites' = OpenInvites
      /\ ActiveDevices' \subseteq ActiveDevices
      /\ \A d \in ActiveDevices' : device'[d].user = device[d].user
  BY DEF Accounts, ActiveUsers, ActiveDevices, OpenInvites
<1>2. LapsedStays' /\ NothingBeforeBootstrap' /\ OpenInvitesFit' /\ LastMemberStays'
  BY <1>1, LapsedKept, BeforeBootstrapKept, QuotaKept DEF AccessInv, LastMemberStays
<1>3. OwnersExist'
  BY <1>1, OwnersKept DEF AccessInv
<1>4. GroupsBounded'
  BY <1>1, GroupsKept DEF AccessInv
<1> QED BY <1>2, <1>3, <1>4 DEF AccessInv

(* A login: a new token for a known device, a new device if there is room, *)
(* or an error.                                                            *)
LEMMA LoginInv ==
    ASSUME AccessInv, AccessTypeOK', NEW h \in Handler, EndLogin(h), RequestsKept
    PROVE  AccessInv'
<1>1. AccessTypeOK /\ UNCHANGED <<account, retired, invite>> /\ req[h].op = "login"
  BY DEF EndLogin, End, AccessInv
<1>2. req[h].user \in User /\ req[h].id \in Device /\ req[h].user \in Accounts
  BY <1>1, RequestFacts DEF AccessTypeOK, AccessInv, OwnersExist
<1>3. CASE UpdateDeviceRefreshHash(req[h].id)
  BY <1>1, <1>3, RehashFacts, DevicesOnlyInv
<1>4. CASE UNCHANGED <<device, tokens>>
  BY <1>1, <1>4, DevicesOnlyInv
<1>5. CASE RoomForDevice /\ CreateDevice(req[h].id, req[h].user, device)
  <2>1. /\ Accounts' = Accounts /\ ActiveUsers' = ActiveUsers
        /\ OpenInvites' = OpenInvites
    BY <1>1 DEF Accounts, ActiveUsers, OpenInvites
  <2>2. LapsedStays' /\ NothingBeforeBootstrap' /\ OpenInvitesFit' /\ LastMemberStays'
    BY <1>1, <2>1, LapsedKept, BeforeBootstrapKept, QuotaKept DEF AccessInv, LastMemberStays
  <2>3. OwnersExist'
    <3>1. /\ DOMAIN device' = DOMAIN device \cup {req[h].id}
          /\ device'[req[h].id].user = req[h].user
          /\ \A x \in DOMAIN device : device'[x] = device[x]
      BY <1>1, <1>2, <1>5, CreateDeviceFacts DEF AccessTypeOK
    <3> QED BY <1>2, <2>1, <3>1, OwnersKept DEF AccessInv
  <2>4. GroupsBounded'
    BY <1>1, <1>2, <1>5, RoomKeepsGroups
  <2> QED BY <2>2, <2>3, <2>4 DEF AccessInv
<1> QED BY <1>3, <1>4, <1>5 DEF EndLogin

(* An invite that is made: the invites counted are at least the open ones, *)
(* because those left out had expired already.                             *)
LEMMA InviteInv ==
    ASSUME AccessInv, AccessTypeOK', NEW h \in Handler, EndInvite(h), RequestsKept
    PROVE  AccessInv'
<1>1. /\ AccessTypeOK /\ UNCHANGED <<account, device, retired, tokens>>
      /\ req[h].op = "invite"
  BY DEF EndInvite, End, AccessInv
<1>2. req[h].code \in Invite /\ req[h].lapsed \subseteq Invite /\ Accounts # {}
  BY <1>1, RequestFacts DEF AccessTypeOK, AccessInv, NothingBeforeBootstrap
<1>3. CASE UNCHANGED invite
  BY <1>1, <1>3, InviteClosesInv
<1>4. CASE /\ Cardinality(ActiveUsers) + Cardinality(ActiveInvites(req[h].lapsed)) < MaxUsers
           /\ invite[req[h].code] = "none"
           /\ invite' = [invite EXCEPT ![req[h].code] = "open"]
  <2>1. /\ Accounts' = Accounts /\ ActiveUsers' = ActiveUsers
        /\ ActiveDevices' = ActiveDevices
        /\ OpenInvites' = OpenInvites \cup {req[h].code}
        /\ req[h].code \notin OpenInvites
    BY <1>1, <1>2, <1>4 DEF Accounts, ActiveUsers, ActiveDevices, OpenInvites, AccessTypeOK
  <2>2. LapsedStays'
    BY <1>1, <1>4, LapsedKept DEF AccessInv, AccessTypeOK
  <2>3. NothingBeforeBootstrap' /\ LastMemberStays'
    BY <1>2, <2>1, BeforeBootstrapKept DEF AccessInv, LastMemberStays
  <2>4. OwnersExist'
    BY <1>1, <2>1, OwnersKept DEF AccessInv
  <2>5. GroupsBounded'
    BY <1>1, <2>1, GroupsKept DEF AccessInv
  <2>6. OpenInvites \subseteq ActiveInvites(req[h].lapsed)
    BY <1>1 DEF OpenInvites, ActiveInvites, AccessInv, LapsedStays
  <2>7. /\ IsFiniteSet(ActiveInvites(req[h].lapsed))
        /\ Cardinality(OpenInvites) <= Cardinality(ActiveInvites(req[h].lapsed))
    <3>1. ActiveInvites(req[h].lapsed) \subseteq Invite
      BY DEF ActiveInvites
    <3>2. IsFiniteSet(ActiveInvites(req[h].lapsed))
      BY <3>1, FiniteAssumption, FS_Subset
    <3> QED BY <2>6, <3>2, FS_Subset
  <2>8. Cardinality(ActiveInvites(req[h].lapsed)) \in Nat
    BY <2>7, FS_CardinalityType
  <2>9. Cardinality(OpenInvites') = Cardinality(OpenInvites) + 1
    BY <1>1, <2>1, CountedSetsAreFinite, FS_AddElement
  <2>10. Cardinality(ActiveUsers') + Cardinality(OpenInvites') <= MaxUsers
    BY <1>1, <1>4, <2>1, <2>7, <2>8, <2>9, CountedSetsAreFinite, LimitAssumption
  <2>11. OpenInvitesFit'
    BY <2>10 DEF OpenInvitesFit, OpenInvites
  <2> QED BY <2>2, <2>3, <2>4, <2>5, <2>11 DEF AccessInv
<1> QED BY <1>3, <1>4 DEF EndInvite

(* A member that is removed was not the last active one.                   *)
LEMMA RemoveInv ==
    ASSUME AccessInv, AccessTypeOK', NEW h \in Handler, EndRemove(h), RequestsKept
    PROVE  AccessInv'
<1> DEFINE u == req[h].user
<1>1. AccessTypeOK /\ UNCHANGED <<retired, tokens, invite>> /\ req[h].op = "remove"
  BY DEF EndRemove, End, AccessInv
<1>2. u \in User
  BY <1>1, RequestFacts DEF AccessTypeOK
<1>3. CASE UNCHANGED <<account, device>>
  BY <1>1, <1>3, InviteClosesInv
<1>4. CASE /\ MayRemove(u) /\ account' = [account EXCEPT ![u] = "disabled"]
           /\ device' = AllRevoked(u)
  <2>1. /\ Accounts \subseteq Accounts' /\ ActiveUsers' = ActiveUsers \ {u}
        /\ OpenInvites' = OpenInvites
    BY <1>1, <1>2, <1>4 DEF Accounts, ActiveUsers, OpenInvites, AccessTypeOK
  <2>2. LapsedStays' /\ NothingBeforeBootstrap' /\ OpenInvitesFit'
    BY <1>1, <2>1, LapsedKept, BeforeBootstrapKept, QuotaKept DEF AccessInv
  <2>3. /\ DOMAIN device' = DOMAIN device
        /\ \A d \in DOMAIN device : /\ device'[d].user = device[d].user
                                    /\ device[d].revoked => device'[d].revoked
    BY <1>1, <1>2, <1>4, AllRevokedFacts
  <2>4. OwnersExist'
    BY <2>1, <2>3, OwnersKept DEF AccessInv
  <2>5. GroupsBounded'
    <3>1. /\ ActiveDevices' \subseteq ActiveDevices
          /\ \A d \in ActiveDevices' : device'[d].user = device[d].user
      BY <2>3 DEF ActiveDevices
    <3> QED BY <1>1, <3>1, GroupsKept DEF AccessInv
  <2>6. LastMemberStays'
    <3>1. CASE account[u] = "active"
      <4>1. Cardinality(ActiveUsers \ {u}) = Cardinality(ActiveUsers) - 1
        BY <1>1, <1>2, <3>1, CountedSetsAreFinite, FS_RemoveElement DEF ActiveUsers
      <4>2. Cardinality(ActiveUsers) > 1
        BY <1>4, <3>1 DEF MayRemove
      <4>3. Cardinality(ActiveUsers \ {u}) # 0
        BY <1>1, <4>1, <4>2, CountedSetsAreFinite
      <4> QED BY <2>1, <4>3, FS_EmptySet DEF LastMemberStays
    <3>2. CASE account[u] # "active"
      <4>1. ActiveUsers' = ActiveUsers
        BY <2>1, <3>2 DEF ActiveUsers
      <4>2. Accounts # {}
        BY <1>4 DEF MayRemove
      <4> QED BY <4>1, <4>2 DEF AccessInv, LastMemberStays
    <3> QED BY <3>1, <3>2
  <2> QED BY <2>2, <2>4, <2>5, <2>6 DEF AccessInv
<1> QED BY <1>3, <1>4 DEF EndRemove

LEMMA StepInv == AccessInv /\ [Next]_vars => AccessInv'
<1> SUFFICES ASSUME AccessInv, [Next]_vars PROVE AccessInv'
  OBVIOUS
<1>1. AccessTypeOK /\ AccessTypeOK'
  BY StepTypes DEF AccessInv
<1>2. CASE UNCHANGED vars
  <2>1. RequestsKept
    BY <1>2 DEF vars, RequestsKept
  <2> QED BY <1>1, <1>2, <2>1, InviteClosesInv DEF vars
<1>3. ASSUME NEW u \in User, NEW d \in Device, Bootstrap(u, d) \/ RecoveryRedeem(u, d)
      PROVE  AccessInv'
  BY <1>1, <1>3, BootstrapInv, RecoveryInv
<1>4. ASSUME NEW c \in Invite, NEW u \in User, NEW d \in Device, RedeemInvite(c, u, d)
      PROVE  AccessInv'
  BY <1>1, <1>4, RedeemInv
<1>5. ASSUME NEW c \in Invite, Expire(c) PROVE AccessInv'
  <2>1. RequestsKept /\ UNCHANGED <<account, device>>
    BY <1>5 DEF Expire, RequestsKept
  <2>2. \A x \in Invite :
          /\ invite'[x] = "open" => invite[x] = "open"
          /\ invite[x] \in {"expired", "deleted"} => invite'[x] \in {"expired", "deleted"}
    BY <1>1, <1>5 DEF Expire, AccessTypeOK
  <2> QED BY <1>1, <2>1, <2>2, InviteClosesInv
<1>6. ASSUME NEW h \in Handler, Arrive(h) PROVE AccessInv'
  BY <1>1, <1>6, ArriveInv
<1>7. ASSUME NEW h \in Handler, Serve(h) PROVE AccessInv'
  <2>1. RequestsKept
    BY <1>1, <1>7, ServeEnds, EndKeepsRequests
  <2>2. CASE EndLogin(h)
    BY <1>1, <2>1, <2>2, LoginInv
  <2>3. CASE EndRefresh(h)
    BY <1>1, <2>1, <2>3, RehashFacts, DevicesOnlyInv DEF EndRefresh
  <2>4. CASE EndReuse(h)
    <3>1. req[h].user \in User
      BY <1>1, <2>4, RequestFacts DEF EndReuse, End, AccessTypeOK
    <3> QED BY <1>1, <2>1, <2>4, <3>1, AllRevokedFacts, DevicesOnlyInv DEF EndReuse
  <2>5. CASE EndLogout(h)
    BY <1>1, <2>1, <2>5, LogoutFacts, DevicesOnlyInv DEF EndLogout
  <2>6. CASE EndInvite(h)
    BY <1>1, <2>1, <2>6, InviteInv
  <2>7. CASE EndCancel(h)
    <3>1. \A x \in Invite :
            /\ invite'[x] = "open" => invite[x] = "open"
            /\ invite[x] \in {"expired", "deleted"} => invite'[x] \in {"expired", "deleted"}
      BY <1>1, <2>7 DEF EndCancel, AccessTypeOK
    <3> QED BY <1>1, <2>1, <2>7, <3>1, InviteClosesInv DEF EndCancel
  <2>8. CASE EndRemove(h)
    BY <1>1, <2>1, <2>8, RemoveInv
  <2> QED BY <1>7, <2>2, <2>3, <2>4, <2>5, <2>6, <2>7, <2>8 DEF Serve
<1>8. ASSUME NEW h \in Handler, GiveUp(h) PROVE AccessInv'
  <2>1. RequestsKept /\ UNCHANGED <<account, device, invite>>
    BY <1>1, <1>8, EndKeepsRequests DEF GiveUp
  <2> QED BY <1>1, <2>1, InviteClosesInv
<1> QED BY <1>2, <1>3, <1>4, <1>5, <1>6, <1>7, <1>8 DEF Next

(* What a step may not do to a revoked device.                             *)
LEMMA StepRevoked ==
    ASSUME AccessTypeOK, [Next]_vars, NEW d \in DOMAIN device, device[d].revoked
    PROVE  d \in DOMAIN device' /\ device'[d].revoked
<1>1. CASE UNCHANGED vars
  BY <1>1 DEF vars
<1>2. ASSUME NEW x \in Device, NEW u \in User, CreateDevice(x, u, device)
      PROVE  d \in DOMAIN device' /\ device'[d].revoked
  BY <1>2, CreateDeviceFacts DEF AccessTypeOK
<1>3. CASE \E u \in User, x \in Device : Bootstrap(u, x)
  BY <1>2, <1>3 DEF Bootstrap
<1>4. ASSUME NEW u \in User, NEW x \in Device, RecoveryRedeem(u, x)
      PROVE  d \in DOMAIN device' /\ device'[d].revoked
  <2>1. \A y \in DOMAIN device : AllRevoked(u)[y] \in DeviceRow
    BY AllRevokedFacts
  <2>2. d \in DOMAIN device' /\ device'[d] = AllRevoked(u)[d]
    BY <1>4, <2>1, CreateDeviceFacts DEF RecoveryRedeem, AccessTypeOK
  <2> QED BY <2>2, AllRevokedFacts
<1>5. CASE \E c \in Invite, u \in User, x \in Device : RedeemInvite(c, u, x)
  BY <1>2, <1>5 DEF RedeemInvite
<1>6. CASE \E c \in Invite : Expire(c)
  BY <1>6 DEF Expire
<1>7. CASE \E h \in Handler : Arrive(h) \/ GiveUp(h)
  BY <1>7, ArriveReads DEF GiveUp
<1>8. ASSUME NEW h \in Handler, Serve(h)
      PROVE  d \in DOMAIN device' /\ device'[d].revoked
  <2>1. req[h] \in Request
    BY DEF AccessTypeOK
  <2>2. CASE EndLogin(h)
    <3>1. req[h].user \in User /\ req[h].id \in Device
      BY <2>1, <2>2, RequestFacts DEF EndLogin, End
    <3>2. CASE CreateDevice(req[h].id, req[h].user, device)
      <4>1. tokens \in Nat /\ DOMAIN device \subseteq Device
            /\ \A y \in DOMAIN device : device[y] \in DeviceRow
        BY DEF AccessTypeOK
      <4>2. d \in DOMAIN device' /\ device'[d] = device[d]
        BY <3>1, <3>2, <4>1, CreateDeviceFacts
      <4> QED BY <4>2
    <3>3. CASE UpdateDeviceRefreshHash(req[h].id)
      BY <3>3, RehashFacts
    <3> QED BY <2>2, <3>2, <3>3 DEF EndLogin
  <2>3. CASE EndRefresh(h)
    BY <2>3, RehashFacts DEF EndRefresh
  <2>4. CASE EndReuse(h) \/ EndRemove(h)
    <3>1. req[h].user \in User
      BY <2>1, <2>4, RequestFacts DEF EndReuse, EndRemove, End
    <3> QED BY <2>4, <3>1, AllRevokedFacts DEF EndReuse, EndRemove
  <2>5. CASE EndLogout(h)
    BY <2>5, LogoutFacts DEF EndLogout
  <2>6. CASE EndInvite(h) \/ EndCancel(h)
    BY <2>6 DEF EndInvite, EndCancel
  <2> QED BY <1>8, <2>2, <2>3, <2>4, <2>5, <2>6 DEF Serve
<1> QED BY <1>1, <1>3, <1>4, <1>5, <1>6, <1>7, <1>8 DEF Next
-----------------------------------------------------------------------------
(* Tokens.  A token is issued once; a refresh under way retires the token  *)
(* it was sent, which no other device holds.                               *)

TokensKnown ==
    /\ \A d \in DOMAIN device : device[d].token <= tokens
    /\ \A r \in retired : r.hash <= tokens
    /\ \A h \in Handler : req[h].op = "refresh" =>
         req[h].hash <= tokens /\ Holders(req[h].hash) \subseteq {req[h].id}

TokensInv == AccessTypeOK /\ TokensKnown /\ TokensIdentify

(* The token of a device is the one it had, or x has got the next one.     *)
Issues(x) ==
    /\ tokens' = tokens \/ tokens' = tokens + 1
    /\ \A d \in DOMAIN device' :
         \/ d \in DOMAIN device /\ device'[d].token = device[d].token
         \/ d = x /\ tokens' = tokens + 1 /\ device'[d].token = tokens + 1

(* What a step may do to the retired tokens and the refreshes under way.   *)
RetiresUnheld ==
    \A r \in retired' : r \in retired \/ (r.hash <= tokens /\ Holders(r.hash)' = {})

RefreshesKnown ==
    \A h \in Handler : \/ req'[h] = req[h]
                       \/ req'[h].op # "refresh"
                       \/ /\ req'[h].hash <= tokens
                          /\ Holders(req'[h].hash) \subseteq {req'[h].id}

(* A token known before the step has no holder but those it had.           *)
LEMMA KnownTokenKept ==
    ASSUME AccessTypeOK, NEW STATE x, Issues(x), NEW t \in Nat, t <= tokens
    PROVE  {d \in DOMAIN device' : device'[d].token = t} \subseteq Holders(t)
<1> SUFFICES ASSUME NEW d \in DOMAIN device', device'[d].token = t
             PROVE  d \in Holders(t)
  OBVIOUS
<1>1. tokens \in Nat /\ t # tokens + 1
  BY DEF AccessTypeOK
<1>2. d \in DOMAIN device /\ device'[d].token = device[d].token
  BY <1>1 DEF Issues
<1> QED BY <1>2 DEF Holders

LEMMA TokensStay ==
    ASSUME TokensInv, AccessTypeOK', NEW STATE x, Issues(x), RetiresUnheld,
           RefreshesKnown
    PROVE  TokensInv'
<1>1. /\ AccessTypeOK /\ tokens \in Nat /\ tokens' \in Nat /\ tokens <= tokens'
      /\ \A d \in DOMAIN device : device[d].token \in Nat /\ device[d].token <= tokens
      /\ \A r \in retired : r.hash \in Nat /\ r.hash <= tokens
      /\ \A r \in retired' : r.hash \in Nat
  BY DEF TokensInv, TokensKnown, AccessTypeOK, DeviceRow, Issues
<1>2. \A d \in DOMAIN device' : device'[d].token <= tokens'
  BY <1>1 DEF Issues
<1>3. \A r \in retired' : r.hash <= tokens'
  BY <1>1 DEF RetiresUnheld
<1>4. ASSUME NEW t \in Nat, t <= tokens, NEW y, Holders(t) \subseteq {y}
      PROVE  {d \in DOMAIN device' : device'[d].token = t} \subseteq {y}
  BY <1>1, <1>4, KnownTokenKept
<1>5. ASSUME NEW h \in Handler, req'[h].op = "refresh"
      PROVE  /\ req'[h].hash <= tokens'
             /\ {d \in DOMAIN device' : device'[d].token = req'[h].hash}
                   \subseteq {req'[h].id}
  <2>1. req'[h].hash \in Nat
    <3>1. req'[h] \in Request
      BY DEF AccessTypeOK
    <3> QED BY <1>5, <3>1, RequestFacts
  <2>2. req'[h].hash <= tokens /\ Holders(req'[h].hash) \subseteq {req'[h].id}
    BY <1>5 DEF RefreshesKnown, TokensInv, TokensKnown
  <2> QED BY <1>1, <1>4, <2>1, <2>2
<1>6. TokensKnown'
  BY <1>2, <1>3, <1>5 DEF TokensKnown, Holders
<1>7. ASSUME NEW d \in DOMAIN device', NEW e \in DOMAIN device',
             device'[d].token = device'[e].token
      PROVE  d = e
  <2>1. \A y \in DOMAIN device : device[y].token # tokens + 1
    BY <1>1
  <2> QED BY <1>1, <1>7, <2>1 DEF Issues, TokensInv, TokensIdentify
<1>8. ASSUME NEW r \in retired'
      PROVE  {d \in DOMAIN device' : device'[d].token = r.hash} = {}
  <2>1. CASE r \in retired
    BY <1>1, <2>1, KnownTokenKept DEF TokensInv, TokensIdentify
  <2>2. CASE r \notin retired
    BY <2>2 DEF RetiresUnheld, Holders
  <2> QED BY <2>1, <2>2
<1>9. TokensIdentify'
  BY <1>7, <1>8 DEF TokensIdentify, Holders
<1> QED BY <1>6, <1>9 DEF TokensInv

(* A device gets a token: no other token changes.                          *)
LEMMA CreateIssues ==
    ASSUME NEW STATE d, NEW STATE u, NEW STATE rows, CreateDevice(d, u, rows),
           \A x \in DOMAIN device : rows[x].token = device[x].token
    PROVE  Issues(d)
<1>1. /\ DOMAIN device' = DOMAIN device \cup {d} /\ d \notin DOMAIN device
      /\ device'[d].token = tokens + 1 /\ tokens' = tokens + 1
      /\ \A x \in DOMAIN device : device'[x] = rows[x]
  BY DEF CreateDevice
<1> QED BY <1>1 DEF Issues

LEMMA RehashIssues ==
    ASSUME AccessTypeOK, NEW STATE d, UpdateDeviceRefreshHash(d)
    PROVE  /\ Issues(d)
           /\ \A x \in DOMAIN device' : x = d => device'[x].token = tokens + 1
<1>1. /\ device' = [device EXCEPT ![d].token = tokens + 1] /\ tokens' = tokens + 1
      /\ \A x \in DOMAIN device : device[x] \in DeviceRow
  BY DEF UpdateDeviceRefreshHash, AccessTypeOK
<1>2. ASSUME NEW x \in DOMAIN device
      PROVE  IF x = d THEN device'[x].token = tokens + 1
                      ELSE device'[x].token = device[x].token
  BY <1>1 DEF DeviceRow
<1> QED BY <1>1, <1>2 DEF Issues

LEMMA RevokingKeepsTokens ==
    ASSUME AccessTypeOK, NEW u
    PROVE  \A d \in DOMAIN device : AllRevoked(u)[d].token = device[d].token
<1>1. \A d \in DOMAIN device : device[d] \in DeviceRow
  BY DEF AccessTypeOK
<1> QED BY <1>1 DEF AllRevoked, DeviceRow

(* A refresh begins with the token of a device, which only this one holds. *)
LEMMA ArriveKnows ==
    ASSUME TokensInv, NEW h \in Handler, Arrive(h)
    PROVE  RefreshesKnown
<1>1. req \in [Handler -> Request] /\ tokens \in Nat /\ DOMAIN device \subseteq Device
  BY DEF TokensInv, AccessTypeOK
<1>2. ASSUME NEW r, Begin(h, r),
             r.op = "refresh" => r.hash <= tokens /\ Holders(r.hash) \subseteq {r.id}
      PROVE  RefreshesKnown
  <2>1. \A g \in Handler : req'[g] = IF g = h THEN r ELSE req[g]
    BY <1>1, <1>2 DEF Begin
  <2> QED BY <1>2, <2>1 DEF RefreshesKnown
<1>3. ASSUME NEW r, Begin(h, r), r.op # "refresh" PROVE RefreshesKnown
  BY <1>2, <1>3
<1>4. ASSUME NEW t \in 1 .. tokens, BeginRefresh(h, t) PROVE RefreshesKnown
  <2>1. PICK d \in Holders(t) \cap ActiveDevices :
          Begin(h, [op |-> "refresh", id |-> d, user |-> device[d].user, hash |-> t])
    BY <1>4 DEF BeginRefresh
  <2>2. Holders(t) \subseteq {d} /\ t <= tokens
    BY <1>1, <2>1 DEF Holders, TokensInv, TokensIdentify
  <2> QED BY <1>2, <2>1, <2>2
<1>5. ASSUME NEW t \in 1 .. tokens, BeginReuse(h, t) \/ BeginLogout(h, t)
      PROVE  RefreshesKnown
  BY <1>3, <1>5 DEF BeginReuse, BeginLogout
<1>6. ASSUME NEW u \in User, NEW d \in Device, BeginLogin(h, u, d) PROVE RefreshesKnown
  BY <1>3, <1>6 DEF BeginLogin
<1>7. ASSUME NEW c \in Invite, BeginInvite(h, c) \/ BeginCancel(h, c)
      PROVE  RefreshesKnown
  BY <1>3, <1>7 DEF BeginInvite, BeginCancel
<1>8. ASSUME NEW u \in User, BeginRemove(h, u) PROVE RefreshesKnown
  BY <1>3, <1>8 DEF BeginRemove
<1> QED BY <1>4, <1>5, <1>6, <1>7, <1>8 DEF Arrive

LEMMA StepTokens == TokensInv /\ [Next]_vars => TokensInv'
<1> SUFFICES ASSUME TokensInv, [Next]_vars PROVE TokensInv'
  OBVIOUS
<1>1. AccessTypeOK /\ AccessTypeOK'
  BY StepTypes DEF TokensInv
<1>2. ASSUME retired' = retired PROVE RetiresUnheld
  BY <1>2 DEF RetiresUnheld
<1>3. ASSUME RequestsKept PROVE RefreshesKnown
  BY <1>3 DEF RequestsKept, RefreshesKnown, Idle
<1>4. ASSUME UNCHANGED <<device, tokens, retired>>, RefreshesKnown PROVE TokensInv'
  <2>1. Issues(Idle)
    BY <1>4 DEF Issues
  <2> QED BY <1>1, <1>2, <1>4, <2>1, TokensStay
<1>5. CASE UNCHANGED vars
  BY <1>3, <1>4, <1>5 DEF vars, RequestsKept
<1>6. ASSUME NEW u \in User, NEW d \in Device, Bootstrap(u, d) \/ RecoveryRedeem(u, d)
      PROVE  TokensInv'
  <2>1. Issues(d)
    BY <1>1, <1>6, CreateIssues, RevokingKeepsTokens DEF Bootstrap, RecoveryRedeem
  <2>2. RequestsKept /\ retired' = retired
    BY <1>6 DEF Bootstrap, RecoveryRedeem, RequestsKept
  <2> QED BY <1>1, <1>2, <1>3, <2>1, <2>2, TokensStay
<1>7. ASSUME NEW c \in Invite, NEW u \in User, NEW d \in Device, RedeemInvite(c, u, d)
      PROVE  TokensInv'
  <2>1. Issues(d)
    BY <1>7, CreateIssues DEF RedeemInvite
  <2>2. RequestsKept /\ retired' = retired
    BY <1>7 DEF RedeemInvite, RequestsKept
  <2> QED BY <1>1, <1>2, <1>3, <2>1, <2>2, TokensStay
<1>8. ASSUME NEW c \in Invite, Expire(c) PROVE TokensInv'
  BY <1>3, <1>4, <1>8 DEF Expire, RequestsKept
<1>9. ASSUME NEW h \in Handler, Arrive(h) PROVE TokensInv'
  BY <1>4, <1>9, ArriveReads, ArriveKnows
<1>10. ASSUME NEW h \in Handler, GiveUp(h) PROVE TokensInv'
  BY <1>1, <1>3, <1>4, <1>10, EndKeepsRequests DEF GiveUp
<1>11. ASSUME NEW h \in Handler, Serve(h) PROVE TokensInv'
  <2>1. RefreshesKnown
    BY <1>1, <1>3, <1>11, ServeEnds, EndKeepsRequests
  <2>2. ASSUME UNCHANGED <<tokens, retired>>, DOMAIN device' = DOMAIN device,
               \A d \in DOMAIN device : device'[d].token = device[d].token
        PROVE  TokensInv'
    <3>1. Issues(Idle)
      BY <2>2 DEF Issues
    <3> QED BY <1>1, <1>2, <2>1, <2>2, <3>1, TokensStay
  <2>3. CASE EndLogin(h)
    <3>1. CASE UpdateDeviceRefreshHash(req[h].id)
      BY <1>1, <1>2, <2>1, <2>3, <3>1, RehashIssues, TokensStay DEF EndLogin
    <3>2. CASE CreateDevice(req[h].id, req[h].user, device)
      BY <1>1, <1>2, <2>1, <2>3, <3>2, CreateIssues, TokensStay DEF EndLogin
    <3> QED BY <2>2, <2>3, <3>1, <3>2 DEF EndLogin
  <2>4. CASE EndRefresh(h)
    <3>1. /\ Issues(req[h].id)
          /\ \A x \in DOMAIN device' : x = req[h].id => device'[x].token = tokens + 1
      BY <1>1, <2>4, RehashIssues DEF EndRefresh
    <3>2. /\ req[h].op = "refresh" /\ req[h].hash \in Nat /\ req[h].hash <= tokens
          /\ Holders(req[h].hash) \subseteq {req[h].id}
      <4>1. req[h] \in Request /\ req[h].op = "refresh"
        BY <1>1, <2>4 DEF EndRefresh, End, AccessTypeOK
      <4> QED BY <4>1, RequestFacts DEF TokensInv, TokensKnown
    <3>3. {x \in DOMAIN device' : device'[x].token = req[h].hash} = {}
      <4>1. {x \in DOMAIN device' : device'[x].token = req[h].hash}
              \subseteq Holders(req[h].hash)
        BY <1>1, <3>1, <3>2, KnownTokenKept
      <4>2. tokens \in Nat
        BY <1>1 DEF AccessTypeOK
      <4> QED BY <3>1, <3>2, <4>1, <4>2
    <3>4. RetiresUnheld
      BY <2>4, <3>2, <3>3 DEF RetiresUnheld, EndRefresh, Retire, Holders
    <3> QED BY <1>1, <2>1, <3>1, <3>4, TokensStay
  <2>5. CASE EndReuse(h) \/ EndRemove(h)
    <3>1. /\ DOMAIN AllRevoked(req[h].user) = DOMAIN device
          /\ \A d \in DOMAIN device : AllRevoked(req[h].user)[d].token = device[d].token
      BY <1>1, RevokingKeepsTokens DEF AllRevoked
    <3>2. device' = AllRevoked(req[h].user) \/ device' = device
      BY <2>5 DEF EndReuse, EndRemove
    <3>3. UNCHANGED <<tokens, retired>>
      BY <2>5 DEF EndReuse, EndRemove
    <3> QED BY <2>2, <3>1, <3>2, <3>3
  <2>6. CASE EndLogout(h)
    <3>1. \A d \in DOMAIN device : device[d] \in DeviceRow
      BY <1>1 DEF AccessTypeOK
    <3>2. /\ device' = [device EXCEPT ![req[h].id].revoked = TRUE]
          /\ UNCHANGED <<tokens, retired>>
      BY <2>6 DEF EndLogout
    <3>3. \A d \in DOMAIN device : device'[d].token = device[d].token
      BY <3>1, <3>2 DEF DeviceRow
    <3> QED BY <2>2, <3>2, <3>3
  <2>7. CASE EndInvite(h) \/ EndCancel(h)
    BY <2>2, <2>7 DEF EndInvite, EndCancel
  <2> QED BY <1>11, <2>3, <2>4, <2>5, <2>6, <2>7 DEF Serve
<1> QED BY <1>5, <1>6, <1>7, <1>8, <1>9, <1>10, <1>11 DEF Next
-----------------------------------------------------------------------------
(* The results.                                                            *)

LEMMA AccessInvHolds == AccessSpec => []AccessInv
<1>1. Init => AccessInv
  BY InitInv
<1>2. AccessInv /\ [Next]_vars => AccessInv'
  BY StepInv
<1> QED BY <1>1, <1>2, PTL DEF AccessSpec

(* Types: the tables stay tables, and a request carries what its handler   *)
(* reads.                                                                  *)
THEOREM AccessTypes == AccessSpec => []AccessTypeOK
<1>1. AccessInv => AccessTypeOK
  BY DEF AccessInv
<1> QED BY <1>1, AccessInvHolds, PTL

(* An invite that is handed out has a place in the family: members and     *)
(* open invites never exceed max_users together, whatever requests of      *)
(* membership/handlers.go interleave.                                      *)
THEOREM InvitesHaveAPlace == AccessSpec => []OpenInvitesFit
<1>1. AccessInv => OpenInvitesFit
  BY DEF AccessInv
<1> QED BY <1>1, AccessInvHolds, PTL

(* RemoveMember never takes the last active member, whoever removes whom   *)
(* at the same time.                                                       *)
THEOREM LastMemberIsSafe == AccessSpec => []LastMemberStays
<1>1. AccessInv => LastMemberStays
  BY DEF AccessInv
<1> QED BY <1>1, AccessInvHolds, PTL

(* No login or refresh that was under way brings a revoked device back.    *)
THEOREM RevocationIsFinal == AccessSpec => RevokedDevicesStay
<1>1. AccessInv /\ [Next]_vars =>
        [\A d \in DOMAIN device :
           device[d].revoked => d \in DOMAIN device' /\ device'[d].revoked]_vars
  BY StepRevoked DEF AccessInv
<1> QED BY <1>1, AccessInvHolds, PTL DEF AccessSpec, RevokedDevicesStay

(* Login, redemption and recovery together: at most one device more than   *)
(* the limit for each account but one.                                     *)
THEOREM DeviceLimit == AccessSpec => []DevicesBounded
<1>1. AccessInv => DevicesBounded
  <2> SUFFICES ASSUME AccessInv, Accounts # {}
               PROVE  Cardinality(ActiveDevices) <= MaxDevices + Cardinality(Accounts) - 1
    BY DEF DevicesBounded
  <2>1. Accounts \in SUBSET User
    BY DEF Accounts
  <2>2. DevicesOf(Accounts) = ActiveDevices
    BY DEF DevicesOf, ActiveDevices, AccessInv, OwnersExist
  <2> QED BY <2>1, <2>2 DEF AccessInv, GroupsBounded
<1> QED BY <1>1, AccessInvHolds, PTL

(* A refresh token opens the session of one device, and handlePossibleReuse*)
(* is never reached with a token that a device still holds: a token is     *)
(* retired only when its device has the next one, however refreshes and    *)
(* logins cross.                                                           *)
THEOREM TokensAreUnique == AccessSpec => []TokensIdentify
<1>1. Init => TokensInv
  <2>1. Init => DOMAIN device = {} /\ \A h \in Handler : req[h].op # "refresh"
    BY DEF Init, Idle
  <2> QED BY <2>1, InitTypes DEF Init, TokensInv, TokensKnown, TokensIdentify
<1>2. TokensInv /\ [Next]_vars => TokensInv'
  BY StepTokens
<1>3. TokensInv => TokensIdentify
  BY DEF TokensInv
<1> QED BY <1>1, <1>2, <1>3, PTL DEF AccessSpec
=============================================================================
