------------------------ MODULE ClientSessionProofs ------------------------
(***************************************************************************)
(* A device's session around the server, for any numbers of users,         *)
(* devices, tokens, calls and requests under way.                          *)
(***************************************************************************)
EXTENDS ClientSession, FamilyAccessProofs

CallRow ==
    [at : {"none", "ready", "sent", "served", "answer", "wait",
           "keep", "keepRefresh", "drop", "dropRefresh"},
     token : 0 .. tokens, pair : 0 .. tokens, retry : BOOLEAN, ran : 0 .. 1]

FlightRow ==
    [at : {"none", "read", "sent", "served", "answer"},
     token : 0 .. tokens, by : SUBSET Handler]

OpRow ==
    [at : {"none", "login", "keep", "keepRefresh", "logout", "clear", "clearRefresh"},
     call : SUBSET Call, pair : 0 .. tokens, by : SUBSET Handler]

HolderInv == holder \in Seq(Device) /\ Len(holder) = tokens

StoreInv ==
    /\ expired \in 0 .. tokens
    /\ store \in [access : 0 .. tokens, refresh : 0 .. tokens]

FlightInv == flight \in FlightRow /\ (flight.at = "sent" => flight.token # 0)

(* A call that may be sent (again) was not executed.                       *)
Unexecuted == {"ready", "sent", "served", "wait", "keep", "keepRefresh"}

CallsInv ==
    /\ call \in [Call -> CallRow]
    /\ \A c \in Call : call[c].at \in Unexecuted => call[c].ran = 0

(* The call of a logout is under way only with a token to sign out.        *)
OpInv ==
    /\ op \in OpRow
    /\ auth \in {"out", "ready", "unlock", "leaving"}
    /\ past \in Past
    /\ \A c \in op.call : op.at = "logout" /\ (call[c] # NoCall => op.pair # 0)

ClientInv ==
    AccessTypeOK /\ HolderInv /\ StoreInv /\ FlightInv /\ CallsInv /\ OpInv

-----------------------------------------------------------------------------
(* The server's part of a step.                                            *)

(* A step of the server issues at most one pair.                           *)
LEMMA TokensGrow ==
    ASSUME AccessTypeOK, [Next]_vars
    PROVE  tokens' = tokens \/ tokens' = tokens + 1
<1>1. ASSUME NEW h \in Handler, Arrive(h) \/ Serve(h) \/ GiveUp(h)
      PROVE  tokens' = tokens \/ tokens' = tokens + 1
  BY <1>1 DEF Arrive, BeginLogin, BeginRefresh, BeginReuse, BeginLogout, BeginInvite,
              BeginCancel, BeginRemove, Serve, EndLogin, EndRefresh, EndReuse, EndLogout,
              EndInvite, EndCancel, EndRemove, GiveUp, CreateDevice,
              UpdateDeviceRefreshHash
<1>2. CASE \/ \E u \in User, d \in Device : Bootstrap(u, d) \/ RecoveryRedeem(u, d)
           \/ \E c \in Invite, u \in User, d \in Device : RedeemInvite(c, u, d)
           \/ \E c \in Invite : Expire(c)
           \/ UNCHANGED vars
  BY <1>2 DEF Bootstrap, RecoveryRedeem, RedeemInvite, Expire, CreateDevice, vars
<1> QED BY <1>1, <1>2 DEF Next

(* The session's steps are steps of the server, or leave it alone.         *)
LEMMA SessionStepIsServerStep ==
    ASSUME ClientInv, [SessionNext]_allVars
    PROVE  [Next]_vars
<1>1. ASSUME NEW h \in Handler, NEW t \in 1 .. tokens,
             BeginRefresh(h, t) \/ BeginReuse(h, t) \/ BeginLogout(h, t)
      PROVE  Next
  BY <1>1 DEF Next, Arrive
<1>2. ASSUME NEW c \in Call, NEW h \in Handler, LogoutArrives(c, h)
      PROVE  [Next]_vars
  <2>1. BeginLogout(h, op.pair) \/ UNCHANGED vars
    BY <1>2 DEF LogoutArrives
  <2>2. op.pair \in 1 .. tokens
    <3>1. c \in op.call /\ call[c] # NoCall
      BY <1>2 DEF LogoutArrives, NoCall
    <3>2. op.pair \in 0 .. tokens /\ op.pair # 0
      BY <3>1 DEF ClientInv, OpInv, OpRow
    <3> QED BY <3>2
  <2> QED BY <1>1, <2>1, <2>2
<1>3. ASSUME NEW h \in Handler, FlightArrives(h)
      PROVE  [Next]_vars
  <2>1. flight.token \in 1 .. tokens
    <3>1. flight.token \in 0 .. tokens /\ flight.token # 0
      BY <1>3 DEF FlightArrives, ClientInv, FlightInv, FlightRow
    <3> QED BY <3>1
  <2> QED BY <1>1, <1>3, <2>1 DEF FlightArrives
<1>4. ASSUME NEW h \in Handler,
             \/ EndLogin(h) \/ EndRefresh(h) \/ EndReuse(h) \/ EndLogout(h) \/ GiveUp(h)
      PROVE  Next
  BY <1>4 DEF Next, Serve
<1>5. ASSUME NEW h \in Handler, \/ FlightServed(h) \/ FlightReused(h) \/ GoesOn(h)
                                \/ LoginServed(h) \/ \E c \in Call : LogoutServed(c, h)
      PROVE  Next
  BY <1>4, <1>5 DEF FlightServed, FlightReused, GoesOn, LoginServed, LogoutServed
<1>6. ASSUME NEW h \in Handler, NEW u \in User, NEW d \in Device, StartLogin(h, u, d)
      PROVE  Next
  BY <1>6 DEF StartLogin, Next, Arrive
<1>7. ASSUME NEW u \in User, NEW d \in Device, SignUp(u, d) \/ RecoverElsewhere(u, d)
      PROVE  Next
  BY <1>7 DEF SignUp, RecoverElsewhere, Next
<1>8. ASSUME NEW c \in Call,
             \/ StartCall(c) \/ StartLogout(c) \/ Send(c) \/ Execute(c) \/ Answered(c)
             \/ Fails(c) \/ Refused(c) \/ Unauthorized(c) \/ RetryUnauthorized(c)
             \/ KeepAccess(c) \/ KeepRefresh(c)
             \/ DropAccess(c) \/ DropRefresh(c)
      PROVE  UNCHANGED vars
  BY <1>8 DEF StartCall, StartLogout, Send, Execute, Answered, Fails, Refused, Unauthorized, RetryUnauthorized,
              KeepAccess, KeepRefresh, DropAccess, DropRefresh
<1>9. CASE \/ FlightRead \/ FlightRefused \/ FlightAnswered \/ FlightFails
           \/ CompleteSession \/ Wipe \/ ClearTokens \/ LoginFails
           \/ Unlock \/ Expires \/ Kill \/ UNCHANGED allVars
  BY <1>9 DEF FlightRead, FlightRefused, FlightAnswered, FlightFails, CompleteSession,
              Wipe, ClearTokens, LoginFails, Unlock, Expires, Kill, allVars
<1> QED BY <1>2, <1>3, <1>5, <1>6, <1>7, <1>8, <1>9
        DEF SessionNext, CallGoesOn, FlightGoesOn, OpGoesOn

(* The pairs that are issued have their holders.                           *)
LEMMA HoldersKept ==
    ASSUME ClientInv, [SessionNext]_allVars
    PROVE  HolderInv' /\ tokens \in Nat /\ tokens' \in Nat /\ tokens <= tokens'
<1>1. /\ tokens \in Nat /\ (tokens' = tokens \/ tokens' = tokens + 1)
      /\ holder \in Seq(Device) /\ Len(holder) = tokens
      /\ req \in [Handler -> Request]
  BY SessionStepIsServerStep, TokensGrow DEF ClientInv, HolderInv, AccessTypeOK
<1>2. ASSUME NEW d \in Device, IssuedTo(d)
      PROVE  HolderInv'
  BY <1>1, <1>2 DEF IssuedTo, HolderInv
<1>3. CASE holder' = holder /\ tokens' = tokens
  BY <1>1, <1>3 DEF HolderInv
<1>4. ASSUME NEW h \in Handler, \/ FlightServed(h) \/ LoginServed(h)
                                \/ (EndLogin(h) \/ EndRefresh(h)) /\ IssuedTo(req[h].id)
      PROVE  HolderInv'
  <2>1. req[h].op \in {"login", "refresh"} /\ IssuedTo(req[h].id)
    BY <1>4 DEF FlightServed, LoginServed, EndLogin, EndRefresh, End
  <2>2. req[h].id \in Device
    BY <1>1, <2>1, RequestFacts
  <2> QED BY <1>2, <2>1, <2>2
<1>5. ASSUME NEW h \in Handler, GoesOn(h)
      PROVE  HolderInv'
  <2>1. CASE (EndLogin(h) \/ EndRefresh(h)) /\ IssuedTo(req[h].id)
    BY <1>4, <2>1
  <2>2. CASE (EndReuse(h) \/ EndLogout(h) \/ GiveUp(h)) /\ UNCHANGED holder
    BY <1>3, <2>2 DEF EndReuse, EndLogout, GiveUp
  <2> QED BY <1>5, <2>1, <2>2 DEF GoesOn
<1>6. ASSUME NEW u \in User, NEW d \in Device, SignUp(u, d) \/ RecoverElsewhere(u, d)
      PROVE  HolderInv'
  BY <1>2, <1>6 DEF SignUp, RecoverElsewhere
<1>7. ASSUME NEW h \in Handler,
             \/ FlightArrives(h) \/ FlightReused(h)
             \/ \E u \in User, d \in Device : StartLogin(h, u, d)
             \/ \E c \in Call : LogoutArrives(c, h) \/ LogoutServed(c, h)
      PROVE  holder' = holder /\ tokens' = tokens
  BY <1>7 DEF FlightArrives, FlightReused, StartLogin, LogoutArrives, LogoutServed,
              BeginLogin, BeginRefresh, BeginReuse, BeginLogout, EndReuse, EndLogout, vars
<1>8. ASSUME NEW c \in Call,
             \/ StartCall(c) \/ StartLogout(c) \/ Send(c) \/ Execute(c) \/ Answered(c)
             \/ Fails(c) \/ Refused(c) \/ Unauthorized(c) \/ RetryUnauthorized(c)
             \/ KeepAccess(c) \/ KeepRefresh(c)
             \/ DropAccess(c) \/ DropRefresh(c)
      PROVE  holder' = holder /\ tokens' = tokens
  BY <1>8 DEF StartCall, StartLogout, Send, Execute, Answered, Fails, Refused, Unauthorized, RetryUnauthorized,
              KeepAccess, KeepRefresh, DropAccess, DropRefresh, vars
<1>9. CASE \/ FlightRead \/ FlightRefused \/ FlightAnswered \/ FlightFails
           \/ CompleteSession \/ Wipe \/ ClearTokens \/ LoginFails
           \/ Unlock \/ Expires \/ Kill \/ UNCHANGED allVars
  BY <1>3, <1>9 DEF FlightRead, FlightRefused, FlightAnswered, FlightFails,
              CompleteSession, Wipe, ClearTokens, LoginFails, Unlock, Expires, Kill,
              allVars, vars, clientVars
<1>10. HolderInv'
  BY <1>3, <1>4, <1>5, <1>6, <1>7, <1>8, <1>9
     DEF SessionNext, CallGoesOn, FlightGoesOn, OpGoesOn
<1> QED BY <1>1, <1>10

(* The rows that hold now hold later.                                      *)
LEMMA RowsGrow ==
    ASSUME ClientInv, [SessionNext]_allVars
    PROVE  /\ tokens \in Nat /\ tokens' \in Nat
           /\ \A n : n \in 0 .. tokens => n \in 0 .. tokens'
           /\ \A n : n \in 0 .. tokens => n \in Nat
           /\ tokens' \in 0 .. tokens'
  BY HoldersKept

(* The stored tokens are some that were issued.                            *)
LEMMA StoreKept ==
    ASSUME ClientInv, [SessionNext]_allVars
    PROVE  StoreInv'
<1>1. \A n : n \in 0 .. tokens => n \in 0 .. tokens'
  BY RowsGrow
<1>2. tokens \in 0 .. tokens' /\ 0 \in 0 .. tokens'
  BY HoldersKept
<1>3. /\ expired \in 0 .. tokens /\ store \in [access : 0 .. tokens, refresh : 0 .. tokens]
      /\ op.pair \in 0 .. tokens
      /\ \A c \in Call : call[c].pair \in 0 .. tokens
  BY DEF ClientInv, StoreInv, OpInv, OpRow, CallsInv, CallRow
<1>4. ASSUME UNCHANGED <<expired, store>>
      PROVE  StoreInv'
  BY <1>1, <1>3, <1>4 DEF StoreInv
<1>5. ASSUME UNCHANGED expired, NEW n \in 0 .. tokens',
             store' = [store EXCEPT !.access = n] \/ store' = [store EXCEPT !.refresh = n]
      PROVE  StoreInv'
  BY <1>1, <1>3, <1>5 DEF StoreInv
<1>6. ASSUME NEW c \in Call, \/ KeepAccess(c) \/ KeepRefresh(c)
                             \/ DropAccess(c) \/ DropRefresh(c)
      PROVE  StoreInv'
  <2>1. call[c].pair \in 0 .. tokens' /\ 0 \in 0 .. tokens'
    BY <1>1, <1>2, <1>3
  <2> QED BY <1>5, <1>6, <2>1 DEF KeepAccess, KeepRefresh, DropAccess, DropRefresh
<1>7. CASE CompleteSession \/ ClearTokens
  <2>1. op.pair \in 0 .. tokens' /\ 0 \in 0 .. tokens'
    BY <1>1, <1>2, <1>3
  <2> QED BY <1>5, <1>7, <2>1 DEF CompleteSession, ClearTokens
<1>8. CASE Expires
  BY <1>1, <1>2, <1>3, <1>8 DEF Expires, StoreInv
<1>9. ASSUME NEW c \in Call,
             \/ StartCall(c) \/ StartLogout(c) \/ Send(c) \/ Execute(c) \/ Answered(c)
             \/ Fails(c) \/ Refused(c) \/ Unauthorized(c) \/ RetryUnauthorized(c)
             \/ \E h \in Handler : LogoutArrives(c, h) \/ LogoutServed(c, h)
      PROVE  StoreInv'
  BY <1>4, <1>9 DEF StartCall, StartLogout, Send, Execute, Answered, Fails, Refused, Unauthorized, RetryUnauthorized,
                    LogoutArrives, LogoutServed
<1>10. ASSUME NEW h \in Handler,
             \/ FlightArrives(h) \/ FlightServed(h) \/ FlightReused(h) \/ LoginServed(h)
             \/ GoesOn(h) \/ \E u \in User, d \in Device : StartLogin(h, u, d)
       PROVE  StoreInv'
  BY <1>4, <1>10 DEF FlightArrives, FlightServed, FlightReused, LoginServed, GoesOn,
                     StartLogin
<1>11. ASSUME NEW u \in User, NEW d \in Device, SignUp(u, d) \/ RecoverElsewhere(u, d)
       PROVE  StoreInv'
  BY <1>4, <1>11 DEF SignUp, RecoverElsewhere
<1>12. CASE \/ FlightRead \/ FlightRefused \/ FlightAnswered \/ FlightFails
            \/ Wipe \/ LoginFails \/ Unlock \/ Kill \/ UNCHANGED allVars
  BY <1>4, <1>12 DEF FlightRead, FlightRefused, FlightAnswered, FlightFails, Wipe,
                     LoginFails, Unlock, Kill, allVars, clientVars
<1> QED BY <1>6, <1>7, <1>8, <1>9, <1>10, <1>11, <1>12
        DEF SessionNext, CallGoesOn, FlightGoesOn, OpGoesOn

(* The refresh under way has a token to present.                           *)
LEMMA FlightKept ==
    ASSUME ClientInv, [SessionNext]_allVars
    PROVE  FlightInv'
<1>1. (\A n : n \in 0 .. tokens => n \in 0 .. tokens') /\ tokens' \in 0 .. tokens'
  BY RowsGrow
<1>2. 0 \in 0 .. tokens'
  BY HoldersKept
<1>3. flight \in FlightRow /\ (flight.at = "sent" => flight.token # 0)
      /\ store.refresh \in 0 .. tokens
  BY DEF ClientInv, FlightInv, StoreInv
<1>4. ASSUME UNCHANGED flight
      PROVE  FlightInv'
  BY <1>1, <1>3, <1>4 DEF FlightInv, FlightRow
<1>5. ASSUME flight' = NoFlight \/ flight' = SharedFlight
      PROVE  FlightInv'
  <2>1. CASE flight' = NoFlight
    BY <1>2, <2>1 DEF FlightInv, FlightRow, NoFlight
  <2>2. CASE flight' = [NoFlight EXCEPT !.at = "read"]
    BY <1>2, <2>2 DEF FlightInv, FlightRow, NoFlight
  <2> QED BY <1>4, <1>5, <2>1, <2>2 DEF SharedFlight
<1>6. CASE FlightRead
  <2>1. CASE flight' = NoFlight
    BY <1>5, <2>1
  <2>2. CASE store.refresh # 0 /\ flight' = [flight EXCEPT !.at = "sent",
                                                           !.token = store.refresh]
    BY <1>1, <1>3, <2>2 DEF FlightInv, FlightRow
  <2> QED BY <1>6, <2>1, <2>2 DEF FlightRead, Complete
<1>7. ASSUME NEW h \in Handler, FlightArrives(h)
      PROVE  FlightInv'
  BY <1>1, <1>3, <1>7 DEF FlightArrives, FlightInv, FlightRow
<1>8. ASSUME NEW h \in Handler, FlightServed(h)
      PROVE  FlightInv'
  BY <1>1, <1>3, <1>8 DEF FlightServed, FlightInv, FlightRow
<1>9. ASSUME NEW h \in Handler, FlightReused(h)
      PROVE  FlightInv'
  BY <1>5, <1>9 DEF FlightReused, Complete
<1>10. CASE FlightRefused \/ FlightAnswered \/ FlightFails \/ Kill
  BY <1>5, <1>10 DEF FlightRefused, FlightAnswered, FlightFails, Kill, Complete
<1>11. ASSUME NEW c \in Call, Unauthorized(c)
       PROVE  FlightInv'
  BY <1>5, <1>11 DEF Unauthorized
<1>12. ASSUME NEW c \in Call,
             \/ StartCall(c) \/ StartLogout(c) \/ Send(c) \/ Execute(c) \/ Answered(c)
             \/ Fails(c) \/ Refused(c) \/ RetryUnauthorized(c)
             \/ KeepAccess(c) \/ KeepRefresh(c) \/ DropAccess(c) \/ DropRefresh(c)
             \/ \E h \in Handler : LogoutArrives(c, h) \/ LogoutServed(c, h)
       PROVE  FlightInv'
  BY <1>4, <1>12 DEF StartCall, StartLogout, Send, Execute, Answered, Fails, Refused,
                     RetryUnauthorized, KeepAccess, KeepRefresh, DropAccess, DropRefresh,
                     LogoutArrives, LogoutServed
<1>13. ASSUME NEW h \in Handler,
             \/ LoginServed(h) \/ GoesOn(h)
             \/ \E u \in User, d \in Device : StartLogin(h, u, d)
       PROVE  FlightInv'
  BY <1>4, <1>13 DEF LoginServed, GoesOn, StartLogin
<1>14. ASSUME NEW u \in User, NEW d \in Device, SignUp(u, d) \/ RecoverElsewhere(u, d)
       PROVE  FlightInv'
  BY <1>4, <1>14 DEF SignUp, RecoverElsewhere
<1>15. CASE \/ CompleteSession \/ ClearTokens \/ Wipe \/ LoginFails \/ Unlock \/ Expires
            \/ UNCHANGED allVars
  BY <1>4, <1>15 DEF CompleteSession, ClearTokens, Wipe, LoginFails, Unlock, Expires,
                     allVars, clientVars
<1> QED BY <1>6, <1>7, <1>8, <1>9, <1>10, <1>11, <1>12, <1>13, <1>14, <1>15
        DEF SessionNext, CallGoesOn, FlightGoesOn, OpGoesOn

(* One call moves on.                                                      *)
LEMMA OneCallMoves ==
    ASSUME ClientInv, [SessionNext]_allVars,
           NEW c \in Call, call' = [call EXCEPT ![c] = call'[c]],
           call'[c] \in CallRow,
           call'[c].at \in Unexecuted => call'[c].ran = 0
    PROVE  CallsInv'
<1>1. \A n : n \in 0 .. tokens => n \in 0 .. tokens'
  BY RowsGrow
<1>2. /\ call \in [Call -> CallRow]
      /\ \A x \in Call : call[x].at \in Unexecuted => call[x].ran = 0
  BY DEF ClientInv, CallsInv
<1>3. \A r \in CallRow : r \in CallRow'
  BY <1>1 DEF CallRow
<1> HIDE DEF CallRow
<1>4. \A x \in Call : call'[x] = call[x] \/ x = c
  BY <1>2
<1>5. \A x \in Call : call'[x] \in CallRow'
  BY <1>2, <1>3, <1>4
<1>6. call' \in [Call -> CallRow']
  BY <1>2, <1>5
<1>7. \A x \in Call : call'[x].at \in Unexecuted => call'[x].ran = 0
  BY <1>2, <1>4
<1> QED BY <1>6, <1>7 DEF CallsInv, Unexecuted

(* The calls that wait are told.                                           *)
LEMMA WaitingCallsMove ==
    ASSUME ClientInv, [SessionNext]_allVars, NEW pair \in 0 .. tokens,
           Complete("drop", pair) \/ Complete("keep", pair)
    PROVE  CallsInv'
<1>1. \A n : n \in 0 .. tokens => n \in 0 .. tokens'
  BY RowsGrow
<1>2. /\ call \in [Call -> CallRow]
      /\ \A x \in Call : call[x].at \in Unexecuted => call[x].ran = 0
  BY DEF ClientInv, CallsInv
<1>3. PICK at \in {"drop", "keep"} :
        call' = [c \in Call |-> IF call[c].at = "wait"
                                THEN [call[c] EXCEPT !.at = at, !.pair = pair] ELSE call[c]]
  BY DEF Complete
<1>4. \A x \in Call : call[x] \in CallRow'
  BY <1>1, <1>2 DEF CallRow
<1>5. \A x \in Call : [call[x] EXCEPT !.at = at, !.pair = pair] \in CallRow'
  BY <1>1, <1>2 DEF CallRow
<1>6. \A x \in Call : call'[x].at \in Unexecuted => call'[x].ran = 0
  <2> SUFFICES ASSUME NEW x \in Call, call'[x].at \in Unexecuted
               PROVE  call'[x].ran = 0
    OBVIOUS
  <2>1. CASE call[x].at = "wait"
    <3>1. call[x].ran = 0
      BY <1>2, <2>1 DEF Unexecuted
    <3> QED BY <1>2, <1>3, <2>1, <3>1 DEF CallRow
  <2>2. CASE call[x].at # "wait"
    BY <1>2, <1>3, <2>2
  <2> QED BY <2>1, <2>2
<1> HIDE DEF CallRow
<1>7. call' \in [Call -> CallRow']
  BY <1>3, <1>4, <1>5
<1> QED BY <1>6, <1>7 DEF CallsInv, Unexecuted

(* A call that may be sent was not executed.                               *)
LEMMA CallsKept ==
    ASSUME ClientInv, [SessionNext]_allVars
    PROVE  CallsInv'
<1>1. /\ call \in [Call -> CallRow]
      /\ \A x \in Call : call[x].at \in Unexecuted => call[x].ran = 0
      /\ store \in [access : 0 .. tokens, refresh : 0 .. tokens]
      /\ flight.token \in 0 .. tokens
      /\ 0 \in 0 .. tokens
  BY RowsGrow DEF ClientInv, CallsInv, StoreInv, FlightInv, FlightRow
<1>2. \A n : n \in 0 .. tokens => n \in 0 .. tokens'
  BY RowsGrow
<1>3. \A x \in Call : call[x] \in CallRow
  BY <1>1
<1>4. ASSUME UNCHANGED call
      PROVE  CallsInv'
  <2>1. \A x \in Call : call[x] \in CallRow'
    BY <1>1, <1>2 DEF CallRow
  <2> HIDE DEF CallRow
  <2>2. call' \in [Call -> CallRow']
    BY <1>1, <1>4, <2>1
  <2> QED BY <1>1, <1>4, <2>2 DEF CallsInv, Unexecuted
<1>5. ASSUME NEW c \in Call, SetCall(c, NoCall) \/ SetCall(c, [NoCall EXCEPT !.at = "drop"])
      PROVE  CallsInv'
  <2>1. NoCall \in CallRow
    BY <1>1 DEF NoCall, CallRow
  <2>2. [NoCall EXCEPT !.at = "drop"] \in CallRow
    BY <2>1 DEF CallRow
  <2>3. NoCall.ran = 0 /\ [NoCall EXCEPT !.at = "drop"].ran = 0
    BY DEF NoCall
  <2>4. PICK r \in CallRow : r.ran = 0 /\ call' = [call EXCEPT ![c] = r]
    BY <1>5, <2>1, <2>2, <2>3 DEF SetCall
  <2>5. call'[c] = r
    BY <1>1, <2>4
  <2> QED BY <2>4, <2>5, OneCallMoves
<1>6. ASSUME NEW c \in Call, Throw(c)
      PROVE  CallsInv'
  BY <1>5, <1>6 DEF Throw
<1>7. ASSUME NEW c \in Call,
             NEW at \in {"none", "ready", "sent", "served", "answer", "wait",
                         "keep", "keepRefresh", "drop", "dropRefresh"},
             Move(c, at), at \in Unexecuted => call[c].ran = 0
      PROVE  CallsInv'
  <2>1. /\ call' = [call EXCEPT ![c] = call'[c]] /\ call'[c] \in CallRow
        /\ call'[c].at = at /\ call'[c].ran = call[c].ran
    BY <1>1, <1>3, <1>7 DEF Move, SetCall, CallRow
  <2> QED BY <1>7, <2>1, OneCallMoves
<1>8. ASSUME NEW c \in Call, StartCall(c) \/ StartLogout(c)
      PROVE  CallsInv'
  <2>1. call[c].ran = 0
    BY <1>8 DEF StartCall, StartLogout, NoCall
  <2>2. Move(c, "ready") \/ UNCHANGED call
    BY <1>8 DEF StartCall, StartLogout
  <2> QED BY <1>4, <1>7, <2>1, <2>2
<1>9. ASSUME NEW c \in Call, Send(c)
      PROVE  CallsInv'
  <2>1. call[c].ran = 0
    BY <1>1, <1>9 DEF Send, Unexecuted
  <2>2. PICK n \in 0 .. tokens :
          call' = [call EXCEPT ![c] = [call[c] EXCEPT !.at = "sent", !.pair = 0, !.token = n]]
    <3>1. call[c].pair \in 0 .. tokens /\ store.access \in 0 .. tokens
      BY <1>1, <1>3 DEF CallRow
    <3> QED BY <1>9, <3>1 DEF Send, SetCall
  <2>3. call' = [call EXCEPT ![c] = call'[c]] /\ call'[c] \in CallRow /\ call'[c].ran = 0
    <3>1. [call[c] EXCEPT !.at = "sent", !.pair = 0, !.token = n] \in CallRow
      BY <1>1, <1>3 DEF CallRow
    <3>2. [call[c] EXCEPT !.at = "sent", !.pair = 0, !.token = n].ran = 0
      BY <1>3, <2>1 DEF CallRow
    <3> QED BY <1>1, <2>2, <3>1, <3>2
  <2> QED BY <2>3, OneCallMoves
<1>10. ASSUME NEW c \in Call, Execute(c)
       PROVE  CallsInv'
  <2>1. call[c].ran = 0
    BY <1>1, <1>10 DEF Execute, Unexecuted
  <2>2. call' = [call EXCEPT ![c] = [call[c] EXCEPT !.at = "answer", !.token = 0, !.ran = 1]]
    BY <1>10, <2>1 DEF Execute, SetCall
  <2>3. /\ call' = [call EXCEPT ![c] = call'[c]] /\ call'[c] \in CallRow
        /\ call'[c].at = "answer"
    <3>1. [call[c] EXCEPT !.at = "answer", !.token = 0, !.ran = 1] \in CallRow
      <4>1. 1 \in 0 .. 1
        OBVIOUS
      <4> QED BY <1>1, <1>3, <4>1 DEF CallRow
    <3>2. [call[c] EXCEPT !.at = "answer", !.token = 0, !.ran = 1].at = "answer"
      BY <1>3 DEF CallRow
    <3> QED BY <1>1, <2>2, <3>1, <3>2
  <2> QED BY <2>3, OneCallMoves DEF Unexecuted
<1>11. ASSUME NEW c \in Call, \/ Answered(c) \/ DropRefresh(c)
                              \/ Fails(c) \/ Refused(c) \/ RetryUnauthorized(c)
       PROVE  CallsInv'
  BY <1>5, <1>6, <1>11 DEF Answered, Fails, Refused, RetryUnauthorized, DropRefresh
<1>12. ASSUME NEW c \in Call, Unauthorized(c)
       PROVE  CallsInv'
  <2>1. call[c].ran = 0
    BY <1>1, <1>12 DEF Unauthorized, Unexecuted
  <2>2. /\ [call[c] EXCEPT !.at = "wait", !.token = 0] \in CallRow
        /\ [call[c] EXCEPT !.at = "wait", !.token = 0].ran = 0
    BY <1>1, <1>3, <2>1 DEF CallRow
  <2>3. call' = [call EXCEPT ![c] = call'[c]] /\ call'[c] \in CallRow /\ call'[c].ran = 0
    BY <1>1, <1>12, <2>2 DEF Unauthorized, SetCall
  <2> QED BY <2>3, OneCallMoves
<1>13. ASSUME NEW c \in Call, KeepAccess(c)
       PROVE  CallsInv'
  <2>1. call[c].ran = 0 /\ Move(c, "keepRefresh")
    BY <1>1, <1>13 DEF KeepAccess, Unexecuted
  <2> QED BY <1>7, <2>1
<1>14. ASSUME NEW c \in Call, KeepRefresh(c)
       PROVE  CallsInv'
  <2>1. call[c].ran = 0
    BY <1>1, <1>14 DEF KeepRefresh, Unexecuted
  <2>2. call' = [call EXCEPT ![c] = call'[c]] /\ call'[c] \in CallRow /\ call'[c].ran = 0
    <3>1. /\ [call[c] EXCEPT !.at = "ready", !.retry = TRUE] \in CallRow
          /\ [call[c] EXCEPT !.at = "ready", !.retry = TRUE].ran = 0
      BY <1>3, <2>1 DEF CallRow
    <3> QED BY <1>1, <1>14, <3>1 DEF KeepRefresh, SetCall
  <2> QED BY <2>2, OneCallMoves
<1>15. ASSUME NEW c \in Call, DropAccess(c)
       PROVE  CallsInv'
  BY <1>7, <1>15 DEF DropAccess, Unexecuted
<1>16. ASSUME NEW c \in Call, NEW h \in Handler, LogoutArrives(c, h) \/ LogoutServed(c, h)
       PROVE  CallsInv'
  <2>1. call[c].ran = 0
    BY <1>1, <1>16 DEF LogoutArrives, LogoutServed, Unexecuted
  <2>2. Move(c, "served") \/ Move(c, "answer")
    BY <1>16 DEF LogoutArrives, LogoutServed
  <2> QED BY <1>7, <2>1, <2>2
<1>17. ASSUME NEW h \in Handler, FlightReused(h)
       PROVE  CallsInv'
  BY <1>1, <1>17, WaitingCallsMove DEF FlightReused
<1>18. CASE FlightRead \/ FlightRefused \/ FlightAnswered \/ FlightFails
  <2>1. UNCHANGED call \/ Complete("drop", 0) \/ Complete("keep", flight.token)
    BY <1>18 DEF FlightRead, FlightRefused, FlightAnswered, FlightFails
  <2> QED BY <1>1, <1>4, <2>1, WaitingCallsMove
<1>19. CASE Kill
  <2>1. call' = [c \in Call |-> NoCall]
    BY <1>19 DEF Kill
  <2>2. NoCall \in CallRow'
    BY <1>1, <1>2 DEF NoCall, CallRow
  <2> QED BY <2>1, <2>2 DEF CallsInv, Unexecuted, NoCall
<1>20. ASSUME NEW h \in Handler,
             \/ FlightArrives(h) \/ FlightServed(h) \/ LoginServed(h) \/ GoesOn(h)
             \/ \E u \in User, d \in Device : StartLogin(h, u, d)
       PROVE  CallsInv'
  BY <1>4, <1>20 DEF FlightArrives, FlightServed, LoginServed, GoesOn, StartLogin
<1>21. ASSUME NEW u \in User, NEW d \in Device, SignUp(u, d) \/ RecoverElsewhere(u, d)
       PROVE  CallsInv'
  BY <1>4, <1>21 DEF SignUp, RecoverElsewhere
<1>22. CASE \/ CompleteSession \/ ClearTokens \/ Wipe \/ LoginFails \/ Unlock \/ Expires
            \/ UNCHANGED allVars
  BY <1>4, <1>22 DEF CompleteSession, ClearTokens, Wipe, LoginFails, Unlock, Expires,
                     allVars, clientVars
<1> QED BY <1>8, <1>9, <1>10, <1>11, <1>12, <1>13, <1>14, <1>15, <1>16, <1>17, <1>18,
           <1>19, <1>20, <1>21, <1>22
        DEF SessionNext, CallGoesOn, FlightGoesOn, OpGoesOn

(* A logout's call is under way only with a token to sign out.             *)
LEMMA OpKept ==
    ASSUME ClientInv, [SessionNext]_allVars
    PROVE  OpInv'
<1>1. (\A n : n \in 0 .. tokens => n \in 0 .. tokens') /\ tokens' \in 0 .. tokens'
  BY RowsGrow
<1>2. 0 \in 0 .. tokens'
  BY HoldersKept
<1>3. /\ op \in OpRow
      /\ auth \in {"out", "ready", "unlock", "leaving"}
      /\ past \in Past
      /\ \A c \in op.call : op.at = "logout" /\ (call[c] # NoCall => op.pair # 0)
      /\ store.refresh \in 0 .. tokens
      /\ call \in [Call -> CallRow]
  BY DEF ClientInv, OpInv, StoreInv, CallsInv
<1> HIDE DEF CallRow, NoCall
<1>4. past' \in Past /\ auth' \in {"out", "ready", "unlock", "leaving"}
  <2>0. past \in Past /\ Past = {"calm", "refused", "disturbed", "crossed", "killed"}
        /\ auth \in {"out", "ready", "unlock", "leaving"}
    BY <1>3 DEF Past
  <2>1. CASE \E c \in Call : StartCall(c) \/ CallGoesOn(c) \/ StartLogout(c)
    <3>1. PICK c \in Call : StartCall(c) \/ CallGoesOn(c) \/ StartLogout(c)
      BY <2>1
    <3>2. CASE StartCall(c) \/ StartLogout(c)
      BY <2>0, <3>2 DEF StartCall, StartLogout, Disturbed
    <3>3. CASE \/ Send(c) \/ Execute(c) \/ Answered(c) \/ Fails(c) \/ Refused(c)
               \/ Unauthorized(c) \/ RetryUnauthorized(c) \/ KeepAccess(c)
      BY <2>0, <3>3 DEF Send, Execute, Answered, Fails, Refused, Unauthorized,
                        RetryUnauthorized, KeepAccess, Disturbed
    <3>4. CASE KeepRefresh(c) \/ DropAccess(c) \/ DropRefresh(c)
      BY <2>0, <3>4 DEF KeepRefresh, DropAccess, DropRefresh
    <3>5. CASE \E h \in Handler : LogoutArrives(c, h) \/ LogoutServed(c, h)
      BY <2>0, <3>5 DEF LogoutArrives, LogoutServed, clientVars
    <3> QED BY <3>1, <3>2, <3>3, <3>4, <3>5 DEF CallGoesOn
  <2>2. CASE FlightGoesOn
    <3>1. CASE FlightRead \/ FlightRefused \/ FlightAnswered \/ FlightFails
      BY <2>0, <3>1 DEF FlightRead, FlightRefused, FlightAnswered, FlightFails, Disturbed
    <3>2. ASSUME NEW h \in Handler, FlightArrives(h) \/ FlightServed(h) \/ FlightReused(h)
          PROVE  UNCHANGED <<past, auth>>
      BY <3>2 DEF FlightArrives, FlightServed, FlightReused, clientVars
    <3> QED BY <2>0, <2>2, <3>1, <3>2 DEF FlightGoesOn
  <2>3. CASE OpGoesOn
    BY <2>0, <2>3
    DEF OpGoesOn, CompleteSession, Wipe, ClearTokens, LoginFails, LoginServed,
        Disturbed, clientVars
  <2>4. CASE ~(\/ \E c \in Call : StartCall(c) \/ CallGoesOn(c) \/ StartLogout(c)
               \/ FlightGoesOn \/ OpGoesOn)
    BY <2>0, <2>4
    DEF SessionNext, StartLogin, SignUp, RecoverElsewhere, GoesOn, Unlock, Expires,
        Kill, Disturbed, allVars, clientVars
  <2> QED BY <2>1, <2>2, <2>3, <2>4
<1>5. op \in OpRow'
  BY <1>1, <1>3 DEF OpRow
<1>6. ASSUME UNCHANGED op,
             \A c \in op.call : call'[c] # NoCall => call[c] # NoCall
      PROVE  OpInv'
  <2>1. \A c \in op'.call : op'.at = "logout" /\ (call'[c] # NoCall => op'.pair # 0)
    BY <1>3, <1>6
  <2> QED BY <1>4, <1>5, <1>6, <2>1 DEF OpInv, NoCall
<1>7. ASSUME op' \in OpRow', op'.call = {}
      PROVE  OpInv'
  BY <1>4, <1>7 DEF OpInv
<1>8. ASSUME op' = NoOp
      PROVE  OpInv'
  BY <1>2, <1>7, <1>8 DEF NoOp, OpRow
<1>9. ASSUME UNCHANGED <<op, call>>
      PROVE  OpInv'
  BY <1>6, <1>9
<1>10. ASSUME NEW c \in Call, NEW r, SetCall(c, r), UNCHANGED op,
              c \in op.call => call[c] # NoCall
       PROVE  OpInv'
  <2>1. \A x \in op.call : call'[x] # NoCall => call[x] # NoCall
    BY <1>3, <1>10 DEF SetCall, OpRow
  <2> QED BY <1>6, <1>10, <2>1
<1>11. ASSUME NEW c \in Call, StartCall(c)
       PROVE  OpInv'
  BY <1>10, <1>11 DEF StartCall, Move
<1>12. ASSUME NEW c \in Call,
             \/ Send(c) \/ Execute(c) \/ Answered(c) \/ Fails(c) \/ Refused(c)
             \/ Unauthorized(c) \/ RetryUnauthorized(c)
             \/ KeepAccess(c) \/ KeepRefresh(c) \/ DropAccess(c) \/ DropRefresh(c)
       PROVE  OpInv'
  <2>1. call[c].at # "none" /\ UNCHANGED op
    BY <1>12 DEF Send, Execute, Answered, Fails, Refused, Unauthorized,
                 RetryUnauthorized, KeepAccess, KeepRefresh, DropAccess, DropRefresh
  <2>2. call[c] # NoCall
    BY <2>1 DEF NoCall
  <2>3. \E r : SetCall(c, r)
    BY <1>12 DEF Send, Execute, Answered, Fails, Refused, Unauthorized,
                 RetryUnauthorized, KeepAccess, KeepRefresh, DropAccess, DropRefresh, Move, Throw
  <2> QED BY <1>10, <2>1, <2>2, <2>3
<1>13. ASSUME NEW c \in Call, StartLogout(c)
       PROVE  OpInv'
  <2>1. op' = [at |-> "logout", call |-> {c}, pair |-> store.refresh, by |-> {}]
    BY <1>13 DEF StartLogout, NoOp
  <2>2. op' \in OpRow'
    BY <1>1, <1>3, <2>1 DEF OpRow
  <2>3. call[c] = NoCall /\ (store.refresh = 0 => UNCHANGED call)
    BY <1>13 DEF StartLogout
  <2> QED BY <1>4, <2>1, <2>2, <2>3 DEF OpInv, NoCall
<1>14. ASSUME NEW c \in Call, NEW h \in Handler, LogoutArrives(c, h) \/ LogoutServed(c, h)
       PROVE  OpInv'
  <2>1. call[c].at # "none"
    BY <1>14 DEF LogoutArrives, LogoutServed
  <2>2. call[c] # NoCall
    BY <2>1 DEF NoCall
  <2>3. \E r : SetCall(c, r)
    BY <1>14 DEF LogoutArrives, LogoutServed, Move
  <2>4. CASE UNCHANGED op
    BY <1>10, <2>2, <2>3, <2>4
  <2>5. CASE op' = [op EXCEPT !.by = {h}] /\ c \in op.call
    <3>1. op' \in OpRow' /\ op'.call = op.call /\ op'.at = op.at /\ op'.pair = op.pair
      BY <1>5, <2>5 DEF OpRow
    <3>2. \A x \in op.call : call'[x] # NoCall => call[x] # NoCall
      BY <1>3, <2>2, <2>3 DEF SetCall, OpRow
    <3>3. \A x \in op'.call : op'.at = "logout" /\ (call'[x] # NoCall => op'.pair # 0)
      BY <1>3, <3>1, <3>2
    <3> QED BY <1>4, <3>1, <3>3 DEF OpInv, NoCall
  <2> QED BY <1>14, <2>4, <2>5 DEF LogoutArrives, LogoutServed
<1>15. ASSUME Complete("drop", 0) \/ Complete("keep", flight.token), UNCHANGED op
       PROVE  OpInv'
  <2>1. \A x \in op.call : call'[x] # NoCall => call[x] # NoCall
    <3> SUFFICES ASSUME NEW x \in op.call, call[x] = NoCall
                 PROVE  call'[x] = NoCall
      OBVIOUS
    <3>1. x \in Call /\ call[x].at # "wait"
      BY <1>3 DEF OpRow, NoCall
    <3> QED BY <1>15, <3>1 DEF Complete
  <2> QED BY <1>6, <1>15, <2>1
<1>16. CASE FlightRead \/ FlightRefused \/ FlightAnswered \/ FlightFails
  BY <1>9, <1>15, <1>16 DEF FlightRead, FlightRefused, FlightAnswered, FlightFails
<1>17. ASSUME NEW h \in Handler, FlightReused(h)
       PROVE  OpInv'
  BY <1>15, <1>17 DEF FlightReused
<1>18. ASSUME op' = NewSession
       PROVE  OpInv'
  BY <1>1, <1>7, <1>18 DEF NewSession, NoOp, OpRow
<1>19. ASSUME NEW h \in Handler,
             \/ LoginServed(h) \/ \E u \in User, d \in Device : StartLogin(h, u, d)
       PROVE  OpInv'
  <2>1. CASE op' = [NoOp EXCEPT !.at = "login", !.by = {h}]
    BY <1>2, <1>7, <2>1 DEF NoOp, OpRow
  <2> QED BY <1>8, <1>18, <1>19, <2>1 DEF LoginServed, StartLogin
<1>20. CASE Kill \/ LoginFails
  BY <1>8, <1>20 DEF Kill, LoginFails
<1>21. CASE CompleteSession \/ ClearTokens
  <2>1. CASE op' = NoOp
    BY <1>8, <2>1
  <2>2. CASE /\ op.at \in {"keep", "clear"}
             /\ \/ op' = [op EXCEPT !.at = "keepRefresh"]
                \/ op' = [op EXCEPT !.at = "clearRefresh"]
    <3>1. op.call = {}
      BY <1>3, <2>2 DEF OpRow
    <3>2. op' \in OpRow' /\ op'.call = {}
      BY <1>5, <2>2, <3>1 DEF OpRow
    <3> QED BY <1>7, <3>2
  <2> QED BY <1>21, <2>1, <2>2 DEF CompleteSession, ClearTokens
<1>22. CASE Wipe
  BY <1>2, <1>7, <1>22 DEF Wipe, NoOp, OpRow
<1>23. ASSUME NEW u \in User, NEW d \in Device, SignUp(u, d) \/ RecoverElsewhere(u, d)
       PROVE  OpInv'
  BY <1>9, <1>18, <1>23 DEF SignUp, RecoverElsewhere
<1>24. ASSUME NEW h \in Handler, FlightArrives(h) \/ FlightServed(h) \/ GoesOn(h)
       PROVE  OpInv'
  BY <1>9, <1>24 DEF FlightArrives, FlightServed, GoesOn
<1>25. CASE Unlock \/ Expires \/ UNCHANGED allVars
  BY <1>9, <1>25 DEF Unlock, Expires, allVars, clientVars
<1> QED BY <1>11, <1>12, <1>13, <1>14, <1>16, <1>17, <1>19, <1>20, <1>21, <1>22, <1>23,
           <1>24, <1>25
        DEF SessionNext, CallGoesOn, FlightGoesOn, OpGoesOn

LEMMA ClientInvStep == ClientInv /\ [SessionNext]_allVars => ClientInv'
<1> SUFFICES ASSUME ClientInv, [SessionNext]_allVars PROVE ClientInv'
  OBVIOUS
<1>1. AccessTypeOK'
  BY SessionStepIsServerStep, StepTypes DEF ClientInv
<1> QED BY <1>1, HoldersKept, StoreKept, FlightKept, CallsKept, OpKept DEF ClientInv

LEMMA ClientInvInit == SessionInit => ClientInv
<1> SUFFICES ASSUME SessionInit PROVE ClientInv
  OBVIOUS
<1>1. AccessTypeOK
  BY InitTypes DEF SessionInit
<1>2. tokens = 0
  BY DEF SessionInit, Init
<1>3. 0 \in 0 .. tokens /\ 0 \in 0 .. 1
  BY <1>2
<1>4. HolderInv /\ StoreInv
  BY <1>2, <1>3 DEF SessionInit, HolderInv, StoreInv
<1>5. FlightInv
  BY <1>3 DEF SessionInit, FlightInv, FlightRow, NoFlight
<1>6. CallsInv
  BY <1>3 DEF SessionInit, CallsInv, CallRow, NoCall
<1>7. OpInv
  BY <1>3 DEF SessionInit, OpInv, OpRow, NoOp, Past
<1> QED BY <1>1, <1>4, <1>5, <1>6, <1>7 DEF ClientInv

LEMMA ClientInvHolds == SessionSpec => []ClientInv
  BY ClientInvInit, ClientInvStep, PTL DEF SessionSpec

-----------------------------------------------------------------------------
(* What the session keeps is well formed: every token it stores, sends or  *)
(* waits with is one that the server issued.                               *)
THEOREM ClientTypes == SessionSpec => []ClientTypeOK
<1>1. ClientInv => ClientTypeOK
  <2> SUFFICES ASSUME ClientInv PROVE ClientTypeOK
    OBVIOUS
  <2>1. \A c \in Call :
          call[c] \in [at : {"none", "ready", "sent", "served", "answer", "wait",
                             "keep", "keepRefresh", "drop", "dropRefresh"},
                       token : 0 .. tokens, pair : 0 .. tokens,
                       retry : BOOLEAN, ran : Nat]
    BY DEF ClientInv, CallsInv, CallRow
  <2> QED BY <2>1 DEF ClientInv, ClientTypeOK, HolderInv, StoreInv, FlightInv, FlightRow,
                      CallsInv, OpInv, OpRow
<1> QED BY <1>1, ClientInvHolds, PTL

(* The retry after a refresh never makes the server execute a call twice:  *)
(* what may be sent again was turned away before.                          *)
THEOREM CallsRunOnce == SessionSpec => []AtMostOnce
<1>1. ClientInv => AtMostOnce
  BY DEF ClientInv, CallsInv, CallRow, AtMostOnce
<1> QED BY <1>1, ClientInvHolds, PTL

(* Whatever the device does with its tokens, and whatever it does          *)
(* concurrently, is something the server's accounts and devices allow for: *)
(* its requests are requests of FamilyAccess, and its own steps stutter.   *)
THEOREM SessionImplementsAccess == SessionSpec => AccessSpec
<1>1. SessionInit => Init
  BY DEF SessionInit
<1>2. ClientInv /\ [SessionNext]_allVars => [Next]_vars
  BY SessionStepIsServerStep
<1> QED BY <1>1, <1>2, ClientInvHolds, PTL DEF SessionSpec, AccessSpec

-----------------------------------------------------------------------------
(* Calls wait exactly while a refresh is under way.                        *)

(* A call that neither waits nor begins to.                                *)
LEMMA OthersWait ==
    ASSUME ClientInv, WaitersHaveFlight, NEW c \in Call, NEW r, SetCall(c, r),
           call[c].at # "wait", r.at # "wait", UNCHANGED flight
    PROVE  WaitersHaveFlight'
<1>1. \A x \in Call : call'[x] = IF x = c THEN r ELSE call[x]
  BY DEF SetCall, ClientInv, CallsInv
<1> QED BY <1>1 DEF WaitersHaveFlight

LEMMA NobodyWaits ==
    ASSUME flight' = NoFlight, \A c \in Call : call'[c].at # "wait"
    PROVE  WaitersHaveFlight'
BY DEF WaitersHaveFlight

LEMMA WaitersStep ==
    ASSUME ClientInv, WaitersHaveFlight, [SessionNext]_allVars
    PROVE  WaitersHaveFlight'
<1>1. call \in [Call -> CallRow]
  BY DEF ClientInv, CallsInv
<1>2. ASSUME UNCHANGED <<flight, call>> PROVE WaitersHaveFlight'
  BY <1>2 DEF WaitersHaveFlight
<1>3. ASSUME NEW at, NEW n, at # "wait", Complete(at, n) PROVE WaitersHaveFlight'
  <2>1. \A c \in Call :
          call'[c] = IF call[c].at = "wait"
                     THEN [call[c] EXCEPT !.at = at, !.pair = n] ELSE call[c]
    BY <1>3 DEF Complete
  <2>2. \A c \in Call : call'[c].at # "wait"
    BY <1>1, <1>3, <2>1 DEF CallRow
  <2> QED BY <1>3, <2>2, NobodyWaits DEF Complete
<1>4. ASSUME NEW c \in Call, NEW at, at # "wait", call[c].at # "wait", Move(c, at),
             UNCHANGED flight
      PROVE  WaitersHaveFlight'
  <2>1. [call[c] EXCEPT !.at = at].at = at
    BY <1>1 DEF CallRow
  <2> QED BY <1>4, <2>1, OthersWait DEF Move
<1>5. ASSUME NEW c \in Call, call[c].at # "wait", Throw(c), UNCHANGED flight
      PROVE  WaitersHaveFlight'
  <2>1. NoCall.at # "wait" /\ [NoCall EXCEPT !.at = "drop"].at # "wait"
    BY DEF NoCall
  <2> QED BY <1>5, <2>1, OthersWait DEF Throw
<1>6. ASSUME NEW c \in Call, StartCall(c) \/ StartLogout(c) PROVE WaitersHaveFlight'
  <2>1. call[c].at # "wait"
    BY <1>6 DEF StartCall, StartLogout, NoCall
  <2> QED BY <1>2, <1>4, <1>6, <2>1 DEF StartCall, StartLogout
<1>7. ASSUME NEW c \in Call, Send(c) \/ Execute(c) \/ Answered(c) \/ KeepRefresh(c)
                             \/ DropRefresh(c)
      PROVE  WaitersHaveFlight'
  <2>1. call[c] \in CallRow /\ NoCall.at # "wait"
    BY <1>1 DEF NoCall
  <2>2. CASE Send(c)
    <3> DEFINE r == [call[c] EXCEPT !.at = "sent", !.pair = 0,
                       !.token = IF store.access # 0 THEN store.access ELSE call[c].pair]
    <3>1. SetCall(c, r) /\ call[c].at # "wait" /\ UNCHANGED flight
      BY <2>2 DEF Send
    <3>2. r.at # "wait"
      BY <2>1 DEF CallRow
    <3> QED BY <3>1, <3>2, OthersWait
  <2>3. CASE Execute(c)
    <3> DEFINE r == [call[c] EXCEPT !.at = "answer", !.token = 0, !.ran = @ + 1]
    <3>1. SetCall(c, r) /\ call[c].at # "wait" /\ UNCHANGED flight
      BY <2>3 DEF Execute
    <3>2. r.at # "wait"
      BY <2>1 DEF CallRow
    <3> QED BY <3>1, <3>2, OthersWait
  <2>4. CASE KeepRefresh(c)
    <3> DEFINE r == [call[c] EXCEPT !.at = "ready", !.retry = TRUE]
    <3>1. SetCall(c, r) /\ call[c].at # "wait" /\ UNCHANGED flight
      BY <2>4 DEF KeepRefresh
    <3>2. r.at # "wait"
      BY <2>1 DEF CallRow
    <3> QED BY <3>1, <3>2, OthersWait
  <2>5. CASE Answered(c) \/ DropRefresh(c)
    BY <2>1, <2>5, OthersWait DEF Answered, DropRefresh
  <2> QED BY <1>7, <2>2, <2>3, <2>4, <2>5
<1>8. ASSUME NEW c \in Call,
             \/ KeepAccess(c) \/ DropAccess(c)
             \/ \E h \in Handler : LogoutArrives(c, h) \/ LogoutServed(c, h)
      PROVE  WaitersHaveFlight'
  BY <1>4, <1>8 DEF KeepAccess, DropAccess, LogoutArrives, LogoutServed
<1>9. ASSUME NEW c \in Call, Fails(c) \/ Refused(c) \/ RetryUnauthorized(c)
      PROVE  WaitersHaveFlight'
  BY <1>5, <1>9 DEF Fails, Refused, RetryUnauthorized
<1>10. ASSUME NEW c \in Call, Unauthorized(c) PROVE WaitersHaveFlight'
  <2>1. call'[c].at = "wait"
    BY <1>1, <1>10 DEF Unauthorized, SetCall, CallRow
  <2>2. flight' # NoFlight
    <3>1. [NoFlight EXCEPT !.at = "read"].at = "read" /\ NoFlight.at = "none"
      BY DEF NoFlight
    <3> QED BY <1>10, <3>1 DEF Unauthorized, SharedFlight
  <2> QED BY <2>1, <2>2 DEF WaitersHaveFlight
<1>11. CASE \/ FlightRefused \/ FlightAnswered \/ FlightFails
            \/ \E h \in Handler : FlightReused(h)
  BY <1>3, <1>11 DEF FlightRefused, FlightAnswered, FlightFails, FlightReused
<1>12. ASSUME flight.at # "none", flight'.at # "none", UNCHANGED call
       PROVE  WaitersHaveFlight'
  BY <1>12 DEF WaitersHaveFlight, NoFlight
<1>13. CASE FlightRead
  <2>1. CASE flight' = [flight EXCEPT !.at = "sent", !.token = store.refresh]
             /\ UNCHANGED call
    <3>1. flight'.at = "sent" /\ flight.at = "read"
      BY <1>13, <2>1 DEF FlightRead, ClientInv, FlightInv, FlightRow
    <3> QED BY <1>12, <2>1, <3>1
  <2> QED BY <1>3, <1>13, <2>1 DEF FlightRead
<1>14. ASSUME NEW h \in Handler, FlightArrives(h) PROVE WaitersHaveFlight'
  <2>1. flight'.at = "served" /\ flight.at = "sent" /\ UNCHANGED call
    BY <1>14 DEF FlightArrives, ClientInv, FlightInv, FlightRow
  <2> QED BY <1>12, <2>1
<1>15. ASSUME NEW h \in Handler, FlightServed(h) PROVE WaitersHaveFlight'
  <2>1. flight'.at = "answer" /\ flight.at = "served" /\ UNCHANGED call
    BY <1>15 DEF FlightServed, ClientInv, FlightInv, FlightRow
  <2> QED BY <1>12, <2>1
<1>16. CASE Kill
  BY <1>16, NobodyWaits DEF Kill, NoCall
<1>17. ASSUME NEW h \in Handler,
              LoginServed(h) \/ GoesOn(h) \/ \E u \in User, d \in Device : StartLogin(h, u, d)
       PROVE  WaitersHaveFlight'
  BY <1>2, <1>17 DEF LoginServed, GoesOn, StartLogin
<1>18. ASSUME NEW u \in User, NEW d \in Device, SignUp(u, d) \/ RecoverElsewhere(u, d)
       PROVE  WaitersHaveFlight'
  BY <1>2, <1>18 DEF SignUp, RecoverElsewhere
<1>19. CASE \/ CompleteSession \/ ClearTokens \/ Wipe \/ LoginFails \/ Unlock \/ Expires
            \/ UNCHANGED allVars
  BY <1>2, <1>19 DEF CompleteSession, ClearTokens, Wipe, LoginFails, Unlock, Expires,
                     allVars, clientVars
<1> QED BY <1>6, <1>7, <1>8, <1>9, <1>10, <1>11, <1>13, <1>14, <1>15, <1>16, <1>17,
           <1>18, <1>19
        DEF SessionNext, CallGoesOn, FlightGoesOn, OpGoesOn

(* However a refresh ends, _refreshOnce leaves no call behind that waits   *)
(* for it, and none goes on whose tokens nobody would store.               *)
THEOREM WaitersAreServed == SessionSpec => []WaitersHaveFlight
<1>1. SessionInit => WaitersHaveFlight
  BY DEF SessionInit, WaitersHaveFlight, NoCall
<1>2. ClientInv /\ WaitersHaveFlight /\ [SessionNext]_allVars => WaitersHaveFlight'
  BY WaitersStep
<1> QED BY <1>1, <1>2, ClientInvHolds, PTL DEF SessionSpec

-----------------------------------------------------------------------------
(* No refresh token is presented twice.                                    *)

(* The tokens that are rotated away, or will be if the handler goes on.    *)
SpentTokens ==
    {r.hash : r \in retired}
    \cup {req[h].hash : h \in {g \in Handler : req[g].op = "refresh"}}

Keeping == {"keep", "keepRefresh"}

Storing == Keeping \cup {"drop", "dropRefresh"}

SpentIssued == SpentTokens \subseteq 1 .. tokens

NoReuse == \A h \in Handler : req[h].op # "reuse"

(* The token of a refresh was never sent before, and a call waits for it.  *)
FlightFresh ==
    /\ flight # NoFlight => \E c \in Call : call[c].at = "wait"
    /\ flight.at \in {"sent", "answer"} => flight.token \notin SpentTokens

(* No refresh is under way while the pair of the last one is stored.       *)
CallsFresh ==
    \A c \in Call : call[c].at \in Keeping =>
        flight = NoFlight /\ call[c].pair \notin SpentTokens

(* A spent token is stored only until the refresh has brought another.     *)
StoreFresh ==
    store.refresh \in SpentTokens =>
        \/ flight.at \in {"served", "answer"}
        \/ flight = NoFlight /\ \E c \in Call : call[c].at \in Storing

(* The pair of a login is new to everyone.                                 *)
OpFresh ==
    op.at \in Keeping =>
        /\ op.pair \notin SpentTokens \cup {0, store.refresh, flight.token}
        /\ \A c \in Call : call[c].at \in Keeping => call[c].pair # op.pair

Fresh == NoReuse /\ FlightFresh /\ CallsFresh /\ StoreFresh /\ OpFresh

FreshInv == SpentIssued /\ (past \notin {"crossed", "killed"} => Fresh)

(* What a request that begins or ends may spend.                           *)
LEMMA RequestSpends ==
    ASSUME AccessTypeOK, NEW h \in Handler, NEW r, req' = [req EXCEPT ![h] = r],
           \/ retired' = retired
           \/ req[h].op = "refresh" /\ retired' = Retire(req[h])
    PROVE  /\ \A n \in SpentTokens' : n \in SpentTokens \/ (r.op = "refresh" /\ n = r.hash)
           /\ NoReuse /\ r.op # "reuse" => NoReuse'
<1>1. /\ req' = [g \in Handler |-> IF g = h THEN r ELSE req[g]]
      /\ \A g \in Handler : req'[g] = IF g = h THEN r ELSE req[g]
  BY DEF AccessTypeOK
<1>2. ASSUME NEW n \in SpentTokens'
      PROVE  n \in SpentTokens \/ (r.op = "refresh" /\ n = r.hash)
  <2>1. CASE \E x \in retired' : n = x.hash
    <3>1. PICK x \in retired' : n = x.hash
      BY <2>1
    <3>2. \/ x \in retired
          \/ req[h].op = "refresh" /\ x = [hash |-> req[h].hash, user |-> req[h].user]
      BY <3>1 DEF Retire
    <3> QED BY <3>1, <3>2 DEF SpentTokens
  <2>2. CASE \E g \in Handler : req'[g].op = "refresh" /\ n = req'[g].hash
    <3>1. PICK g \in Handler : req'[g].op = "refresh" /\ n = req'[g].hash
      BY <2>2
    <3>2. CASE g = h
      BY <1>1, <3>1, <3>2
    <3>3. CASE g # h
      <4>1. req[g].op = "refresh" /\ n = req[g].hash
        BY <1>1, <3>1, <3>3
      <4> QED BY <4>1 DEF SpentTokens
    <3> QED BY <3>2, <3>3
  <2> QED BY <1>2, <2>1, <2>2 DEF SpentTokens
<1>3. ASSUME NoReuse, r.op # "reuse"
      PROVE  NoReuse'
  BY <1>1, <1>3 DEF NoReuse
<1> QED BY <1>2, <1>3

(* A step that spends nothing.                                             *)
SpendsNothing == SpentTokens' \subseteq SpentTokens /\ (NoReuse => NoReuse')

LEMMA EndSpendsNothing ==
    ASSUME AccessTypeOK, NEW h \in Handler,
           \/ EndLogin(h) \/ EndRefresh(h) \/ EndReuse(h) \/ EndLogout(h) \/ GiveUp(h)
    PROVE  SpendsNothing
<1>1. req' = [req EXCEPT ![h] = Idle]
  BY DEF EndLogin, EndRefresh, EndReuse, EndLogout, GiveUp, End
<1>2. \/ retired' = retired
      \/ req[h].op = "refresh" /\ retired' = Retire(req[h])
  BY DEF EndLogin, EndRefresh, EndReuse, EndLogout, GiveUp, End
<1>3. Idle.op = "idle"
  BY DEF Idle
<1> QED BY <1>1, <1>2, <1>3, RequestSpends DEF SpendsNothing

LEMMA StillSpendsNothing ==
    ASSUME UNCHANGED <<retired, req>>
    PROVE  SpendsNothing
BY DEF SpendsNothing, SpentTokens, NoReuse

(* Only a refresh that reaches the server spends a token.                  *)
LEMMA OnlyArrivalsSpend ==
    ASSUME ClientInv, [SessionNext]_allVars, ~(\E h \in Handler : FlightArrives(h))
    PROVE  SpendsNothing
<1>0. AccessTypeOK
  BY DEF ClientInv
<1>1. ASSUME NEW h \in Handler, \/ FlightServed(h) \/ FlightReused(h) \/ LoginServed(h)
                                \/ \E c \in Call : LogoutServed(c, h)
      PROVE  SpendsNothing
  BY <1>0, <1>1, EndSpendsNothing DEF FlightServed, FlightReused, LoginServed, LogoutServed
<1>2. ASSUME NEW h \in Handler, GoesOn(h)
      PROVE  SpendsNothing
  BY <1>0, <1>2, EndSpendsNothing DEF GoesOn
<1>3. ASSUME NEW h \in Handler, NEW u \in User, NEW d \in Device, StartLogin(h, u, d)
      PROVE  SpendsNothing
  <2>1. PICK r : r.op = "login" /\ req' = [req EXCEPT ![h] = r]
    <3>1. req' = [req EXCEPT ![h] = [op |-> "login", user |-> u, id |-> d]]
      BY <1>3 DEF StartLogin, BeginLogin, Begin
    <3>2. [op |-> "login", user |-> u, id |-> d].op = "login"
      OBVIOUS
    <3> QED BY <3>1, <3>2
  <2>2. retired' = retired
    BY <1>3 DEF StartLogin, BeginLogin
  <2> QED BY <1>0, <2>1, <2>2, RequestSpends DEF SpendsNothing
<1>4. ASSUME NEW h \in Handler, NEW c \in Call, LogoutArrives(c, h)
      PROVE  SpendsNothing
  <2>1. CASE BeginLogout(h, op.pair)
    <3>1. PICK r : r.op = "logout" /\ req' = [req EXCEPT ![h] = r]
      <4>1. PICK d : req' = [req EXCEPT ![h] = [op |-> "logout", id |-> d]]
        BY <2>1 DEF BeginLogout, Begin
      <4>2. [op |-> "logout", id |-> d].op = "logout"
        OBVIOUS
      <4> QED BY <4>1, <4>2
    <3>2. retired' = retired
      BY <2>1 DEF BeginLogout
    <3> QED BY <1>0, <3>1, <3>2, RequestSpends DEF SpendsNothing
  <2> QED BY <1>4, <2>1, StillSpendsNothing DEF LogoutArrives, vars
<1>5. ASSUME NEW u \in User, NEW d \in Device, SignUp(u, d) \/ RecoverElsewhere(u, d)
      PROVE  SpendsNothing
  BY <1>5, StillSpendsNothing DEF SignUp, RecoverElsewhere, Bootstrap, RecoveryRedeem
<1>6. ASSUME NEW c \in Call,
             \/ StartCall(c) \/ StartLogout(c) \/ Send(c) \/ Execute(c) \/ Answered(c)
             \/ Fails(c) \/ Refused(c) \/ Unauthorized(c) \/ RetryUnauthorized(c)
             \/ KeepAccess(c) \/ KeepRefresh(c)
             \/ DropAccess(c) \/ DropRefresh(c)
      PROVE  SpendsNothing
  BY <1>6, StillSpendsNothing
     DEF StartCall, StartLogout, Send, Execute, Answered, Fails, Refused, Unauthorized, RetryUnauthorized,
         KeepAccess, KeepRefresh, DropAccess, DropRefresh, vars
<1>7. CASE \/ FlightRead \/ FlightRefused \/ FlightAnswered \/ FlightFails
           \/ CompleteSession \/ Wipe \/ ClearTokens \/ LoginFails
           \/ Unlock \/ Expires \/ Kill \/ UNCHANGED allVars
  BY <1>7, StillSpendsNothing
     DEF FlightRead, FlightRefused, FlightAnswered, FlightFails, CompleteSession,
         Wipe, ClearTokens, LoginFails, Unlock, Expires, Kill, allVars, vars
<1> QED BY <1>1, <1>2, <1>3, <1>4, <1>5, <1>6, <1>7
        DEF SessionNext, CallGoesOn, FlightGoesOn, OpGoesOn

(* A refresh that reaches the server spends its token, and it is no reuse. *)
LEMMA ArrivalSpends ==
    ASSUME ClientInv, NEW h \in Handler, FlightArrives(h)
    PROVE  /\ \A n \in SpentTokens' : n \in SpentTokens \/ n = flight.token
           /\ NoReuse /\ flight.token \notin SpentTokens => NoReuse'
<1>0. AccessTypeOK
  BY DEF ClientInv
<1>1. CASE BeginRefresh(h, flight.token)
  <2>1. PICK r : /\ r.op = "refresh" /\ r.hash = flight.token
                 /\ req' = [req EXCEPT ![h] = r]
    <3>1. PICK d : req' = [req EXCEPT ![h] = [op |-> "refresh", id |-> d,
                                              user |-> device[d].user, hash |-> flight.token]]
      BY <1>1 DEF BeginRefresh, Begin
    <3> DEFINE r == [op |-> "refresh", id |-> d, user |-> device[d].user,
                     hash |-> flight.token]
    <3>2. r.op = "refresh" /\ r.hash = flight.token
      OBVIOUS
    <3> QED BY <3>1, <3>2
  <2>2. retired' = retired
    BY <1>1 DEF BeginRefresh
  <2> QED BY <1>0, <2>1, <2>2, RequestSpends
<1>2. CASE BeginReuse(h, flight.token)
  <2>1. PICK x \in retired :
          x.hash = flight.token /\ req' = [req EXCEPT ![h] = [op |-> "reuse", user |-> x.user]]
    BY <1>2 DEF BeginReuse, Begin
  <2>2. retired' = retired
    BY <1>2 DEF BeginReuse
  <2>3. flight.token \in SpentTokens
    BY <2>1 DEF SpentTokens
  <2>4. PICK r : r.op = "reuse" /\ req' = [req EXCEPT ![h] = r]
    <3>1. [op |-> "reuse", user |-> x.user].op = "reuse"
      OBVIOUS
    <3> QED BY <2>1, <3>1
  <2> QED BY <1>0, <2>2, <2>3, <2>4, RequestSpends
<1> QED BY <1>1, <1>2 DEF FlightArrives

(* The calls go on as a quiet step lets them: those that wait or store go  *)
(* on to do so, and none begins to store a pair.                           *)
CallsQuiet ==
    \A c \in Call :
        /\ call[c].at = "wait" => call'[c].at = "wait"
        /\ call'[c].at \in Keeping => call[c].at \in Keeping /\ call'[c].pair = call[c].pair

StillStored ==
    /\ store'.refresh = store.refresh
    /\ \A c \in Call : call[c].at \in Storing => call'[c].at \in Storing

StoredFresh ==
    store'.refresh \notin SpentTokens /\ (op'.at \in Keeping => store'.refresh # op'.pair)

(* A step that leaves the refresh alone.                                   *)
LEMMA QuietStep ==
    ASSUME Fresh, SpendsNothing, UNCHANGED flight, CallsQuiet,
           StillStored \/ StoredFresh,
           op'.at \in Keeping => op.at \in Keeping /\ op'.pair = op.pair
    PROVE  Fresh'
<1>1. NoReuse' /\ \A n \in SpentTokens' : n \in SpentTokens
  BY DEF Fresh, SpendsNothing
<1>2. FlightFresh'
  BY <1>1 DEF Fresh, FlightFresh, CallsQuiet, NoFlight
<1>3. CallsFresh'
  BY <1>1 DEF Fresh, CallsFresh, CallsQuiet, NoFlight
<1>4. StoreFresh'
  BY <1>1 DEF Fresh, StoreFresh, StillStored, StoredFresh, Storing, NoFlight
<1>5. OpFresh'
  BY <1>1 DEF Fresh, OpFresh, StillStored, StoredFresh, CallsQuiet, Keeping
<1> QED BY <1>1, <1>2, <1>3, <1>4, <1>5 DEF Fresh

(* One call moves on, that neither waits nor stores.                       *)
LEMMA OneCallQuiet ==
    ASSUME ClientInv, NEW c \in Call, NEW r, SetCall(c, r),
           call[c].at \notin Storing \cup {"wait"}, r.at \notin Keeping
    PROVE  CallsQuiet /\ \A x \in Call : call[x].at \in Storing => call'[x].at \in Storing
<1>1. \A x \in Call : call'[x] = IF x = c THEN r ELSE call[x]
  BY DEF ClientInv, CallsInv, SetCall
<1> QED BY <1>1 DEF CallsQuiet, Storing

(* The refresh is over for the calls that wait.                            *)
LEMMA CompleteStep ==
    ASSUME ClientInv, Fresh, SpendsNothing, flight # NoFlight,
           Complete("drop", 0) \/ (flight.at = "answer" /\ Complete("keep", flight.token)),
           UNCHANGED store, op'.at \in Keeping => UNCHANGED op
    PROVE  Fresh'
<1>1. NoReuse' /\ \A n \in SpentTokens' : n \in SpentTokens
  BY DEF Fresh, SpendsNothing
<1>2. call \in [Call -> CallRow] /\ flight' = NoFlight
  BY DEF ClientInv, CallsInv, Complete
<1>3. PICK w \in Call : call[w].at = "wait"
  BY DEF Fresh, FlightFresh
<1>4. \A c \in Call : call[c].at \notin Keeping
  BY DEF Fresh, CallsFresh
<1>5. /\ call'[w].at \in Storing
      /\ \A c \in Call : call'[c].at \in Keeping =>
            flight.at = "answer" /\ call'[c].pair = flight.token
  <2>1. CASE Complete("drop", 0)
    BY <1>2, <1>3, <1>4, <2>1 DEF Complete, CallRow, Keeping, Storing
  <2>2. CASE flight.at = "answer" /\ Complete("keep", flight.token)
    BY <1>2, <1>3, <1>4, <2>2 DEF Complete, CallRow, Keeping, Storing
  <2> QED BY <2>1, <2>2
<1>6. FlightFresh'
  BY <1>2 DEF FlightFresh, NoFlight
<1>7. CallsFresh'
  BY <1>1, <1>2, <1>5 DEF Fresh, FlightFresh, CallsFresh, NoFlight
<1>8. StoreFresh'
  BY <1>2, <1>5 DEF StoreFresh, NoFlight
<1>9. OpFresh'
  <2> SUFFICES ASSUME op'.at \in Keeping
               PROVE  /\ op'.pair \notin SpentTokens' \cup {0, store'.refresh, flight'.token}
                      /\ \A c \in Call : call'[c].at \in Keeping => call'[c].pair # op'.pair
    BY DEF OpFresh
  <2>1. op.pair \notin SpentTokens \cup {0, store.refresh, flight.token} /\ op' = op
    BY DEF Fresh, OpFresh
  <2>2. flight'.token = 0
    BY <1>2 DEF NoFlight
  <2> QED BY <1>1, <1>5, <2>1, <2>2
<1> QED BY <1>1, <1>6, <1>7, <1>8, <1>9 DEF Fresh

(* A call that is turned away joins the refresh, or begins one: then no    *)
(* key is being written, so the stored token is not spent.                 *)
LEMMA JoinStep ==
    ASSUME ClientInv, Fresh, SpendsNothing, past' \notin {"crossed", "killed"},
           NEW c \in Call, Unauthorized(c)
    PROVE  Fresh'
<1>1. NoReuse' /\ \A n \in SpentTokens' : n \in SpentTokens
  BY DEF Fresh, SpendsNothing
<1>2. ~Writing /\ UNCHANGED <<store, op>>
  BY DEF Unauthorized
<1>3. op.at \notin Keeping /\ \A x \in Call : call[x].at \notin Storing
  BY <1>2 DEF Writing, Storing, Keeping
<1>4. call'[c].at = "wait" /\ \A x \in Call : call'[x].at \notin Keeping
  BY <1>3 DEF Unauthorized, SetCall, ClientInv, CallsInv, CallRow, Storing, Keeping
<1>5. CASE flight = NoFlight
  <2>1. flight'.at = "read"
    BY <1>5 DEF Unauthorized, SharedFlight, NoFlight
  <2>2. store.refresh \notin SpentTokens
    BY <1>3, <1>5 DEF Fresh, StoreFresh, NoFlight
  <2>3. FlightFresh' /\ CallsFresh' /\ StoreFresh' /\ OpFresh'
    BY <1>1, <1>2, <1>3, <1>4, <2>1, <2>2
       DEF FlightFresh, CallsFresh, StoreFresh, OpFresh
  <2> QED BY <1>1, <2>3 DEF Fresh
<1>6. CASE flight # NoFlight
  <2>1. flight' = flight
    BY <1>6 DEF Unauthorized, SharedFlight
  <2>2. FlightFresh' /\ CallsFresh' /\ OpFresh'
    BY <1>1, <1>2, <1>3, <1>4, <2>1 DEF Fresh, FlightFresh, CallsFresh, OpFresh
  <2>3. StoreFresh'
    BY <1>1, <1>2, <1>6, <2>1 DEF Fresh, StoreFresh
  <2> QED BY <1>1, <2>2, <2>3 DEF Fresh
<1> QED BY <1>5, <1>6

(* The refresh itself: the token that is read is not spent, it is spent    *)
(* once, and the one that comes back is new.                               *)
LEMMA ReadStep ==
    ASSUME ClientInv, Fresh, SpendsNothing, FlightRead
    PROVE  Fresh'
<1>1. NoReuse' /\ \A n \in SpentTokens' : n \in SpentTokens
  BY DEF Fresh, SpendsNothing
<1>2. flight # NoFlight /\ UNCHANGED <<store, op>>
  BY DEF FlightRead, NoFlight
<1>3. CASE Complete("drop", 0)
  BY <1>2, <1>3, CompleteStep
<1>4. CASE flight' = [flight EXCEPT !.at = "sent", !.token = store.refresh] /\ UNCHANGED call
  <2>1. flight'.at = "sent" /\ flight'.token = store.refresh
    BY <1>4 DEF ClientInv, FlightInv, FlightRow
  <2>2. store.refresh \notin SpentTokens
    BY <1>2 DEF Fresh, StoreFresh, FlightRead
  <2>3. FlightFresh' /\ StoreFresh'
    BY <1>1, <1>2, <1>4, <2>1, <2>2 DEF Fresh, FlightFresh, StoreFresh
  <2>4. CallsFresh' /\ OpFresh'
    BY <1>1, <1>2, <1>4, <2>1 DEF Fresh, CallsFresh, OpFresh
  <2> QED BY <1>1, <2>3, <2>4 DEF Fresh
<1> QED BY <1>3, <1>4 DEF FlightRead

LEMMA ArriveStep ==
    ASSUME ClientInv, Fresh, NEW h \in Handler, FlightArrives(h)
    PROVE  Fresh'
<1>1. /\ flight.token \notin SpentTokens /\ flight # NoFlight
      /\ UNCHANGED <<store, call, op>>
  BY DEF Fresh, FlightFresh, FlightArrives, NoFlight
<1>2. NoReuse' /\ \A n \in SpentTokens' : n \in SpentTokens \/ n = flight.token
  BY <1>1, ArrivalSpends DEF Fresh
<1>3. flight'.at = "served" /\ flight'.token = flight.token
  BY DEF FlightArrives, ClientInv, FlightInv, FlightRow
<1>4. FlightFresh' /\ StoreFresh'
  BY <1>1, <1>3 DEF Fresh, FlightFresh, StoreFresh
<1>5. CallsFresh' /\ OpFresh'
  BY <1>1, <1>2, <1>3 DEF Fresh, CallsFresh, OpFresh
<1> QED BY <1>2, <1>4, <1>5 DEF Fresh

LEMMA ServedStep ==
    ASSUME ClientInv, SpentIssued, Fresh, SpendsNothing,
           NEW h \in Handler, FlightServed(h)
    PROVE  Fresh'
<1>1. NoReuse' /\ \A n \in SpentTokens' : n \in SpentTokens
  BY DEF Fresh, SpendsNothing
<1>2. flight # NoFlight /\ UNCHANGED <<store, call, op>>
  BY DEF FlightServed, NoFlight
<1>3. tokens \in Nat /\ tokens' = tokens + 1 /\ op.pair \in 0 .. tokens
  BY DEF FlightServed, EndRefresh, UpdateDeviceRefreshHash, ClientInv, AccessTypeOK,
         OpInv, OpRow
<1>4. flight'.at = "answer" /\ flight'.token = tokens'
  BY DEF FlightServed, ClientInv, FlightInv, FlightRow
<1>5. tokens' \notin SpentTokens /\ tokens' # op.pair
  BY <1>3 DEF SpentIssued
<1>6. FlightFresh' /\ StoreFresh'
  BY <1>1, <1>2, <1>4, <1>5 DEF Fresh, FlightFresh, StoreFresh
<1>7. CallsFresh' /\ OpFresh'
  BY <1>1, <1>2, <1>4, <1>5 DEF Fresh, CallsFresh, OpFresh
<1> QED BY <1>1, <1>6, <1>7 DEF Fresh

(* A login's pair is new.                                                  *)
LEMMA LoginStep ==
    ASSUME ClientInv, SpentIssued, Fresh, SpendsNothing,
           tokens' = tokens + 1, op' = NewSession, UNCHANGED <<store, flight, call>>
    PROVE  Fresh'
<1>1. NoReuse' /\ \A n \in SpentTokens' : n \in SpentTokens
  BY DEF Fresh, SpendsNothing
<1>2. /\ tokens \in Nat /\ store.refresh \in 0 .. tokens /\ flight.token \in 0 .. tokens
      /\ \A c \in Call : call[c].pair \in 0 .. tokens
  BY DEF ClientInv, AccessTypeOK, StoreInv, FlightInv, FlightRow, CallsInv, CallRow
<1>3. op'.pair = tokens + 1
  BY DEF NewSession, NoOp
<1>4. OpFresh'
  BY <1>1, <1>2, <1>3 DEF OpFresh, SpentIssued
<1>5. FlightFresh' /\ CallsFresh' /\ StoreFresh'
  BY <1>1 DEF Fresh, FlightFresh, CallsFresh, StoreFresh
<1> QED BY <1>1, <1>4, <1>5 DEF Fresh

LEMMA FreshStep ==
    ASSUME ClientInv, SpentIssued, Fresh,
           [SessionNext]_allVars, past' \notin {"crossed", "killed"}
    PROVE  Fresh'
<1>1. CASE \E h \in Handler : FlightArrives(h)
  BY <1>1, ArriveStep
<1> SUFFICES ASSUME ~(\E h \in Handler : FlightArrives(h))
             PROVE  Fresh'
  BY <1>1
<1>2. SpendsNothing
  BY OnlyArrivalsSpend
<1>3. ASSUME UNCHANGED <<store, flight, call>>,
             op'.at \in Keeping => op.at \in Keeping /\ op'.pair = op.pair
      PROVE  Fresh'
  BY <1>2, <1>3, QuietStep DEF StillStored, CallsQuiet
<1>4. ASSUME NEW c \in Call,
             \/ StartCall(c) \/ StartLogout(c) \/ Send(c) \/ Execute(c) \/ Answered(c)
             \/ Fails(c) \/ Refused(c) \/ RetryUnauthorized(c)
             \/ \E h \in Handler : LogoutArrives(c, h) \/ LogoutServed(c, h)
      PROVE  Fresh'
  <2>1. UNCHANGED <<store, flight>> /\ call[c].at \notin Storing \cup {"wait"}
    BY <1>4 DEF StartCall, StartLogout, Send, Execute, Answered, Fails, Refused,
                RetryUnauthorized, LogoutArrives, LogoutServed, NoCall, Storing, Keeping
  <2>2. op'.at \in Keeping => op.at \in Keeping /\ op'.pair = op.pair
    <3>1. CASE UNCHANGED op
      BY <3>1
    <3>2. CASE StartLogout(c)
      BY <3>2 DEF StartLogout, NoOp, Keeping
    <3>3. ASSUME NEW h \in Handler, op' = [op EXCEPT !.by = {h}]
          PROVE  op'.at = op.at /\ op'.pair = op.pair
      BY <3>3 DEF ClientInv, OpInv, OpRow
    <3> QED BY <1>4, <3>1, <3>2, <3>3
            DEF StartCall, Send, Execute, Answered, Fails, Refused, RetryUnauthorized,
                LogoutArrives, LogoutServed
  <2>3. CASE UNCHANGED call
    BY <1>3, <2>1, <2>2, <2>3
  <2>4. CASE \E r : SetCall(c, r) /\ r.at \notin Keeping
    BY <1>2, <2>1, <2>2, <2>4, OneCallQuiet, QuietStep DEF StillStored
  <2>5. ASSUME NEW at \in {"ready", "served", "answer"}, Move(c, at)
        PROVE  \E r : SetCall(c, r) /\ r.at \notin Keeping
    <3>1. [call[c] EXCEPT !.at = at].at = at
      BY DEF ClientInv, CallsInv, CallRow
    <3> QED BY <2>5, <3>1 DEF Move, Keeping
  <2>6. CASE Send(c) \/ Execute(c)
    <3>1. PICK n : \/ SetCall(c, [call[c] EXCEPT !.at = "sent", !.pair = 0, !.token = n])
                   \/ SetCall(c, [call[c] EXCEPT !.at = "answer", !.token = 0, !.ran = @ + 1])
      BY <2>6 DEF Send, Execute
    <3>2. /\ [call[c] EXCEPT !.at = "sent", !.pair = 0, !.token = n].at = "sent"
          /\ [call[c] EXCEPT !.at = "answer", !.token = 0, !.ran = @ + 1].at = "answer"
      BY DEF ClientInv, CallsInv, CallRow
    <3> QED BY <2>4, <3>1, <3>2 DEF Keeping
  <2>7. CASE Answered(c) \/ Fails(c) \/ Refused(c) \/ RetryUnauthorized(c)
    <3>1. NoCall.at \notin Keeping /\ [NoCall EXCEPT !.at = "drop"].at \notin Keeping
      BY DEF NoCall, Keeping
    <3> QED BY <2>4, <2>7, <3>1 DEF Answered, Fails, Refused, RetryUnauthorized, Throw
  <2> QED BY <1>4, <2>3, <2>4, <2>5, <2>6, <2>7
          DEF StartCall, StartLogout, LogoutArrives, LogoutServed
<1>5. ASSUME NEW c \in Call, Unauthorized(c)
      PROVE  Fresh'
  BY <1>2, <1>5, JoinStep
<1>6. ASSUME NEW c \in Call, \/ KeepAccess(c) \/ KeepRefresh(c)
                             \/ DropAccess(c) \/ DropRefresh(c)
      PROVE  Fresh'
  <2>1. /\ call \in [Call -> CallRow] /\ UNCHANGED <<flight, op>>
        /\ store \in [access : 0 .. tokens, refresh : 0 .. tokens]
    BY <1>6 DEF ClientInv, CallsInv, StoreInv, KeepAccess, KeepRefresh, DropAccess,
                DropRefresh
  <2>2. /\ \A x \in Call : x # c => call'[x] = call[x]
        /\ call[c].at \in Storing
        /\ call'[c].at \in Keeping => call[c].at \in Keeping /\ call'[c].pair = call[c].pair
    <3>1. CASE KeepAccess(c) \/ KeepRefresh(c)
      <4>1. call[c].at \in Keeping /\ call[c] \in CallRow
        BY <2>1, <3>1 DEF KeepAccess, KeepRefresh, Keeping
      <4>2. PICK r : /\ r.pair = call[c].pair /\ call' = [call EXCEPT ![c] = r]
        <5>1. \A at : [call[c] EXCEPT !.at = at].pair = call[c].pair
          BY <4>1 DEF CallRow
        <5>2. [call[c] EXCEPT !.at = "ready", !.retry = TRUE].pair = call[c].pair
          BY <4>1 DEF CallRow
        <5> QED BY <3>1, <5>1, <5>2 DEF KeepAccess, KeepRefresh, Move, SetCall
      <4> QED BY <2>1, <4>1, <4>2 DEF Storing
    <3>2. CASE DropAccess(c) \/ DropRefresh(c)
      <4>1. call[c].at \in Storing /\ call[c] \in CallRow
        BY <2>1, <3>2 DEF DropAccess, DropRefresh, Storing
      <4>2. PICK r : r.at \notin Keeping /\ call' = [call EXCEPT ![c] = r]
        <5>1. [call[c] EXCEPT !.at = "dropRefresh"].at = "dropRefresh"
          BY <4>1 DEF CallRow
        <5> QED BY <3>2, <5>1 DEF DropAccess, DropRefresh, Move, SetCall, NoCall, Keeping
      <4> QED BY <2>1, <4>1, <4>2
    <3> QED BY <1>6, <3>1, <3>2
  <2>3. CallsQuiet
    BY <2>2 DEF CallsQuiet, Storing, Keeping
  <2>4. CASE KeepAccess(c) \/ DropAccess(c)
    <3>1. store'.refresh = store.refresh /\ call'[c].at \in Storing
      BY <2>1, <2>4 DEF KeepAccess, DropAccess, Move, SetCall, CallRow, Keeping, Storing
    <3> QED BY <1>2, <2>1, <2>2, <2>3, <3>1, QuietStep DEF StillStored
  <2>5. CASE KeepRefresh(c)
    <3>1. store'.refresh = call[c].pair /\ call[c].at \in Keeping
      BY <2>1, <2>5 DEF KeepRefresh, Keeping
    <3>2. StoredFresh
      BY <2>1, <3>1 DEF StoredFresh, Fresh, CallsFresh, OpFresh
    <3> QED BY <1>2, <2>1, <2>3, <3>2, QuietStep
  <2>6. CASE DropRefresh(c)
    <3>1. store'.refresh = 0
      BY <2>1, <2>6 DEF DropRefresh
    <3>2. 0 \notin SpentTokens
      BY DEF SpentIssued, ClientInv, AccessTypeOK
    <3>3. StoredFresh
      BY <2>1, <3>1, <3>2 DEF StoredFresh, Fresh, OpFresh
    <3> QED BY <1>2, <2>1, <2>3, <3>3, QuietStep
  <2> QED BY <1>6, <2>4, <2>5, <2>6
<1>7. CASE FlightRead
  BY <1>2, <1>7, ReadStep
<1>8. ASSUME NEW h \in Handler, FlightServed(h)
      PROVE  Fresh'
  BY <1>2, <1>8, ServedStep
<1>9. CASE \/ FlightRefused \/ FlightAnswered \/ FlightFails
           \/ \E h \in Handler : FlightReused(h)
  <2>1. /\ Complete("drop", 0) \/ (flight.at = "answer" /\ Complete("keep", flight.token))
        /\ flight # NoFlight /\ UNCHANGED <<store, op>>
    BY <1>9 DEF FlightRefused, FlightAnswered, FlightFails, FlightReused, NoFlight
  <2> QED BY <1>2, <2>1, CompleteStep
<1>10. ASSUME tokens' = tokens + 1, op' = NewSession, UNCHANGED <<store, flight, call>>
       PROVE  Fresh'
  BY <1>2, <1>10, LoginStep
<1>11. ASSUME NEW u \in User, NEW d \in Device, SignUp(u, d)
       PROVE  Fresh'
  BY <1>10, <1>11 DEF SignUp, Bootstrap, RecoveryRedeem, CreateDevice
<1>12. ASSUME NEW h \in Handler, LoginServed(h)
       PROVE  Fresh'
  <2>1. CASE op' = NoOp
    <3>1. op'.at \notin Keeping
      BY <2>1 DEF NoOp, Keeping
    <3> QED BY <1>3, <1>12, <3>1 DEF LoginServed
  <2>2. CASE tokens' # tokens /\ op' = NewSession
    <3>1. tokens' = tokens + 1
      BY <1>12, <2>2 DEF LoginServed, EndLogin, UpdateDeviceRefreshHash, CreateDevice
    <3> QED BY <1>10, <1>12, <2>2, <3>1 DEF LoginServed
  <2> QED BY <1>12, <2>1, <2>2 DEF LoginServed
<1>13. CASE CompleteSession \/ ClearTokens
  <2>1. /\ store \in [access : 0 .. tokens, refresh : 0 .. tokens] /\ op \in OpRow
        /\ UNCHANGED <<flight, call>> /\ CallsQuiet
    BY <1>13 DEF ClientInv, StoreInv, OpInv, CompleteSession, ClearTokens, CallsQuiet
  <2>2. CASE \/ /\ op.at = "keep" /\ op' = [op EXCEPT !.at = "keepRefresh"]
                /\ store' = [store EXCEPT !.access = op.pair]
             \/ /\ op.at = "clear" /\ op' = [op EXCEPT !.at = "clearRefresh"]
                /\ store' = [store EXCEPT !.access = 0]
    <3>1. /\ store'.refresh = store.refresh
          /\ op'.at \in Keeping => op.at \in Keeping /\ op'.pair = op.pair
      BY <2>1, <2>2 DEF OpRow, Keeping
    <3> QED BY <1>2, <2>1, <3>1, QuietStep DEF StillStored
  <2>3. CASE /\ op' = NoOp
             /\ \/ op.at = "keepRefresh" /\ store' = [store EXCEPT !.refresh = op.pair]
                \/ store' = [store EXCEPT !.refresh = 0]
    <3>1. op'.at \notin Keeping
      BY <2>3 DEF NoOp, Keeping
    <3>2. store'.refresh \notin SpentTokens
      <4>1. 0 \notin SpentTokens
        BY DEF SpentIssued, ClientInv, AccessTypeOK
      <4>2. op.at = "keepRefresh" => op.pair \notin SpentTokens
        BY DEF Fresh, OpFresh, Keeping
      <4>3. store'.refresh = 0 \/ (op.at = "keepRefresh" /\ store'.refresh = op.pair)
        BY <2>1, <2>3
      <4> QED BY <4>1, <4>2, <4>3
    <3> QED BY <1>2, <2>1, <3>1, <3>2, QuietStep DEF StoredFresh
  <2> QED BY <1>13, <2>2, <2>3 DEF CompleteSession, ClearTokens
<1>14. CASE Wipe \/ LoginFails \/ \E h \in Handler, u \in User, d \in Device : StartLogin(h, u, d)
  <2>1. /\ \/ op' = NoOp \/ op' = [NoOp EXCEPT !.at = "clear"]
           \/ \E h \in Handler : op' = [NoOp EXCEPT !.at = "login", !.by = {h}]
        /\ UNCHANGED <<store, flight, call>>
    BY <1>14 DEF Wipe, LoginFails, StartLogin
  <2>2. \A h \in Handler : [NoOp EXCEPT !.at = "login", !.by = {h}].at = "login"
    BY DEF NoOp
  <2>3. NoOp.at = "none" /\ [NoOp EXCEPT !.at = "clear"].at = "clear"
    BY DEF NoOp
  <2>4. op'.at \notin Keeping
    BY <2>1, <2>2, <2>3 DEF Keeping
  <2> QED BY <1>3, <2>1, <2>4
<1>15. CASE \/ \E h \in Handler : GoesOn(h)
            \/ \E u \in User, d \in Device : RecoverElsewhere(u, d)
            \/ Unlock \/ Expires \/ UNCHANGED allVars
  BY <1>3, <1>15 DEF GoesOn, RecoverElsewhere, Unlock, Expires, allVars, clientVars
<1>16. ~Kill
  BY DEF Kill
<1> QED BY <1>4, <1>5, <1>6, <1>7, <1>8, <1>9, <1>11, <1>12, <1>13, <1>14, <1>15, <1>16
        DEF SessionNext, CallGoesOn, FlightGoesOn, OpGoesOn

LEMMA FreshInvStep == ClientInv /\ FreshInv /\ [SessionNext]_allVars => FreshInv'
<1> SUFFICES ASSUME ClientInv, FreshInv, [SessionNext]_allVars PROVE FreshInv'
  OBVIOUS
<1>1. tokens \in Nat /\ tokens' \in Nat /\ tokens <= tokens'
  BY HoldersKept
<1>2. SpentIssued'
  <2>1. CASE SpendsNothing
    BY <1>1, <2>1 DEF SpendsNothing, FreshInv, SpentIssued
  <2>2. ASSUME NEW h \in Handler, FlightArrives(h)
        PROVE  SpentIssued'
    <3>1. flight.token \in 1 .. tokens
      BY <1>1, <2>2 DEF FlightArrives, ClientInv, FlightInv, FlightRow
    <3>2. \A n \in SpentTokens' : n \in SpentTokens \/ n = flight.token
      BY <2>2, ArrivalSpends
    <3>3. \A n \in SpentTokens' : n \in 1 .. tokens
      BY <3>1, <3>2 DEF FreshInv, SpentIssued
    <3>4. \A n \in 1 .. tokens : n \in 1 .. tokens'
      BY <1>1
    <3> QED BY <3>3, <3>4 DEF SpentIssued
  <2> QED BY <2>1, <2>2, OnlyArrivalsSpend
<1>3. ASSUME past' \notin {"crossed", "killed"}
      PROVE  Fresh'
  <2>1. past \notin {"crossed", "killed"}
    BY <1>3 DEF SessionNext, CallGoesOn, FlightGoesOn, OpGoesOn, StartCall, StartLogout,
              Send, Execute, Answered, Fails, Refused, Unauthorized, RetryUnauthorized, KeepAccess, KeepRefresh,
              DropAccess, DropRefresh, LogoutArrives, LogoutServed, FlightRead,
              FlightRefused, FlightAnswered, FlightFails, FlightArrives, FlightServed,
              FlightReused, CompleteSession, Wipe, ClearTokens, LoginFails, LoginServed,
              StartLogin, SignUp, RecoverElsewhere, GoesOn, Unlock, Expires, Kill,
              Disturbed, allVars, clientVars
  <2> QED BY <1>3, <2>1, FreshStep DEF FreshInv
<1> QED BY <1>2, <1>3 DEF FreshInv

LEMMA FreshHolds == SessionSpec => []FreshInv
<1>1. SessionInit => FreshInv
  BY DEF SessionInit, Init, FreshInv, SpentIssued, SpentTokens, Fresh, NoReuse, FlightFresh,
         CallsFresh, StoreFresh, OpFresh, Idle, NoFlight, NoCall, NoOp, Keeping
<1>2. ClientInv /\ FreshInv /\ [SessionNext]_allVars => FreshInv'
  BY FreshInvStep
<1> QED BY <1>1, <1>2, ClientInvHolds, PTL DEF SessionSpec

(* Unless the app was killed or a 401 came while the storage was written,  *)
(* the device never presents a refresh token that was rotated away,        *)
(* whatever calls, refusals, answers, logins and logouts cross each other. *)
THEOREM NothingIsReplayed == SessionSpec => []NeverReplays
<1>1. FreshInv => NeverReplays
  BY DEF FreshInv, Fresh, NoReuse, NeverReplays
<1> QED BY <1>1, FreshHolds, PTL

-----------------------------------------------------------------------------
(* A session that nothing has disturbed goes on.                           *)

(* Nobody has an account yet.                                              *)
Unborn ==
    /\ tokens = 0 /\ DOMAIN device = {} /\ Accounts = {}
    /\ \A h \in Handler : req[h] = Idle
    /\ auth = "out" /\ op = NoOp /\ flight = NoFlight
    /\ \A c \in Call : call[c] = NoCall

(* The device is the only one, and signed in.                              *)
OnlyDevice(d) ==
    /\ DOMAIN device = {d} /\ device[d].token = tokens /\ Authenticated(d)
    /\ tokens # 0 /\ \A n \in 1 .. tokens : holder[n] = d

(* All that the server does is this device's refresh.                      *)
RefreshOnly(d) ==
    \A h \in Handler : req[h] # Idle =>
        req[h].op = "refresh" /\ req[h].id = d /\ flight.by = {h}

OpCalm ==
    \/ op = NoOp /\ auth = "ready"
    \/ /\ op.at \in Keeping /\ op.pair = tokens /\ auth = "out"
       /\ flight = NoFlight /\ \A c \in Call : call[c] = NoCall

FlightCalm ==
    /\ flight.at \in {"sent", "answer"} => flight.token = tokens
    /\ flight.at = "answer" => tokens > expired
    /\ flight.at # "served" => flight.by = {}

(* The refresh token that is stored is the last one, or soon will be.      *)
StoreCalm ==
    op = NoOp =>
        \/ store.refresh = tokens
        \/ flight.at = "answer"
        \/ \E c \in Call : call[c].at \in Keeping

(* A retry has a token that is accepted.                                   *)
CallCalm(c) ==
    /\ call[c].at \notin {"served", "drop", "dropRefresh"}
    /\ call[c].at \in Keeping =>
        call[c].pair = tokens /\ tokens > expired /\ flight = NoFlight
    /\ (call[c].at = "keepRefresh" \/ (call[c].retry /\ call[c].at = "ready")) =>
        store.access > expired
    /\ call[c].retry /\ call[c].at = "sent" => call[c].token > expired

Settled(d) ==
    /\ OnlyDevice(d) /\ RefreshOnly(d) /\ OpCalm /\ FlightCalm /\ StoreCalm
    /\ \A c \in Call : CallCalm(c)

CalmInv == past = "calm" => Unborn \/ \E d \in Device : Settled(d)

(* The server does nothing.                                                *)
LEMMA ServerRests ==
    ASSUME NEW d \in Device, Settled(d), UNCHANGED <<vars, holder>>, UNCHANGED flight
    PROVE  OnlyDevice(d)' /\ RefreshOnly(d)'
BY DEF Settled, OnlyDevice, RefreshOnly, vars, Authenticated, ActiveDevices

(* One call moves, and the storage and the refresh are as they were.       *)
LEMMA CallMovesCalmly ==
    ASSUME ClientInv, NEW d \in Device, Settled(d), auth = "ready",
           NEW c \in Call, NEW r, SetCall(c, r), call[c].at \notin Keeping,
           r.at \notin Keeping \cup {"served", "drop", "dropRefresh"},
           r.retry /\ r.at = "ready" => store.access > expired,
           r.retry /\ r.at = "sent" => r.token > expired,
           UNCHANGED <<vars, holder, expired, store, flight, auth, op>>
    PROVE  Settled(d)'
<1>1. /\ \A x \in Call : call'[x] = IF x = c THEN r ELSE call[x]
      /\ tokens' = tokens
  BY DEF ClientInv, CallsInv, SetCall, vars
<1>2. OnlyDevice(d)' /\ RefreshOnly(d)'
  BY ServerRests
<1>3. OpCalm' /\ FlightCalm'
  BY <1>1 DEF Settled, OpCalm, FlightCalm
<1>4. StoreCalm'
  BY <1>1 DEF Settled, StoreCalm
<1>5. \A x \in Call : CallCalm(x)'
  <2> SUFFICES ASSUME NEW x \in Call PROVE CallCalm(x)'
    OBVIOUS
  <2>1. CASE x = c
    BY <1>1, <2>1 DEF CallCalm, Keeping
  <2>2. CASE x # c
    <3>1. CallCalm(x)
      BY DEF Settled
    <3> QED BY <1>1, <2>2, <3>1 DEF CallCalm
  <2> QED BY <2>1, <2>2
<1> QED BY <1>2, <1>3, <1>4, <1>5 DEF Settled

(* The retry of a call is not turned away.                                 *)
LEMMA RetryIsValid ==
    ASSUME ClientInv, NEW d \in Device, Settled(d),
           NEW c \in Call, call[c].retry, call[c].at = "sent"
    PROVE  Valid(call[c].token)
<1>1. call[c].token > expired /\ call[c].token \in 0 .. tokens /\ expired \in 0 .. tokens
  BY DEF Settled, CallCalm, ClientInv, CallsInv, CallRow, StoreInv
<1>2. tokens \in Nat
  BY DEF ClientInv, AccessTypeOK
<1>3. call[c].token \in 1 .. tokens
  BY <1>1, <1>2
<1> QED BY <1>1, <1>3 DEF Valid, Settled, OnlyDevice

LEMMA JoinCalmly ==
    ASSUME ClientInv, NEW d \in Device, Settled(d), auth = "ready", past' = "calm",
           NEW c \in Call, Unauthorized(c)
    PROVE  Settled(d)'
<1>1. ~Writing
  BY DEF Unauthorized
<1>2. /\ call' = [call EXCEPT ![c] = [call[c] EXCEPT !.at = "wait", !.token = 0]]
      /\ flight' = SharedFlight
  BY DEF Unauthorized, SetCall
<1>3. \A x \in Call : call[x].at \notin Keeping
  BY <1>1 DEF Writing, Keeping
<1>4. /\ \A x \in Call : x # c => call'[x] = call[x]
      /\ call'[c].at = "wait" /\ tokens' = tokens
  BY <1>2 DEF ClientInv, CallsInv, CallRow, Unauthorized, vars
<1>5. UNCHANGED <<vars, holder, expired, store, auth, op>>
  BY DEF Unauthorized
<1>6. /\ flight' = flight \/ (flight = NoFlight /\ flight'.at = "read")
      /\ flight'.by = flight.by
  BY <1>2 DEF SharedFlight, NoFlight
<1>7. OnlyDevice(d)' /\ RefreshOnly(d)'
  BY <1>5, <1>6 DEF Settled, OnlyDevice, RefreshOnly, vars, Authenticated, ActiveDevices
<1>8. op = NoOp
  BY DEF Settled, OpCalm
<1>9. OpCalm' /\ FlightCalm'
  BY <1>4, <1>5, <1>6, <1>8 DEF Settled, OpCalm, FlightCalm, NoFlight
<1>10. StoreCalm'
  BY <1>3, <1>4, <1>5, <1>6 DEF Settled, StoreCalm, NoFlight
<1>11. \A x \in Call : CallCalm(x)'
  <2> SUFFICES ASSUME NEW x \in Call PROVE CallCalm(x)'
    OBVIOUS
  <2>1. CASE x = c
    BY <1>4, <2>1 DEF CallCalm, Keeping
  <2>2. CASE x # c
    <3>1. CallCalm(x)
      BY DEF Settled
    <3> QED BY <1>3, <1>4, <1>5, <2>2, <3>1 DEF CallCalm
  <2> QED BY <2>1, <2>2
<1> QED BY <1>7, <1>9, <1>10, <1>11 DEF Settled

LEMMA KeepCalmly ==
    ASSUME ClientInv, NEW d \in Device, Settled(d),
           NEW c \in Call, KeepAccess(c) \/ KeepRefresh(c)
    PROVE  Settled(d)'
<1>1. /\ call \in [Call -> CallRow] /\ store \in [access : 0 .. tokens, refresh : 0 .. tokens]
      /\ UNCHANGED <<vars, holder, expired, flight, auth, op>> /\ tokens' = tokens
  BY DEF ClientInv, CallsInv, StoreInv, KeepAccess, KeepRefresh, vars
<1>2. call[c].at \in Keeping /\ CallCalm(c)
  BY DEF KeepAccess, KeepRefresh, Keeping, Settled
<1>3. call[c].pair = tokens /\ tokens > expired /\ flight = NoFlight
  BY <1>2 DEF CallCalm
<1>4. op = NoOp /\ auth = "ready"
  BY <1>2 DEF Settled, OpCalm, NoCall, Keeping
<1>5. OnlyDevice(d)' /\ RefreshOnly(d)' /\ OpCalm' /\ FlightCalm'
  BY <1>1, <1>4, ServerRests DEF Settled, OpCalm, FlightCalm
<1>6. CASE KeepAccess(c)
  <2>1. /\ \A x \in Call : x # c => call'[x] = call[x]
        /\ call'[c].at = "keepRefresh" /\ call'[c].pair = call[c].pair
        /\ store'.access = tokens /\ store'.refresh = store.refresh
    BY <1>1, <1>3, <1>6 DEF KeepAccess, Move, SetCall, CallRow
  <2>2. StoreCalm'
    BY <1>1, <2>1 DEF StoreCalm, Keeping
  <2>3. \A x \in Call : CallCalm(x)'
    <3> SUFFICES ASSUME NEW x \in Call PROVE CallCalm(x)'
      OBVIOUS
    <3>1. CallCalm(x)
      BY DEF Settled
    <3>2. CASE x = c
      BY <1>1, <1>3, <2>1, <3>2 DEF CallCalm
    <3>3. CASE x # c
      BY <1>1, <1>3, <2>1, <3>1, <3>3 DEF CallCalm
    <3> QED BY <3>2, <3>3
  <2> QED BY <1>5, <2>2, <2>3 DEF Settled
<1>7. CASE KeepRefresh(c)
  <2>1. /\ \A x \in Call : x # c => call'[x] = call[x]
        /\ call'[c].at = "ready"
        /\ store'.access = store.access /\ store'.refresh = tokens
    BY <1>1, <1>3, <1>7 DEF KeepRefresh, SetCall, CallRow
  <2>2. StoreCalm'
    BY <1>1, <2>1 DEF StoreCalm
  <2>3. store.access > expired
    BY <1>2, <1>7 DEF KeepRefresh, CallCalm
  <2>4. \A x \in Call : CallCalm(x)'
    <3> SUFFICES ASSUME NEW x \in Call PROVE CallCalm(x)'
      OBVIOUS
    <3>1. CallCalm(x)
      BY DEF Settled
    <3>2. CASE x = c
      BY <1>1, <2>1, <2>3, <3>2 DEF CallCalm, Keeping
    <3>3. CASE x # c
      BY <1>1, <2>1, <3>1, <3>3 DEF CallCalm
    <3> QED BY <3>2, <3>3
  <2> QED BY <1>5, <2>2, <2>4 DEF Settled
<1> QED BY <1>6, <1>7

(* The refresh: its token is the device's, so it is served, and what comes *)
(* back is what the calls that wait then store.                            *)
LEMMA ReadCalmly ==
    ASSUME ClientInv, NEW d \in Device, Settled(d), FlightRead
    PROVE  Settled(d)'
<1>1. op = NoOp /\ \A x \in Call : call[x].at \notin Keeping
  BY DEF FlightRead, NoFlight, Settled, OpCalm, CallCalm
<1>2. store.refresh = tokens /\ tokens # 0
  BY <1>1 DEF Settled, StoreCalm, OnlyDevice, FlightRead
<1>3. /\ flight' = [flight EXCEPT !.at = "sent", !.token = tokens]
      /\ UNCHANGED <<vars, holder, expired, store, call, auth, op>> /\ tokens' = tokens
  BY <1>2 DEF FlightRead, vars
<1>4. flight'.at = "sent" /\ flight'.token = tokens /\ flight'.by = flight.by
  BY <1>3 DEF ClientInv, FlightInv, FlightRow
<1>5. OnlyDevice(d)' /\ RefreshOnly(d)'
  BY <1>3, <1>4 DEF Settled, OnlyDevice, RefreshOnly, vars, Authenticated, ActiveDevices
<1>6. OpCalm' /\ FlightCalm' /\ StoreCalm'
  BY <1>1, <1>2, <1>3, <1>4
     DEF Settled, OpCalm, FlightCalm, StoreCalm, FlightRead, NoOp, Keeping
<1>7. \A x \in Call : CallCalm(x)'
  BY <1>1, <1>3 DEF Settled, CallCalm
<1> QED BY <1>5, <1>6, <1>7 DEF Settled

LEMMA ArriveCalmly ==
    ASSUME ClientInv, NEW d \in Device, Settled(d), NEW h \in Handler, FlightArrives(h)
    PROVE  Settled(d)'
<1>1. op = NoOp /\ auth = "ready" /\ \A x \in Call : call[x].at \notin Keeping
  BY DEF FlightArrives, NoFlight, Settled, OpCalm, CallCalm
<1>2. flight.token = tokens /\ Holders(tokens) = {d} /\ flight.by = {}
  BY DEF Settled, FlightCalm, OnlyDevice, FlightArrives, Holders
<1>3. /\ req' = [req EXCEPT ![h] = [op |-> "refresh", id |-> d,
                                    user |-> device[d].user, hash |-> tokens]]
      /\ UNCHANGED <<account, device, retired, tokens, invite>>
  BY <1>2 DEF FlightArrives, BeginRefresh, BeginReuse, Begin
<1>4. /\ UNCHANGED <<holder, expired, store, call, auth, op>>
      /\ flight'.at = "served" /\ flight'.by = {h}
  BY DEF FlightArrives, ClientInv, FlightInv, FlightRow
<1>5. \A g \in Handler : req[g] = Idle
  BY <1>2 DEF Settled, RefreshOnly
<1>6. RefreshOnly(d)'
  <2>1. \A g \in Handler : g # h => req'[g] = Idle
    BY <1>3, <1>5 DEF ClientInv, AccessTypeOK
  <2>2. req'[h].op = "refresh" /\ req'[h].id = d
    BY <1>3 DEF ClientInv, AccessTypeOK
  <2> QED BY <1>4, <2>1, <2>2 DEF RefreshOnly
<1>7. OnlyDevice(d)'
  <2>1. UNCHANGED <<account, device, tokens, holder>>
    BY <1>3, <1>4
  <2> QED BY <2>1 DEF Settled, OnlyDevice, Authenticated, ActiveDevices
<1>8. OpCalm' /\ FlightCalm'
  BY <1>1, <1>4 DEF OpCalm, FlightCalm
<1>9. StoreCalm'
  BY <1>3, <1>4 DEF Settled, StoreCalm, FlightArrives
<1>10. \A x \in Call : CallCalm(x)'
  BY <1>1, <1>3, <1>4 DEF Settled, CallCalm
<1> QED BY <1>6, <1>7, <1>8, <1>9, <1>10 DEF Settled

LEMMA ServeCalmly ==
    ASSUME ClientInv, NEW d \in Device, Settled(d), NEW h \in Handler, FlightServed(h)
    PROVE  Settled(d)'
<1>1. op = NoOp /\ \A x \in Call : call[x].at \notin Keeping
  BY DEF FlightServed, NoFlight, Settled, OpCalm, CallCalm
<1>2. req[h].op = "refresh" /\ req[h].id = d /\ flight.by = {h}
  <2>1. req[h] # Idle
    BY DEF FlightServed, EndRefresh, End, Idle
  <2> QED BY <2>1 DEF Settled, RefreshOnly
<1>3. /\ tokens' = tokens + 1 /\ device' = [device EXCEPT ![d].token = tokens + 1]
      /\ req' = [req EXCEPT ![h] = Idle] /\ UNCHANGED account
  BY <1>2 DEF FlightServed, EndRefresh, End, UpdateDeviceRefreshHash
<1>4. tokens \in Nat /\ expired \in 0 .. tokens /\ holder \in Seq(Device) /\ Len(holder) = tokens
  BY DEF ClientInv, AccessTypeOK, StoreInv, HolderInv
<1>5. holder' = Append(holder, d)
  BY <1>2, <1>3, <1>4 DEF FlightServed, IssuedTo
<1>6. /\ UNCHANGED <<expired, store, call, auth, op>>
      /\ flight'.at = "answer" /\ flight'.by = {} /\ flight'.token = tokens'
  BY DEF FlightServed, ClientInv, FlightInv, FlightRow
<1>7. OnlyDevice(d)'
  <2>1. DOMAIN device = {d} /\ device[d] \in DeviceRow
    BY DEF Settled, OnlyDevice, ClientInv, AccessTypeOK
  <2>2. /\ DOMAIN device' = {d} /\ device'[d].token = tokens'
        /\ device'[d].user = device[d].user /\ device'[d].revoked = device[d].revoked
    BY <1>3, <2>1 DEF DeviceRow
  <2>3. Authenticated(d)'
    BY <1>3, <2>1, <2>2 DEF Settled, OnlyDevice, Authenticated, ActiveDevices
  <2>4. \A n \in 1 .. tokens' : holder'[n] = d
    <3> SUFFICES ASSUME NEW n \in 1 .. tokens' PROVE holder'[n] = d
      OBVIOUS
    <3>1. CASE n = tokens + 1
      BY <1>4, <1>5, <3>1
    <3>2. CASE n # tokens + 1
      <4>1. n \in 1 .. tokens
        BY <1>3, <1>4, <3>2
      <4>2. holder[n] = d
        BY <4>1 DEF Settled, OnlyDevice
      <4> QED BY <1>4, <1>5, <4>1, <4>2
    <3> QED BY <3>1, <3>2
  <2> QED BY <1>3, <1>4, <2>2, <2>3, <2>4 DEF OnlyDevice
<1>8. RefreshOnly(d)'
  <2>1. \A g \in Handler : req'[g] = Idle
    <3> SUFFICES ASSUME NEW g \in Handler PROVE req'[g] = Idle
      OBVIOUS
    <3>1. CASE g = h
      BY <1>3, <3>1 DEF ClientInv, AccessTypeOK
    <3>2. CASE g # h
      <4>1. req[g] = Idle
        BY <1>2, <3>2 DEF Settled, RefreshOnly
      <4> QED BY <1>3, <3>2, <4>1 DEF ClientInv, AccessTypeOK
    <3> QED BY <3>1, <3>2
  <2> QED BY <2>1 DEF RefreshOnly
<1>9. OpCalm' /\ FlightCalm' /\ StoreCalm'
  BY <1>1, <1>3, <1>4, <1>6 DEF Settled, OpCalm, FlightCalm, StoreCalm, NoOp, Keeping
<1>10. \A x \in Call : CallCalm(x)'
  BY <1>1, <1>6 DEF Settled, CallCalm
<1> QED BY <1>7, <1>8, <1>9, <1>10 DEF Settled

LEMMA AnswerCalmly ==
    ASSUME ClientInv, Fresh, NEW d \in Device, Settled(d), FlightAnswered
    PROVE  Settled(d)'
<1>1. op = NoOp /\ \A x \in Call : call[x].at \notin Keeping
  BY DEF FlightAnswered, NoFlight, Settled, OpCalm, CallCalm
<1>2. flight.token = tokens /\ tokens > expired /\ flight.by = {}
  BY DEF Settled, FlightCalm, FlightAnswered
<1>3. /\ UNCHANGED <<vars, holder, expired, store, auth, op>> /\ tokens' = tokens
      /\ flight' = NoFlight
      /\ call' = [c \in Call |-> IF call[c].at = "wait"
                                 THEN [call[c] EXCEPT !.at = "keep", !.pair = tokens]
                                 ELSE call[c]]
  BY <1>2 DEF FlightAnswered, Complete, vars
<1>4. /\ \A x \in Call : call[x].at # "wait" => call'[x] = call[x]
      /\ \A x \in Call : call[x].at = "wait" => call'[x].at = "keep" /\ call'[x].pair = tokens
  BY <1>3 DEF ClientInv, CallsInv, CallRow
<1>5. OnlyDevice(d)' /\ RefreshOnly(d)'
  BY <1>2, <1>3 DEF Settled, OnlyDevice, RefreshOnly, vars, Authenticated, ActiveDevices
<1>6. OpCalm' /\ FlightCalm'
  BY <1>1, <1>3 DEF Settled, OpCalm, FlightCalm, NoFlight, NoOp, Keeping
<1>7. StoreCalm'
  <2>1. PICK x \in Call : call[x].at = "wait"
    BY DEF Fresh, FlightFresh, FlightAnswered, NoFlight
  <2> QED BY <1>4, <2>1 DEF StoreCalm, Keeping
<1>8. \A x \in Call : CallCalm(x)'
  <2> SUFFICES ASSUME NEW x \in Call PROVE CallCalm(x)'
    OBVIOUS
  <2>1. CASE call[x].at = "wait"
    BY <1>2, <1>3, <1>4, <2>1 DEF CallCalm
  <2>2. CASE call[x].at # "wait"
    <3>1. CallCalm(x)
      BY DEF Settled
    <3> QED BY <1>1, <1>3, <1>4, <2>2, <3>1 DEF CallCalm
  <2> QED BY <2>1, <2>2
<1> QED BY <1>5, <1>6, <1>7, <1>8 DEF Settled

(* The pair of the sign-up is stored before anything is called.            *)
LEMMA CompleteCalmly ==
    ASSUME ClientInv, NEW d \in Device, Settled(d), CompleteSession
    PROVE  Settled(d)'
<1>1. /\ UNCHANGED <<vars, holder, expired, flight, call>> /\ tokens' = tokens
      /\ op \in OpRow /\ store \in [access : 0 .. tokens, refresh : 0 .. tokens]
  BY DEF CompleteSession, vars, ClientInv, OpInv, StoreInv
<1>2. /\ op.pair = tokens /\ auth = "out" /\ flight = NoFlight
      /\ \A c \in Call : call[c] = NoCall
  BY DEF Settled, OpCalm, CompleteSession, NoOp
<1>3. OnlyDevice(d)' /\ RefreshOnly(d)'
  BY <1>1, ServerRests
<1>4. FlightCalm' /\ \A x \in Call : CallCalm(x)'
  BY <1>1, <1>2 DEF Settled, FlightCalm, CallCalm, NoCall, Keeping
<1>5. CASE op.at = "keep" /\ op' = [op EXCEPT !.at = "keepRefresh"] /\ UNCHANGED auth
  <2>1. op'.at = "keepRefresh" /\ op'.pair = tokens
    BY <1>1, <1>2, <1>5 DEF OpRow
  <2>2. OpCalm' /\ StoreCalm'
    BY <1>1, <1>2, <1>5, <2>1 DEF OpCalm, StoreCalm, NoOp, Keeping
  <2> QED BY <1>3, <1>4, <2>2 DEF Settled
<1>6. CASE op' = NoOp /\ auth' = "ready" /\ store' = [store EXCEPT !.refresh = op.pair]
  <2>1. store'.refresh = tokens
    BY <1>1, <1>2, <1>6
  <2>2. OpCalm' /\ StoreCalm'
    BY <1>1, <1>6, <2>1 DEF OpCalm, StoreCalm
  <2> QED BY <1>3, <1>4, <2>2 DEF Settled
<1> QED BY <1>5, <1>6 DEF CompleteSession

LEMMA ExpireCalmly ==
    ASSUME ClientInv, NEW d \in Device, Settled(d), Expires
    PROVE  Settled(d)'
<1>1. /\ UNCHANGED <<vars, holder, store, flight, call, auth, op>> /\ tokens' = tokens
      /\ flight = NoFlight
      /\ \A x \in Call : call[x].at \notin Keeping /\ ~call[x].retry
  BY DEF Expires, Writing, Keeping, vars
<1>2. OnlyDevice(d)' /\ RefreshOnly(d)'
  BY <1>1, ServerRests
<1>3. OpCalm' /\ FlightCalm' /\ StoreCalm'
  BY <1>1 DEF Settled, OpCalm, FlightCalm, StoreCalm, NoFlight
<1>4. \A x \in Call : CallCalm(x)'
  BY <1>1 DEF Settled, CallCalm, Keeping
<1> QED BY <1>2, <1>3, <1>4 DEF Settled

(* The first account is made, and with it the device.                      *)
LEMMA BornCalmly ==
    ASSUME ClientInv, Unborn, NEW u \in User, NEW d \in Device, SignUp(u, d)
    PROVE  Settled(d)'
<1>1. CreateDevice(d, u, device) /\ account' = [account EXCEPT ![u] = "active"] /\ UNCHANGED req
  BY DEF Unborn, SignUp, Bootstrap, RecoveryRedeem
<1>2. /\ IssuedTo(d) /\ op' = NewSession
      /\ UNCHANGED <<expired, store, flight, call, auth>>
  BY DEF SignUp
<1>3. /\ tokens = 0 /\ DOMAIN device = {} /\ auth = "out" /\ flight = NoFlight
      /\ \A h \in Handler : req[h] = Idle
      /\ \A c \in Call : call[c] = NoCall
  BY DEF Unborn
<1>4. tokens' = 1 /\ device' = [x \in {d} |-> [user |-> u, token |-> 1, revoked |-> FALSE]]
  BY <1>1, <1>3 DEF CreateDevice
<1>5. holder' = Append(holder, d) /\ holder \in Seq(Device) /\ Len(holder) = 0
  BY <1>2, <1>3, <1>4 DEF IssuedTo, ClientInv, HolderInv
<1>6. OnlyDevice(d)'
  <2>1. DOMAIN device' = {d} /\ device'[d] = [user |-> u, token |-> 1, revoked |-> FALSE]
    BY <1>4
  <2>2. Authenticated(d)'
    BY <1>1, <2>1 DEF Authenticated, ActiveDevices, ClientInv, AccessTypeOK
  <2>3. \A n \in 1 .. tokens' : holder'[n] = d
    BY <1>4, <1>5
  <2> QED BY <1>4, <2>1, <2>2, <2>3 DEF OnlyDevice
<1>7. op'.at = "keep" /\ op'.pair = tokens'
  BY <1>2 DEF NewSession, NoOp
<1>8. RefreshOnly(d)' /\ OpCalm' /\ FlightCalm' /\ StoreCalm'
  BY <1>1, <1>2, <1>3, <1>7
     DEF RefreshOnly, OpCalm, FlightCalm, StoreCalm, NoFlight, NoOp, Keeping
<1>9. \A x \in Call : CallCalm(x)'
  BY <1>2, <1>3 DEF CallCalm, NoCall, Keeping
<1> QED BY <1>6, <1>8, <1>9 DEF Settled

(* Before that nothing happens.                                            *)
LEMMA UnbornStep ==
    ASSUME ClientInv, Unborn, [SessionNext]_allVars, past' = "calm"
    PROVE  Unborn' \/ \E d \in Device : Settled(d)'
<1>1. CASE \E u \in User, d \in Device : SignUp(u, d)
  BY <1>1, BornCalmly
<1>2. CASE UNCHANGED allVars
  BY <1>2 DEF Unborn, Accounts, allVars, vars, clientVars
<1>3. ASSUME NEW c \in Call
      PROVE  ~StartCall(c) /\ ~CallGoesOn(c) /\ ~StartLogout(c)
  BY <1>3 DEF Unborn, NoCall, StartCall, CallGoesOn, StartLogout, Send, Execute, Answered,
              Fails, Refused, Unauthorized, RetryUnauthorized, KeepAccess, KeepRefresh, DropAccess, DropRefresh,
              LogoutArrives, LogoutServed
<1>4. ~FlightGoesOn
  BY DEF Unborn, NoFlight, FlightGoesOn, FlightRead, FlightRefused, FlightAnswered,
         FlightFails, FlightArrives, FlightServed, FlightReused
<1>5. ~OpGoesOn /\ ~Unlock /\ ~Expires /\ ~Kill
  <2>1. expired \in 0 .. tokens
    BY DEF ClientInv, StoreInv
  <2> QED BY <2>1 DEF Unborn, NoOp, OpGoesOn, CompleteSession, Wipe, ClearTokens,
                      LoginFails, LoginServed, Unlock, Expires, Kill
<1>6. ASSUME NEW h \in Handler
      PROVE  ~GoesOn(h)
  BY <1>6 DEF Unborn, Idle, GoesOn, EndLogin, EndRefresh, EndReuse, EndLogout, End, GiveUp
<1>7. ASSUME NEW h \in Handler, NEW u \in User, NEW d \in Device
      PROVE  ~StartLogin(h, u, d)
  BY <1>7 DEF Unborn, Accounts, StartLogin, BeginLogin
<1>8. ASSUME NEW u \in User, NEW d \in Device
      PROVE  ~RecoverElsewhere(u, d)
  BY <1>8 DEF Unborn, Accounts, RecoverElsewhere, RecoveryRedeem
<1> QED BY <1>1, <1>2, <1>3, <1>4, <1>5, <1>6, <1>7, <1>8 DEF SessionNext

(* After it only what does not disturb it.                                 *)
LEMMA SettledStep ==
    ASSUME ClientInv, Fresh, NEW d \in Device, Settled(d),
           [SessionNext]_allVars, past' = "calm"
    PROVE  Settled(d)'
<1>1. /\ auth \in {"ready", "out"} /\ (op = NoOp => auth = "ready")
      /\ op.at \in {"none", "keep", "keepRefresh"}
      /\ call \in [Call -> CallRow] /\ op.call = {}
  <2>1. op.at \in {"none", "keep", "keepRefresh"}
    BY DEF Settled, OpCalm, NoOp, Keeping
  <2>2. \A c \in op.call : op.at = "logout"
    BY DEF ClientInv, OpInv
  <2>3. op.call = {}
    BY <2>1, <2>2
  <2>4. auth \in {"ready", "out"} /\ (op = NoOp => auth = "ready")
    BY DEF Settled, OpCalm, NoOp, Keeping
  <2> QED BY <2>1, <2>3, <2>4 DEF ClientInv, CallsInv
<1>2. \A c \in Call : call[c].at \notin {"served", "drop", "dropRefresh"}
  BY DEF Settled, CallCalm
<1>3. ASSUME NEW c \in Call, call[c] # NoCall
      PROVE  auth = "ready"
  BY <1>3 DEF Settled, OpCalm
<1>4. ASSUME NEW c \in Call, StartCall(c)
      PROVE  Settled(d)'
  <2>1. SetCall(c, [NoCall EXCEPT !.at = "ready"]) /\ auth = "ready" /\ call[c] = NoCall
    BY <1>4 DEF StartCall, Move
  <2>2. /\ [NoCall EXCEPT !.at = "ready"].at = "ready"
        /\ [NoCall EXCEPT !.at = "ready"].retry = FALSE
        /\ NoCall.at = "none"
    BY DEF NoCall
  <2>3. UNCHANGED <<vars, holder, expired, store, flight, auth, op>>
    BY <1>4 DEF StartCall
  <2> QED BY <2>1, <2>2, <2>3, CallMovesCalmly DEF Keeping
<1>5. ASSUME NEW c \in Call, Send(c)
      PROVE  Settled(d)'
  <2>1. auth = "ready" /\ call[c].at = "ready" /\ call[c] \in CallRow
    BY <1>1, <1>3, <1>5 DEF Send, NoCall
  <2>2. PICK r : /\ SetCall(c, r) /\ r.at = "sent" /\ r.retry = call[c].retry
                 /\ r.token = IF store.access # 0 THEN store.access ELSE call[c].pair
    <3> DEFINE r == [call[c] EXCEPT !.at = "sent", !.pair = 0,
                       !.token = IF store.access # 0 THEN store.access ELSE call[c].pair]
    <3>1. /\ r.at = "sent" /\ r.retry = call[c].retry
          /\ r.token = IF store.access # 0 THEN store.access ELSE call[c].pair
      BY <2>1 DEF CallRow
    <3>2. SetCall(c, r)
      BY <1>5 DEF Send
    <3> QED BY <3>1, <3>2
  <2>3. r.retry => r.token > expired
    <3>1. call[c].retry => store.access > expired
      BY <2>1 DEF Settled, CallCalm
    <3>2. expired \in Nat
      BY DEF ClientInv, StoreInv, AccessTypeOK
    <3> QED BY <2>2, <3>1, <3>2
  <2>4. UNCHANGED <<vars, holder, expired, store, flight, auth, op>>
    BY <1>5 DEF Send
  <2> QED BY <2>1, <2>2, <2>3, <2>4, CallMovesCalmly DEF Keeping
<1>6. ASSUME NEW c \in Call, Execute(c) \/ Answered(c) \/ Refused(c)
      PROVE  Settled(d)'
  <2>1. auth = "ready" /\ call[c].at \in {"sent", "answer"} /\ call[c] \in CallRow
    BY <1>1, <1>3, <1>6 DEF Execute, Answered, Refused, NoCall
  <2>2. PICK r : SetCall(c, r) /\ r.at \in {"answer", "none"}
    <3>1. NoCall.at = "none"
      BY DEF NoCall
    <3>2. [call[c] EXCEPT !.at = "answer", !.token = 0, !.ran = @ + 1].at = "answer"
      BY <2>1 DEF CallRow
    <3>3. Refused(c) => SetCall(c, NoCall)
      <4>1. Refused(c) => ~(call[c].retry /\ past = "calm")
        BY DEF Refused
      <4> QED BY <4>1 DEF Refused, Throw
    <3> QED BY <1>6, <3>1, <3>2, <3>3 DEF Execute, Answered
  <2>3. UNCHANGED <<vars, holder, expired, store, flight, auth, op>>
    BY <1>6 DEF Execute, Answered, Refused
  <2> QED BY <2>1, <2>2, <2>3, CallMovesCalmly DEF Keeping
<1>7. ASSUME NEW c \in Call, Unauthorized(c)
      PROVE  Settled(d)'
  <2>1. auth = "ready"
    BY <1>3, <1>7 DEF Unauthorized, NoCall
  <2> QED BY <1>7, <2>1, JoinCalmly
<1>8. ASSUME NEW c \in Call, KeepAccess(c) \/ KeepRefresh(c)
      PROVE  Settled(d)'
  BY <1>8, KeepCalmly
<1>9. ASSUME NEW c \in Call
      PROVE  /\ ~DropAccess(c) /\ ~DropRefresh(c) /\ ~Fails(c) /\ ~StartLogout(c)
             /\ ~RetryUnauthorized(c)
             /\ \A h \in Handler : ~LogoutArrives(c, h) /\ ~LogoutServed(c, h)
  BY <1>1, <1>2, <1>9, RetryIsValid
     DEF DropAccess, DropRefresh, Fails, StartLogout, RetryUnauthorized, LogoutArrives,
         LogoutServed, Disturbed
<1>10. CASE FlightRead \/ FlightAnswered \/ CompleteSession \/ Expires
  BY <1>10, ReadCalmly, AnswerCalmly, CompleteCalmly, ExpireCalmly
<1>11. ASSUME NEW h \in Handler, FlightArrives(h) \/ FlightServed(h)
       PROVE  Settled(d)'
  BY <1>11, ArriveCalmly, ServeCalmly
<1>12. ~FlightRefused
  <2>1. d \in Holders(tokens) \cap ActiveDevices
    BY DEF Settled, OnlyDevice, Authenticated, ActiveDevices, Holders
  <2>2. FlightRefused => flight.token = tokens
    BY DEF FlightRefused, Settled, FlightCalm
  <2> QED BY <2>1, <2>2 DEF FlightRefused
<1>13. ASSUME NEW h \in Handler
       PROVE  ~FlightReused(h) /\ ~GoesOn(h) /\ ~LoginServed(h)
  <2>1. req[h] = Idle \/ (req[h].op = "refresh" /\ h \in flight.by)
    BY <1>13 DEF Settled, RefreshOnly
  <2> QED BY <1>1, <2>1 DEF FlightReused, GoesOn, LoginServed, EndLogin, EndRefresh,
                            EndReuse, EndLogout, End, GiveUp, Idle
<1>14. ~FlightFails /\ ~Kill /\ ~Wipe /\ ~ClearTokens /\ ~LoginFails /\ ~Unlock
  BY <1>1 DEF FlightFails, Kill, Wipe, ClearTokens, LoginFails, Unlock, Disturbed
<1>15. ASSUME NEW u \in User, NEW e \in Device
       PROVE  /\ ~SignUp(u, e) /\ ~RecoverElsewhere(u, e)
              /\ \A h \in Handler : ~StartLogin(h, u, e)
  BY <1>1, <1>15 DEF SignUp, RecoverElsewhere, StartLogin, Disturbed
<1>16. CASE UNCHANGED allVars
  <2>1. OnlyDevice(d)' /\ RefreshOnly(d)'
    BY <1>16, ServerRests DEF allVars, clientVars
  <2>2. UNCHANGED <<tokens, expired, store, flight, call, auth, op>>
    BY <1>16 DEF allVars, clientVars, vars
  <2>3. OpCalm' /\ FlightCalm' /\ StoreCalm' /\ \A c \in Call : CallCalm(c)'
    BY <2>2 DEF Settled, OpCalm, FlightCalm, StoreCalm, CallCalm
  <2> QED BY <2>1, <2>3 DEF Settled
<1> QED BY <1>4, <1>5, <1>6, <1>7, <1>8, <1>9, <1>10, <1>11, <1>12, <1>13, <1>14, <1>15,
           <1>16
        DEF SessionNext, CallGoesOn, FlightGoesOn, OpGoesOn

(* A session of which no repeated call was refused, no request lost and no *)
(* write of the storage crossed by a 401 goes on: no call ends it, however *)
(* often the access token expires, however many calls meet that at once,   *)
(* and however many calls are refused at their first attempt.              *)
THEOREM SessionGoesOn == SessionSpec => []SessionKept
<1>1. SessionInit => CalmInv
  BY DEF SessionInit, Init, CalmInv, Unborn, Accounts
<1>2. ASSUME ClientInv, FreshInv, CalmInv, [SessionNext]_allVars
      PROVE  CalmInv'
  <2> SUFFICES ASSUME past' = "calm"
               PROVE  Unborn' \/ \E d \in Device : Settled(d)'
    BY DEF CalmInv
  <2>1. past = "calm"
    BY <1>2 DEF SessionNext, CallGoesOn, FlightGoesOn, OpGoesOn, StartCall, StartLogout,
              Send, Execute, Answered, Fails, Refused, Unauthorized, RetryUnauthorized, KeepAccess, KeepRefresh,
              DropAccess, DropRefresh, LogoutArrives, LogoutServed, FlightRead,
              FlightRefused, FlightAnswered, FlightFails, FlightArrives, FlightServed,
              FlightReused, CompleteSession, Wipe, ClearTokens, LoginFails, LoginServed,
              StartLogin, SignUp, RecoverElsewhere, GoesOn, Unlock, Expires, Kill,
              Disturbed, allVars, clientVars
  <2>2. Fresh
    BY <1>2, <2>1 DEF FreshInv
  <2>3. CASE Unborn
    BY <1>2, <2>3, UnbornStep
  <2>4. ASSUME NEW d \in Device, Settled(d)
        PROVE  Settled(d)'
    BY <1>2, <2>2, <2>4, SettledStep
  <2> QED BY <1>2, <2>1, <2>3, <2>4 DEF CalmInv
<1>3. CalmInv => SessionKept
  BY DEF CalmInv, Unborn, Settled, CallCalm, NoCall, SessionKept
<1>4. SessionSpec => []FreshInv
  BY FreshHolds
<1> QED BY <1>1, <1>2, <1>3, <1>4, ClientInvHolds, PTL DEF SessionSpec
=============================================================================
