--------------------------- MODULE ClientSession ---------------------------
(***************************************************************************)
(* A device's session: the two tokens in its secure storage, the           *)
(* interceptor that refreshes them when a call is answered 401, and the    *)
(* session controller that logs in, locks and signs out, around the        *)
(* server's accounts and devices of FamilyAccess.                          *)
(*                                                                         *)
(* One action stands for the code between two awaits.  The storage is      *)
(* written one key at a time; calls, the refresh they share, and the       *)
(* user's operations interleave at every await; a request, or its answer,  *)
(* may be lost, and the app may be killed anywhere.                        *)
(*                                                                         *)
(* The pair of tokens that the server issues together has one number, that *)
(* of the refresh token in FamilyAccess.  0 stands for no token.           *)
(***************************************************************************)
EXTENDS FamilyAccess, Sequences

CONSTANT
    Call      \* calls of the app that may be under way at a time

VARIABLES
    holder,   \* holder[n]: the device that the pair n was issued to
    expired,  \* access tokens up to this number are past their 15 minutes
    store,    \* the stored access and refresh token
    flight,   \* _inFlightRefresh, and how far the server has got with it
    call,     \* call[c]: a call through the interceptor
    auth,     \* AuthState; "leaving" when logout has cleared the identity
    op,       \* the login or logout that is under way
    past      \* what has happened to the session, see Past (history)

clientVars == <<holder, expired, store, flight, call, auth, op, past>>
allVars == <<vars, clientVars>>

NoCall == [at |-> "none", token |-> 0, pair |-> 0, retry |-> FALSE, ran |-> 0]

NoFlight == [at |-> "none", token |-> 0, by |-> {}]

NoOp == [at |-> "none", call |-> {}, pair |-> 0, by |-> {}]

(* The gravest thing that has happened so far: nothing; a repeated call    *)
(* was refused; a request was lost, or the user signed out or recovered    *)
(* the account elsewhere; a 401 came while the storage was written; the    *)
(* app was killed.                                                         *)
Past == {"calm", "refused", "disturbed", "crossed", "killed"}

ClientTypeOK ==
    /\ AccessTypeOK
    /\ holder \in Seq(Device) /\ Len(holder) = tokens
    /\ expired \in 0 .. tokens
    /\ store \in [access : 0 .. tokens, refresh : 0 .. tokens]
    /\ flight \in [at : {"none", "read", "sent", "served", "answer"},
                   token : 0 .. tokens, by : SUBSET Handler]
    /\ call \in [Call -> [at : {"none", "ready", "sent", "served", "answer", "wait",
                                "keep", "keepRefresh", "drop", "dropRefresh"},
                          token : 0 .. tokens, pair : 0 .. tokens,
                          retry : BOOLEAN, ran : Nat]]
    /\ auth \in {"out", "ready", "unlock", "leaving"}
    /\ op \in [at : {"none", "login", "keep", "keepRefresh", "logout", "clear", "clearRefresh"},
               call : SUBSET Call, pair : 0 .. tokens, by : SUBSET Handler]
    /\ past \in Past

SessionInit ==
    /\ Init
    /\ holder = <<>>
    /\ expired = 0
    /\ store = [access |-> 0, refresh |-> 0]
    /\ flight = NoFlight
    /\ call = [c \in Call |-> NoCall]
    /\ auth = "out"
    /\ op = NoOp
    /\ past = "calm"

(* Mutant: a refused login counts as a session.                            *)
IssuedAnyway(d) == holder' = Append(holder, d)

(* If the server's step issues a pair, it is for device d.                 *)
IssuedTo(d) == holder' = IF tokens' = tokens THEN holder ELSE Append(holder, d)

(* RequireAuth accepts the access token n.                                 *)
Valid(n) == n > expired /\ Authenticated(holder[n])

(* A write of one key of the storage is due.                               *)
Writing ==
    \/ \E c \in Call : call[c].at \in {"keep", "keepRefresh", "drop", "dropRefresh"}
    \/ op.at \in {"keep", "keepRefresh", "clear", "clearRefresh"}

Disturbed == past' = IF past \in {"calm", "refused"} THEN "disturbed" ELSE past

SetCall(c, r) == call' = [call EXCEPT ![c] = r]

Move(c, at) == SetCall(c, [call[c] EXCEPT !.at = at])

(* The call is over for its caller; DioException of a retry is caught by   *)
(* the interceptor of the first attempt, which ends the session.           *)
Throw(c) == SetCall(c, IF call[c].retry THEN [NoCall EXCEPT !.at = "drop"] ELSE NoCall)
-----------------------------------------------------------------------------
(* Calls.                                                                  *)

(* A screen or the sync engine calls the server.                           *)
StartCall(c) ==
    /\ auth = "ready"
    /\ call[c] = NoCall /\ c \notin op.call
    /\ Move(c, "ready")
    /\ UNCHANGED <<vars, holder, expired, store, flight, auth, op, past>>

(* onRequest, also for a retry: the stored access token replaces the one   *)
(* the retry was given, if there is one.                                   *)
Send(c) ==
    /\ call[c].at = "ready"
    /\ SetCall(c, [call[c] EXCEPT !.at = "sent", !.pair = 0,
                      !.token = IF store.access # 0 THEN store.access ELSE call[c].pair])
    /\ UNCHANGED <<vars, holder, expired, store, flight, auth, op, past>>

(* The server executes the call.                                           *)
Execute(c) ==
    /\ call[c].at = "sent" /\ c \notin op.call
    /\ Valid(call[c].token)
    /\ SetCall(c, [call[c] EXCEPT !.at = "answer", !.token = 0, !.ran = @ + 1])
    /\ UNCHANGED <<vars, holder, expired, store, flight, auth, op, past>>

Answered(c) ==
    /\ call[c].at = "answer"
    /\ SetCall(c, NoCall)
    /\ UNCHANGED <<vars, holder, expired, store, flight, auth, op, past>>

(* Mutant: a call that failed is tried again, like one that was refused.   *)
RetryFailed(c) ==
    /\ call[c].at \in {"sent", "served", "answer"}
    /\ SetCall(c, IF call[c].retry THEN [call[c] EXCEPT !.at = "drop"]
                  ELSE [call[c] EXCEPT !.at = "ready", !.retry = TRUE])
    /\ Disturbed
    /\ UNCHANGED <<vars, holder, expired, store, flight, auth, op>>

(* The server answers with an error, which to a retry may be a 401 of the  *)
(* handler: the call is over for its caller, and after a retry so is the   *)
(* session, though the refresh did not fail.                               *)
Refused(c) ==
    /\ call[c].at = "sent"
    /\ Throw(c)
    /\ past' = IF call[c].retry /\ past = "calm" THEN "refused" ELSE past
    /\ UNCHANGED <<vars, holder, expired, store, flight, auth, op>>

(* The request or its answer is lost, or the server fails.                 *)
Fails(c) ==
    /\ call[c].at \in {"sent", "served", "answer"}
    /\ Throw(c)
    /\ Disturbed
    /\ UNCHANGED <<vars, holder, expired, store, flight, auth, op>>

(* Mutant: every 401 starts a refresh of its own; the last one counts.     *)
RefreshAgain == [NoFlight EXCEPT !.at = "read"]

(* _refreshOnce: the refresh that is under way is shared.                  *)
SharedFlight == IF flight = NoFlight THEN [NoFlight EXCEPT !.at = "read"] ELSE flight

(* onError with a 401, of RequireAuth or (a wrong old password) of the     *)
(* handler itself: the call waits for a refresh.                           *)
Unauthorized(c) ==
    /\ call[c].at = "sent" /\ ~call[c].retry
    /\ c \in op.call => ~Valid(call[c].token)
    /\ SetCall(c, [call[c] EXCEPT !.at = "wait", !.token = 0])
    /\ flight' = SharedFlight
    /\ past' = IF Writing /\ past # "killed" THEN "crossed" ELSE past
    /\ UNCHANGED <<vars, holder, expired, store, auth, op>>

(* A retry that RequireAuth turns away gives up.                           *)
RetryUnauthorized(c) ==
    /\ call[c].at = "sent" /\ call[c].retry
    /\ ~Valid(call[c].token)
    /\ Throw(c)
    /\ UNCHANGED <<vars, holder, expired, store, flight, auth, op, past>>

(* Mutant: the new access token is not stored.                             *)
KeepOld(c) ==
    /\ call[c].at = "keep"
    /\ Move(c, "keepRefresh")
    /\ UNCHANGED <<vars, holder, expired, store, flight, auth, op, past>>

(* setTokens writes the access token ...                                   *)
KeepAccess(c) ==
    /\ call[c].at = "keep"
    /\ store' = [store EXCEPT !.access = call[c].pair]
    /\ Move(c, "keepRefresh")
    /\ UNCHANGED <<vars, holder, expired, flight, auth, op, past>>

(* ... and then the refresh token; the call is retried.                    *)
KeepRefresh(c) ==
    /\ call[c].at = "keepRefresh"
    /\ store' = [store EXCEPT !.refresh = call[c].pair]
    /\ SetCall(c, [call[c] EXCEPT !.at = "ready", !.retry = TRUE])
    /\ UNCHANGED <<vars, holder, expired, flight, auth, op, past>>

(* onSessionExpired deletes the two keys.                                  *)
DropAccess(c) ==
    /\ call[c].at = "drop"
    /\ store' = [store EXCEPT !.access = 0]
    /\ Move(c, "dropRefresh")
    /\ UNCHANGED <<vars, holder, expired, flight, auth, op, past>>

(* _handleSessionExpired: to the unlock screen, if there is an identity.   *)
DropRefresh(c) ==
    /\ call[c].at = "dropRefresh"
    /\ store' = [store EXCEPT !.refresh = 0]
    /\ SetCall(c, NoCall)
    /\ auth' = IF auth = "ready" THEN "unlock" ELSE auth
    /\ UNCHANGED <<vars, holder, expired, flight, op, past>>
-----------------------------------------------------------------------------
(* The refresh that calls wait for.                                        *)

(* Its Future is complete for all who wait, and forgotten.                 *)
Complete(at, pair) ==
    /\ flight' = NoFlight
    /\ call' = [c \in Call |-> IF call[c].at = "wait"
                               THEN [call[c] EXCEPT !.at = at, !.pair = pair] ELSE call[c]]

(* The stored refresh token is read; without one there is nothing to send. *)
FlightRead ==
    /\ flight.at = "read"
    /\ \/ store.refresh = 0 /\ Complete("drop", 0)
       \/ /\ store.refresh # 0
          /\ flight' = [flight EXCEPT !.at = "sent", !.token = store.refresh]
          /\ UNCHANGED call
    /\ UNCHANGED <<vars, holder, expired, store, auth, op, past>>

(* The server looks the token up.                                          *)
FlightArrives(h) ==
    /\ flight.at = "sent"
    /\ BeginRefresh(h, flight.token) \/ BeginReuse(h, flight.token)
    /\ flight' = [flight EXCEPT !.at = "served", !.by = {h}]
    /\ UNCHANGED <<holder, expired, store, call, auth, op, past>>

(* Mutant: the refusal does not reach the calls that wait.                 *)
RefusedInVain ==
    /\ flight.at = "sent"
    /\ Holders(flight.token) \cap ActiveDevices = {}
    /\ flight' = NoFlight
    /\ UNCHANGED <<vars, holder, expired, store, call, auth, op, past>>

(* A token of a revoked device, or one that was never noted as retired.    *)
FlightRefused ==
    /\ flight.at = "sent"
    /\ Holders(flight.token) \cap ActiveDevices = {}
    /\ Holders(flight.token) # {} \/ \A r \in retired : r.hash # flight.token
    /\ Complete("drop", 0)
    /\ UNCHANGED <<vars, holder, expired, store, auth, op, past>>

(* The token is rotated; the new pair is on its way.                       *)
FlightServed(h) ==
    /\ flight.at = "served" /\ h \in flight.by
    /\ EndRefresh(h)
    /\ IssuedTo(req[h].id)
    /\ flight' = [flight EXCEPT !.at = "answer", !.token = tokens', !.by = {}]
    /\ UNCHANGED <<expired, store, call, auth, op, past>>

FlightAnswered ==
    /\ flight.at = "answer"
    /\ Complete("keep", flight.token)
    /\ UNCHANGED <<vars, holder, expired, store, auth, op, past>>

(* The token was used before: all devices are revoked, the answer is 401.  *)
FlightReused(h) ==
    /\ flight.at = "served" /\ h \in flight.by
    /\ EndReuse(h)
    /\ Complete("drop", 0)
    /\ UNCHANGED <<holder, expired, store, auth, op, past>>

(* The request or its answer is lost, or the server fails; what the server *)
(* has begun may still go on.                                              *)
FlightFails ==
    /\ flight.at \in {"sent", "served", "answer"}
    /\ Complete("drop", 0)
    /\ Disturbed
    /\ UNCHANGED <<vars, holder, expired, store, auth, op>>

(* A handler whose client no longer waits goes on, or gives up.            *)
GoesOn(h) ==
    /\ h \notin flight.by \cup op.by
    /\ \/ /\ EndLogin(h) \/ EndRefresh(h)
          /\ IssuedTo(req[h].id)
       \/ /\ EndReuse(h) \/ EndLogout(h) \/ GiveUp(h)
          /\ UNCHANGED holder
    /\ UNCHANGED <<expired, store, flight, call, auth, op, past>>
-----------------------------------------------------------------------------
(* The session.                                                            *)

NewSession == [NoOp EXCEPT !.at = "keep", !.pair = tokens']

(* completeBootstrap and recoverByPhrase, each served in one step.         *)
SignUp(u, d) ==
    /\ auth = "out" /\ op = NoOp
    /\ Bootstrap(u, d) \/ RecoveryRedeem(u, d)
    /\ IssuedTo(d)
    /\ op' = NewSession
    /\ UNCHANGED <<expired, store, flight, call, auth, past>>

(* login: the app proposes no device id, so the server makes a new one.    *)
StartLogin(h, u, d) ==
    /\ auth = "out" /\ op = NoOp
    /\ d \notin DOMAIN device
    /\ BeginLogin(h, u, d)
    /\ op' = [NoOp EXCEPT !.at = "login", !.by = {h}]
    /\ UNCHANGED <<holder, expired, store, flight, call, auth, past>>

(* The limit of devices may refuse it.                                     *)
LoginServed(h) ==
    /\ op.at = "login" /\ h \in op.by
    /\ EndLogin(h)
    /\ IssuedTo(req[h].id)
    /\ op' = IF tokens' = tokens THEN NoOp ELSE NewSession
    /\ UNCHANGED <<expired, store, flight, call, auth, past>>

LoginFails ==
    /\ op.at = "login"
    /\ op' = NoOp
    /\ UNCHANGED <<vars, holder, expired, store, flight, call, auth, past>>

(* _completeSession: setTokens, then the identity.                         *)
CompleteSession ==
    /\ \/ /\ op.at = "keep"
          /\ store' = [store EXCEPT !.access = op.pair]
          /\ op' = [op EXCEPT !.at = "keepRefresh"]
          /\ UNCHANGED auth
       \/ /\ op.at = "keepRefresh"
          /\ store' = [store EXCEPT !.refresh = op.pair]
          /\ op' = NoOp
          /\ auth' = "ready"
    /\ UNCHANGED <<vars, holder, expired, flight, call, past>>

(* The unlock by password or biometrics asks nothing of the server.        *)
Unlock ==
    /\ auth = "unlock" /\ auth' = "ready"
    /\ UNCHANGED <<vars, holder, expired, store, flight, call, op, past>>

(* logout reads the refresh token and sends it to the server, in a call    *)
(* like any other.                                                         *)
StartLogout(c) ==
    /\ auth = "ready" /\ op = NoOp /\ call[c] = NoCall
    /\ op' = [NoOp EXCEPT !.at = "logout", !.call = {c}, !.pair = store.refresh]
    /\ IF store.refresh = 0 THEN UNCHANGED call ELSE Move(c, "ready")
    /\ Disturbed
    /\ UNCHANGED <<vars, holder, expired, store, flight, auth>>

(* The handler looks the device of the token up, which may hold another    *)
(* one by now: then there is nothing to do.                                *)
LogoutArrives(c, h) ==
    /\ call[c].at = "sent" /\ c \in op.call
    /\ Valid(call[c].token)
    /\ \/ /\ BeginLogout(h, op.pair)
          /\ Move(c, "served")
          /\ op' = [op EXCEPT !.by = {h}]
       \/ /\ Holders(op.pair) = {}
          /\ Move(c, "answer")
          /\ UNCHANGED <<vars, op>>
    /\ UNCHANGED <<holder, expired, store, flight, auth, past>>

LogoutServed(c, h) ==
    /\ call[c].at = "served" /\ c \in op.call /\ h \in op.by
    /\ EndLogout(h)
    /\ Move(c, "answer")
    /\ UNCHANGED <<holder, expired, store, flight, auth, op, past>>

(* Mutant: a session that has expired meanwhile ends the logout.           *)
WipeIfReady ==
    /\ op.at = "logout" /\ \A c \in op.call : call[c] = NoCall
    /\ auth = "ready"
    /\ op' = [NoOp EXCEPT !.at = "clear"]
    /\ auth' = "leaving"
    /\ UNCHANGED <<vars, holder, expired, store, flight, call, past>>

(* However the call has ended, the tables and the identity are cleared ... *)
Wipe ==
    /\ op.at = "logout" /\ \A c \in op.call : call[c] = NoCall
    /\ op' = [NoOp EXCEPT !.at = "clear"]
    /\ auth' = "leaving"
    /\ UNCHANGED <<vars, holder, expired, store, flight, call, past>>

(* ... and the two tokens.                                                 *)
ClearTokens ==
    /\ \/ /\ op.at = "clear"
          /\ store' = [store EXCEPT !.access = 0]
          /\ op' = [op EXCEPT !.at = "clearRefresh"]
          /\ UNCHANGED auth
       \/ /\ op.at = "clearRefresh"
          /\ store' = [store EXCEPT !.refresh = 0]
          /\ op' = NoOp
          /\ auth' = "out"
    /\ UNCHANGED <<vars, holder, expired, flight, call, past>>
-----------------------------------------------------------------------------
(* The world around it.                                                    *)

(* The access tokens issued so far expire.  They live 15 minutes, so not   *)
(* while a pair is fetched, stored and used for the retry.                 *)
Expires ==
    /\ expired < tokens
    /\ flight = NoFlight /\ ~Writing
    /\ \A c \in Call : ~call[c].retry
    /\ expired' = tokens
    /\ UNCHANGED <<vars, holder, store, flight, call, auth, op, past>>

(* The user recovers the account on another device.                        *)
RecoverElsewhere(u, d) ==
    /\ RecoveryRedeem(u, d)
    /\ IssuedTo(d)
    /\ Disturbed
    /\ UNCHANGED <<expired, store, flight, call, auth, op>>

(* The app is killed, and started again: _init finds the identity or not.  *)
Kill ==
    /\ flight' = NoFlight
    /\ call' = [c \in Call |-> NoCall]
    /\ op' = NoOp
    /\ auth' = IF auth \in {"ready", "unlock"} THEN "unlock" ELSE "out"
    /\ past' = "killed"
    /\ UNCHANGED <<vars, holder, expired, store>>
-----------------------------------------------------------------------------
CallGoesOn(c) ==
    \/ Send(c) \/ Execute(c) \/ Answered(c) \/ Refused(c) \/ Fails(c)
    \/ Unauthorized(c) \/ RetryUnauthorized(c)
    \/ KeepAccess(c) \/ KeepRefresh(c) \/ DropAccess(c) \/ DropRefresh(c)
    \/ \E h \in Handler : LogoutArrives(c, h) \/ LogoutServed(c, h)

FlightGoesOn ==
    \/ FlightRead \/ FlightRefused \/ FlightAnswered \/ FlightFails
    \/ \E h \in Handler : FlightArrives(h) \/ FlightServed(h) \/ FlightReused(h)

OpGoesOn ==
    \/ CompleteSession \/ Wipe \/ ClearTokens \/ LoginFails
    \/ \E h \in Handler : LoginServed(h)

SessionNext ==
    \/ \E c \in Call : StartCall(c) \/ CallGoesOn(c) \/ StartLogout(c)
    \/ FlightGoesOn \/ OpGoesOn
    \/ \E h \in Handler, u \in User, d \in Device : StartLogin(h, u, d)
    \/ \E u \in User, d \in Device : SignUp(u, d) \/ RecoverElsewhere(u, d)
    \/ \E h \in Handler : GoesOn(h)
    \/ Unlock \/ Expires \/ Kill

(* A request is answered or fails in the end, and a Future that is         *)
(* complete resumes what waits for it.                                     *)
SessionFairness ==
    /\ \A c \in Call : WF_allVars(CallGoesOn(c))
    /\ WF_allVars(FlightGoesOn)
    /\ WF_allVars(OpGoesOn)

SessionSpec == SessionInit /\ [][SessionNext]_allVars /\ SessionFairness
-----------------------------------------------------------------------------
(* The retry after a refresh never makes the server execute a call twice:  *)
(* only a call that a 401 has turned away, before it changed anything, is  *)
(* repeated.                                                               *)
AtMostOnce == \A c \in Call : call[c].ran <= 1

(* Calls wait exactly while a refresh is under way: its end leaves none    *)
(* behind, and a refresh whose tokens nobody would store does not go on.   *)
WaitersHaveFlight == (\E c \in Call : call[c].at = "wait") <=> flight # NoFlight

(* The device never presents a refresh token that was rotated away, which  *)
(* the server would take for theft and answer by revoking all devices: not *)
(* when calls meet a 401 together, not when an answer is lost, and not     *)
(* when the user signs out and in meanwhile.  It does when the app is      *)
(* killed between the two writes of a pair, or when a 401 arrives there:   *)
(* the refresh is forgotten by then, so that the call starts another.      *)
NeverReplays ==
    past \notin {"crossed", "killed"} => \A h \in Handler : req[h].op # "reuse"

(* A session ends only by what Past names: with no request lost, no 401    *)
(* between two writes and no repeated call refused, it goes on, however    *)
(* often the access token expires, however many calls meet that at once,   *)
(* and however many calls the server refuses at their first attempt.       *)
SessionKept == past = "calm" => \A c \in Call : call[c].at \notin {"drop", "dropRefresh"}

(* No call waits for ever, in particular not for a refresh that is gone.   *)
CallsEnd == \A c \in Call : call[c] # NoCall ~> call[c] = NoCall

(* logout ends, with or without a network ("a failure here must not block  *)
(* sign-out"), unless the app is killed before.                            *)
SignOutEnds == op.at = "logout" ~> auth = "out" \/ past = "killed"
=============================================================================
