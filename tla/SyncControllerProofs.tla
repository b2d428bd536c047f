----------------------- MODULE SyncControllerProofs ------------------------
(***************************************************************************)
(* The safety properties of the sync controller, for any number of cards,  *)
(* any length of the backoff and any number of exceptions.                 *)
(***************************************************************************)
EXTENDS SyncController, FiniteSetTheorems, SequenceTheorems, TLAPS

(* One chain of attempts.  A retry that waits, or a cycle that runs, has   *)
(* attempts left, and the attempts so far have failed.                     *)
Chain ==
    /\ running \in BOOLEAN /\ (running <=> cycle # "idle")
    /\ backoff \in 0 .. 1 /\ failures \in 0 .. Tries /\ attempts \in 0 .. Tries
    /\ backoff = 1 => ~running /\ failures < Tries /\ attempts <= failures
    /\ running => failures < Tries /\ attempts <= failures + 1

(* The timers, and a disposed controller.                                  *)
Quiet ==
    /\ alive \in BOOLEAN /\ debounce \in BOOLEAN /\ periodic \in BOOLEAN
    /\ DisposedIsQuiet

Counts == 0 .. Cardinality(Card)
Answers == {"stream", "count"} \X Counts

(* What the database was asked last is the present count, unless there is  *)
(* a change it has yet to be asked about; it is shown, or on its way.      *)
LastAnswer ==
    /\ dirty \subseteq Card
    /\ inbox \in Seq(Answers)
    /\ pending \in Counts
    /\ alive /\ ~changed /\ inbox = <<>> => pending = Cardinality(dirty)
    /\ alive /\ ~changed /\ inbox # <<>> => inbox[Len(inbox)][2] = Cardinality(dirty)

ControllerInv == ControllerTypeOK /\ Chain /\ Quiet /\ LastAnswer
-----------------------------------------------------------------------------
LEMMA CountType ==
    ASSUME NEW D \in SUBSET Card
    PROVE  Cardinality(D) \in Counts
<1>1. IsFiniteSet(D) /\ Cardinality(D) <= Cardinality(Card)
  BY CardAssumption, FS_Subset
<1>2. Cardinality(D) \in Nat /\ Cardinality(Card) \in Nat
  BY <1>1, CardAssumption, FS_CardinalityType
<1> QED BY <1>1, <1>2 DEF Counts

(* The answer that is asked for last arrives last.                         *)
LEMMA AskedLast ==
    ASSUME NEW box \in Seq(Answers), NEW a \in Answers
    PROVE  /\ Append(box, a) \in Seq(Answers)
           /\ Append(box, a) # <<>>
           /\ Append(box, a)[Len(Append(box, a))] = a
  OBVIOUS

LEMMA AnswersInOrder ==
    ASSUME NEW box \in Seq(Answers), box # <<>>
    PROVE  /\ Head(box) \in Answers /\ Tail(box) \in Seq(Answers)
           /\ Tail(box) = <<>> => Head(box) = box[Len(box)]
           /\ Tail(box) # <<>> => Tail(box)[Len(Tail(box))] = box[Len(box)]
<1>1. /\ Head(box) \in Answers /\ Tail(box) \in Seq(Answers)
      /\ Len(Tail(box)) = Len(box) - 1
      /\ \A i \in 1 .. Len(Tail(box)) : Tail(box)[i] = box[i + 1]
  BY HeadTailProperties
<1>2. Len(box) \in Nat \ {0}
  BY EmptySeq
<1>3. ASSUME Tail(box) = <<>>  PROVE Head(box) = box[Len(box)]
  BY <1>1, <1>2, <1>3
<1>4. ASSUME Tail(box) # <<>>  PROVE Tail(box)[Len(Tail(box))] = box[Len(box)]
  <2>1. Len(Tail(box)) \in Nat \ {0}
    BY <1>1, <1>4, EmptySeq
  <2> QED BY <1>1, <1>2, <2>1
<1> QED BY <1>1, <1>3, <1>4
-----------------------------------------------------------------------------
(* A trigger cancels the retry that waits; it starts a chain or meets one. *)
LEMMA TriggerChain ==
    ASSUME Chain, Trigger
    PROVE  Chain'
<1>1. Tries \in Nat \ {0}
  BY TriesAssumption
<1>2. backoff' = 0 /\ failures' = 0
  BY DEF Trigger
<1>3. CASE running
  <2>1. attempts' = 0 /\ running' = running /\ cycle' = cycle
    BY <1>3 DEF Trigger, Attempt, service
  <2> QED BY <1>1, <1>2, <1>3, <2>1 DEF Chain
<1>4. CASE ~running
  <2>1. attempts' = 1 /\ running' = TRUE /\ cycle' = "check"
    BY <1>4 DEF Trigger, Attempt
  <2> QED BY <1>1, <1>2, <2>1 DEF Chain
<1> QED BY <1>3, <1>4

LEMMA ChainStep ==
    ASSUME Chain, [Next]_vars
    PROVE  Chain'
<1> USE TriesAssumption
<1>1. ASSUME RefreshNow \/ PeriodicFires \/ DebounceFires \/ Resume
      PROVE  Chain'
  BY <1>1, TriggerChain DEF RefreshNow, PeriodicFires, DebounceFires, Resume
<1>2. CASE BackoffFires
  <2>1. backoff = 1 /\ ~running
    BY <1>2 DEF BackoffFires, Chain
  <2>2. /\ backoff' = 0 /\ failures' = failures /\ attempts' = attempts + 1
        /\ running' = TRUE /\ cycle' = "check"
    BY <1>2, <2>1 DEF BackoffFires, Attempt
  <2> QED BY <2>1, <2>2 DEF Chain
<1>3. CASE Pause
  BY <1>3 DEF Pause, Chain, service, history
<1>4. CASE Dispose
  BY <1>4 DEF Dispose, Chain, service, history
<1>5. CASE Edit
  BY <1>5 DEF Edit, Chain, service, timers
<1>6. CASE Watch
  BY <1>6 DEF Watch, Chain, service, timers, history
<1>7. CASE Deliver
  BY <1>7 DEF Deliver, Chain, service, history
<1>8. CASE StartPush
  BY <1>8 DEF StartPush, Chain, timers, history
<1>9. CASE MarkRows
  BY <1>9 DEF MarkRows, Chain, timers, history
<1>10. CASE Skip
  BY <1>10 DEF Skip, Finish, Chain, timers, history
<1>11. CASE Succeed
  <2>1. running /\ backoff = 0
    BY <1>11 DEF Succeed, Finish, Chain
  <2>2. failures' = 0 \/ failures' = failures
    BY <1>11 DEF Succeed
  <2>3. ~running' /\ running' \in BOOLEAN /\ cycle' = "idle" /\ backoff' = 0 /\ attempts' = attempts
    BY <1>11, <2>1 DEF Succeed, Finish, history
  <2> QED BY <2>1, <2>2, <2>3 DEF Chain
<1>12. CASE Fail
  <2>1. running /\ backoff = 0
    BY <1>12 DEF Fail, Finish, Chain
  <2>2. ~running' /\ running' \in BOOLEAN /\ cycle' = "idle" /\ attempts' = attempts
    BY <1>12 DEF Fail, Finish, history
  <2>3. ASSUME alive  PROVE Chain'
    <3>1. failures' = failures + 1 /\ backoff' = IF failures + 1 < Tries THEN 1 ELSE 0
      BY <1>12, <2>1, <2>3 DEF Fail, Retries
    <3> QED BY <2>1, <2>2, <3>1 DEF Chain
  <2>4. ASSUME ~alive  PROVE Chain'
    <3>1. failures' = failures /\ backoff' = backoff
      BY <1>12, <2>4 DEF Fail
    <3> QED BY <2>1, <2>2, <3>1 DEF Chain
  <2> QED BY <2>3, <2>4
<1>13. CASE Throw
  BY <1>13 DEF Throw, Finish, Chain, timers, history
<1>14. CASE UNCHANGED vars
  BY <1>14 DEF vars, Chain, service, timers, history
<1> QED BY <1>1, <1>2, <1>3, <1>4, <1>5, <1>6, <1>7, <1>8, <1>9, <1>10, <1>11,
           <1>12, <1>13, <1>14 DEF Next, Ends

LEMMA QuietStep ==
    ASSUME Chain, Quiet, [Next]_vars
    PROVE  Quiet'
<1> USE DEF Quiet, DisposedIsQuiet
<1>1. CASE RefreshNow
  BY <1>1 DEF RefreshNow, Trigger, user
<1>2. CASE PeriodicFires
  BY <1>2 DEF PeriodicFires, Trigger, user
<1>3. CASE DebounceFires
  BY <1>3 DEF DebounceFires, Trigger, user
<1>4. CASE BackoffFires
  BY <1>4 DEF BackoffFires, Chain, user
<1>5. CASE Pause
  BY <1>5 DEF Pause
<1>6. CASE Resume
  BY <1>6 DEF Resume, Trigger
<1>7. CASE Dispose
  BY <1>7 DEF Dispose
<1>8. CASE Edit
  BY <1>8 DEF Edit, timers, user
<1>9. CASE Watch
  BY <1>9 DEF Watch, timers, user
<1>10. CASE Deliver
  <2>1. ASSUME alive  PROVE debounce' \in BOOLEAN
    BY <1>10, <2>1 DEF Deliver, OnDirtyCountChanged, ShowSuccess
  <2>2. ASSUME ~alive  PROVE debounce' = debounce
    BY <1>10, <2>2 DEF Deliver
  <2> QED BY <1>10, <2>1, <2>2 DEF Deliver, user
<1>11. CASE StartPush
  BY <1>11 DEF StartPush, timers, user
<1>12. CASE MarkRows
  BY <1>12 DEF MarkRows, timers, user
<1>13. CASE Skip
  BY <1>13 DEF Skip, timers, user
<1>14. CASE Succeed
  BY <1>14 DEF Succeed, user
<1>15. CASE Fail
  BY <1>15 DEF Fail, user
<1>16. CASE Throw
  BY <1>16 DEF Throw, timers, user
<1>17. CASE UNCHANGED vars
  BY <1>17 DEF vars, timers, user
<1> QED BY <1>1, <1>2, <1>3, <1>4, <1>5, <1>6, <1>7, <1>8, <1>9, <1>10, <1>11,
           <1>12, <1>13, <1>14, <1>15, <1>16, <1>17 DEF Next, Ends
-----------------------------------------------------------------------------
(* The database answers a question that is asked now.                      *)
LEMMA AskedNow ==
    ASSUME LastAnswer, NEW by \in {"stream", "count"}, inbox' = Append(inbox, Asked(by))
    PROVE  /\ inbox' \in Seq(Answers) /\ inbox' # <<>>
           /\ inbox'[Len(inbox')][2] = Cardinality(dirty)
<1>1. Cardinality(dirty) \in Counts
  BY CountType DEF LastAnswer
<1>2. Asked(by) \in Answers /\ Asked(by)[2] = Cardinality(dirty)
  BY <1>1 DEF Asked, Answers
<1> HIDE DEF Answers
<1> QED BY <1>2, AskedLast DEF LastAnswer

LEMMA LastAnswerStep ==
    ASSUME ControllerInv, [Next]_vars
    PROVE  LastAnswer'
<1> USE DEF LastAnswer
<1>0. LastAnswer /\ alive \in BOOLEAN /\ changed \in BOOLEAN
  BY DEF ControllerInv, ControllerTypeOK
<1>1. ASSUME UNCHANGED <<user, database, pending>>  PROVE LastAnswer'
  BY <1>0, <1>1 DEF user, database
<1>2. ASSUME Trigger \/ Attempt(attempts), UNCHANGED <<user, database>>  PROVE LastAnswer'
  BY <1>1, <1>2 DEF Trigger, Attempt
<1>3. CASE RefreshNow \/ PeriodicFires \/ DebounceFires \/ BackoffFires
  BY <1>2, <1>3 DEF RefreshNow, PeriodicFires, DebounceFires, BackoffFires, user, database
<1>4. CASE Pause
  BY <1>0, <1>4 DEF Pause, database, status
<1>5. CASE Resume
  BY <1>0, <1>5 DEF Resume, Trigger, Attempt, database
<1>6. CASE Dispose
  BY <1>0, <1>6 DEF Dispose, database, status
<1>7. CASE Edit
  <2>1. dirty' \subseteq Card /\ changed' = TRUE /\ UNCHANGED <<inbox, pending>>
    BY <1>0, <1>7 DEF Edit, status
  <2> QED BY <1>0, <2>1
<1>8. CASE Watch
  <2>1. UNCHANGED <<alive, dirty, pending>> /\ inbox' = Append(inbox, Asked("stream"))
    BY <1>8 DEF Watch, user, status
  <2>2. /\ inbox' \in Seq(Answers) /\ inbox' # <<>>
        /\ inbox'[Len(inbox')][2] = Cardinality(dirty)
    BY <1>0, <2>1, AskedNow
  <2> QED BY <1>0, <2>1, <2>2
<1>9. CASE Deliver
  <2>1. inbox # <<>> /\ inbox' = Tail(inbox) /\ UNCHANGED <<user, dirty, changed>>
    BY <1>9 DEF Deliver
  <2>2. /\ Head(inbox) \in Answers /\ inbox' \in Seq(Answers)
        /\ inbox' = <<>> => Head(inbox) = inbox[Len(inbox)]
        /\ inbox' # <<>> => inbox'[Len(inbox')] = inbox[Len(inbox)]
    BY <1>0, <2>1, AnswersInOrder
  <2>3. Head(inbox)[2] \in Counts
    BY <2>2 DEF Answers
  <2>4. pending' = IF alive THEN Head(inbox)[2] ELSE pending
    BY <1>0, <1>9 DEF Deliver, OnDirtyCountChanged, ShowSuccess, status
  <2> QED BY <1>0, <2>1, <2>2, <2>3, <2>4 DEF user
<1>10. CASE StartPush
  BY <1>1, <1>10 DEF StartPush, status
<1>11. CASE MarkRows
  <2>1. /\ inbox = <<>> /\ dirty' \subseteq dirty
        /\ changed' = (changed \/ dirty' # dirty)
        /\ UNCHANGED <<alive, inbox, pending>>
    BY <1>11 DEF MarkRows, user, status
  <2>2. CASE dirty' = dirty
    BY <1>0, <2>1, <2>2
  <2>3. CASE dirty' # dirty
    BY <1>0, <2>1, <2>3
  <2> QED BY <2>2, <2>3
<1>12. CASE Skip \/ Fail \/ Throw
  BY <1>1, <1>12 DEF Skip, Fail, Throw, status
<1>13. CASE Succeed
  <2>1. UNCHANGED <<alive, dirty, changed, pending>>
    BY <1>13 DEF Succeed, user, status
  <2>2. CASE alive
    <3>1. inbox' = Append(inbox, Asked("count"))
      BY <1>13, <2>2 DEF Succeed
    <3>2. /\ inbox' \in Seq(Answers) /\ inbox' # <<>>
          /\ inbox'[Len(inbox')][2] = Cardinality(dirty)
      BY <1>0, <3>1, AskedNow
    <3> QED BY <1>0, <2>1, <3>2
  <2>3. CASE ~alive
    <3>1. UNCHANGED inbox
      BY <1>13, <2>3 DEF Succeed
    <3> QED BY <1>0, <2>1, <3>1
  <2> QED BY <1>0, <2>2, <2>3
<1>14. CASE UNCHANGED vars
  BY <1>1, <1>14 DEF vars, status
<1> QED BY <1>3, <1>4, <1>5, <1>6, <1>7, <1>8, <1>9, <1>10, <1>11, <1>12, <1>13, <1>14
        DEF Next, Ends
-----------------------------------------------------------------------------
(* What is left of the types.                                              *)
Rest ==
    /\ foreground \in BOOLEAN /\ changed \in BOOLEAN
    /\ phase \in {"idle", "syncing", "error"}
    /\ cycle \in {"idle", "check", "push", "pull"}
    /\ fresh \in BOOLEAN

LEMMA RestStep ==
    ASSUME ControllerInv, [Next]_vars
    PROVE  Rest'
<1> USE DEF Rest
<1>0. Rest
  BY DEF ControllerInv, ControllerTypeOK
<1>1. ASSUME Attempt(0) \/ Attempt(attempts), foreground' \in BOOLEAN, UNCHANGED changed
      PROVE  Rest'
  BY <1>0, <1>1 DEF Attempt, service
<1>2. CASE RefreshNow \/ PeriodicFires \/ DebounceFires
  BY <1>0, <1>1, <1>2 DEF RefreshNow, PeriodicFires, DebounceFires, Trigger, user, database
<1>3. CASE BackoffFires
  BY <1>0, <1>1, <1>3 DEF BackoffFires, user, database
<1>4. CASE Pause
  BY <1>0, <1>4 DEF Pause, database, status, service, history
<1>5. CASE Resume
  BY <1>0, <1>1, <1>5 DEF Resume, Trigger, database
<1>6. CASE Dispose
  BY <1>0, <1>6 DEF Dispose, database, status, service, history
<1>7. CASE Edit
  BY <1>0, <1>7 DEF Edit, user, status, service
<1>8. CASE Watch
  BY <1>0, <1>8 DEF Watch, user, status, service, history
<1>9. CASE Deliver
  <2>1. phase' \in {"idle", "syncing", "error"}
    BY <1>0, <1>9 DEF Deliver, OnDirtyCountChanged, ShowSuccess, status
  <2> QED BY <1>0, <1>9, <2>1 DEF Deliver, user, service, history
<1>10. CASE StartPush
  BY <1>0, <1>10 DEF StartPush, user, database, status, history
<1>11. CASE MarkRows
  BY <1>0, <1>11 DEF MarkRows, user, status, history
<1>12. CASE Skip
  BY <1>0, <1>12 DEF Skip, Finish, user, database, history
<1>13. CASE Succeed
  BY <1>0, <1>13 DEF Succeed, Finish, user, status, history
<1>14. CASE Fail
  BY <1>0, <1>14 DEF Fail, Finish, user, database, history
<1>15. CASE Throw
  BY <1>0, <1>15 DEF Throw, Finish, user, database, status, history
<1>16. CASE UNCHANGED vars
  BY <1>0, <1>16 DEF vars, user, database, status, service, history
<1> QED BY <1>2, <1>3, <1>4, <1>5, <1>6, <1>7, <1>8, <1>9, <1>10, <1>11, <1>12, <1>13,
           <1>14, <1>15, <1>16 DEF Next, Ends
-----------------------------------------------------------------------------
LEMMA InvInit == Init => ControllerInv
<1> SUFFICES ASSUME Init  PROVE ControllerInv
  OBVIOUS
<1>1. Chain
  BY TriesAssumption DEF Init, Chain
<1>4. Quiet
  BY DEF Init, Quiet, DisposedIsQuiet
<1>5. Rest
  BY DEF Init, Rest
<1>2. Cardinality(Card) \in Nat
  BY CardAssumption, FS_CardinalityType
<1>3. LastAnswer
  <2>1. <<>> \in Seq(Answers) /\ 0 \in Counts
    BY <1>2, EmptySeq DEF Counts
  <2> QED BY <2>1 DEF Init, LastAnswer
<1>6. backoff \in Nat /\ failures \in 0 .. Tries /\ attempts \in Nat /\ running \in BOOLEAN
  BY <1>1, TriesAssumption DEF Chain
<1>7. alive \in BOOLEAN /\ debounce \in BOOLEAN /\ periodic \in BOOLEAN
  BY <1>4 DEF Quiet
<1>8. /\ dirty \subseteq Card /\ pending \in 0 .. Cardinality(Card)
      /\ inbox \in Seq({"stream", "count"} \X (0 .. Cardinality(Card)))
  BY <1>3 DEF LastAnswer, Answers, Counts
<1>9. ControllerTypeOK
  BY <1>5, <1>6, <1>7, <1>8, Zenon DEF Rest, ControllerTypeOK
<1> QED BY <1>1, <1>3, <1>4, <1>9 DEF ControllerInv

LEMMA InvStep == ControllerInv /\ [Next]_vars => ControllerInv'
<1> SUFFICES ASSUME ControllerInv, [Next]_vars  PROVE ControllerInv'
  OBVIOUS
<1>1. Chain' /\ Quiet'
  BY ChainStep, QuietStep DEF ControllerInv
<1>2. LastAnswer' /\ Rest'
  BY LastAnswerStep, RestStep
<1>3. (backoff \in Nat /\ failures \in 0 .. Tries /\ attempts \in Nat /\ running \in BOOLEAN)'
  BY <1>1, TriesAssumption DEF Chain
<1>4. (alive \in BOOLEAN /\ debounce \in BOOLEAN /\ periodic \in BOOLEAN)'
  BY <1>1 DEF Quiet
<1>5. (/\ dirty \subseteq Card /\ pending \in 0 .. Cardinality(Card)
       /\ inbox \in Seq({"stream", "count"} \X (0 .. Cardinality(Card))))'
  BY <1>2 DEF LastAnswer, Answers, Counts
<1>6. ControllerTypeOK'
  BY <1>2, <1>3, <1>4, <1>5, Zenon DEF Rest, ControllerTypeOK
<1> QED BY <1>1, <1>2, <1>6 DEF ControllerInv

LEMMA InvHolds == ControllerSpec => []ControllerInv
  BY InvInit, InvStep, PTL DEF ControllerSpec

(* Types of the controller's state: the timers, the counts, the answers    *)
(* on their way.                                                           *)
THEOREM ControllerTypes == ControllerSpec => []ControllerTypeOK
<1>1. ControllerInv => ControllerTypeOK
  BY DEF ControllerInv
<1> QED BY <1>1, InvHolds, PTL

(* Triggers and retries never make two chains of attempts: no retry waits  *)
(* while a cycle runs.                                                     *)
THEOREM OneChainOfAttempts == ControllerSpec => []OneRetry
<1>1. ControllerInv => OneRetry
  BY DEF ControllerInv, Chain, OneRetry
<1> QED BY <1>1, InvHolds, PTL

(* A chain has as many attempts as _backoffDelays has entries, at most.    *)
THEOREM AttemptsAreBounded == ControllerSpec => []FiveAttempts
<1>1. ControllerInv => FiveAttempts
  BY TriesAssumption DEF ControllerInv, Chain, FiveAttempts
<1> QED BY <1>1, InvHolds, PTL

(* A disposed controller has no timer, also when its cycle is still        *)
(* running and fails.                                                      *)
THEOREM DisposedStaysQuiet == ControllerSpec => []DisposedIsQuiet
<1>1. ControllerInv => DisposedIsQuiet
  BY DEF ControllerInv, Quiet
<1> QED BY <1>1, InvHolds, PTL

(* When no answer of the database is on its way, the indicator shows the   *)
(* number of unsynced cards.                                               *)
THEOREM IndicatorIsRight == ControllerSpec => []IndicatorCounts
<1>1. ControllerInv => IndicatorCounts
  BY DEF ControllerInv, LastAnswer, IndicatorCounts
<1> QED BY <1>1, InvHolds, PTL
=============================================================================
