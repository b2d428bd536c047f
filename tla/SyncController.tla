-------------------------- MODULE SyncController ---------------------------
(***************************************************************************)
(* When a sync cycle runs: SyncController with its timers, around          *)
(* SyncService.runOnce, which is reduced here to what the controller sees  *)
(* of it (VaultSync has the cycle itself).  The controller lives as long   *)
(* as the authenticated shell that shows the cards.                        *)
(*                                                                         *)
(* One action is one callback of the event loop.  The local database       *)
(* answers in the order in which it was asked; an answer waits in "inbox"  *)
(* until its callback runs.  Timers fire at any time.                      *)
(***************************************************************************)
EXTENDS Integers, Sequences, FiniteSets

CONSTANTS
    Card,      \* cards the user may change
    Tries      \* the length of _backoffDelays (5)

ASSUME CardAssumption == IsFiniteSet(Card)
ASSUME TriesAssumption == Tries \in Nat \ {0}

VARIABLES
    alive,       \* ~_disposed
    foreground,  \* the app is resumed
    dirty,       \* the cards with unsynced changes, in the database
    changed,     \* watchDirtyCount has yet to look at the last change
    inbox,       \* answers of the database that are on their way
    phase,       \* state.phase, which the indicator shows
    pending,     \* state.pendingCount
    debounce,    \* whether _debounceTimer is running
    periodic,    \* whether _periodicTimer is running
    backoff,     \* the number of retry timers running
    failures,    \* _consecutiveFailures
    running,     \* _running, the flag of the service
    cycle,       \* where the cycle is, or "idle"
    fresh,       \* an edit was made since a cycle was last started (history)
    attempts     \* cycles started since the last trigger (history)

status == <<phase, pending>>
timers == <<debounce, periodic, backoff, failures>>
service == <<running, cycle>>
user == <<alive, foreground>>
database == <<dirty, changed, inbox>>
history == <<fresh, attempts>>
vars == <<user, database, status, timers, service, history>>

ControllerTypeOK ==
    /\ alive \in BOOLEAN /\ foreground \in BOOLEAN
    /\ dirty \subseteq Card /\ changed \in BOOLEAN
    /\ inbox \in Seq({"stream", "count"} \X (0 .. Cardinality(Card)))
    /\ phase \in {"idle", "syncing", "error"}
    /\ pending \in 0 .. Cardinality(Card)
    /\ debounce \in BOOLEAN /\ periodic \in BOOLEAN /\ backoff \in Nat
    /\ failures \in 0 .. Tries
    /\ running \in BOOLEAN /\ cycle \in {"idle", "check", "push", "pull"}
    /\ fresh \in BOOLEAN /\ attempts \in Nat

(* The shell has built the controller and called start().                  *)
Init ==
    /\ alive = TRUE /\ foreground = TRUE
    /\ dirty \in SUBSET Card /\ changed = TRUE /\ inbox = <<>>
    /\ phase = "syncing" /\ pending = 0
    /\ debounce = FALSE /\ periodic = TRUE /\ backoff = 0 /\ failures = 0
    /\ running = TRUE /\ cycle = "check"
    /\ fresh = FALSE /\ attempts = 1
-----------------------------------------------------------------------------
(* Triggers.                                                               *)

(* _attemptSync up to its first await: the _running flag of the service    *)
(* turns a second cycle away, and the indicator shows "syncing" anyway.    *)
Attempt(before) ==
    /\ phase' = "syncing"
    /\ \/ running /\ attempts' = before /\ UNCHANGED <<service, fresh>>
       \/ /\ ~running /\ running' = TRUE /\ cycle' = "check"
          /\ attempts' = before + 1 /\ fresh' = FALSE
    /\ UNCHANGED pending

(* Mutant: the retry that is waiting is forgotten, not cancelled.          *)
TriggerBesides ==
    /\ failures' = 0
    /\ Attempt(0)
    /\ UNCHANGED backoff

(* Mutant: the count of failures goes on.                                  *)
TriggerOn ==
    /\ backoff' = 0
    /\ Attempt(0)
    /\ UNCHANGED failures

(* _trigger.                                                               *)
Trigger ==
    /\ backoff' = 0 /\ failures' = 0
    /\ Attempt(0)

(* Pull to refresh.                                                        *)
RefreshNow ==
    /\ alive /\ foreground
    /\ Trigger
    /\ UNCHANGED <<user, database, debounce, periodic>>

PeriodicFires ==
    /\ periodic
    /\ Trigger
    /\ UNCHANGED <<user, database, debounce, periodic>>

DebounceFires ==
    /\ debounce /\ debounce' = FALSE
    /\ Trigger
    /\ UNCHANGED <<user, database, periodic>>

(* A retry is an attempt, but no trigger: the count of failures goes on.   *)
BackoffFires ==
    /\ backoff > 0 /\ backoff' = backoff - 1
    /\ Attempt(attempts)
    /\ UNCHANGED <<user, database, debounce, periodic, failures>>

(* onAppBackground: the other timers are left running.                     *)
Pause ==
    /\ alive /\ foreground
    /\ foreground' = FALSE /\ periodic' = FALSE
    /\ UNCHANGED <<alive, database, status, debounce, backoff, failures, service, history>>

(* onAppForeground, when the vault is still unlocked.                      *)
Resume ==
    /\ alive /\ ~foreground
    /\ foreground' = TRUE /\ periodic' = TRUE
    /\ Trigger
    /\ UNCHANGED <<alive, database, debounce>>

(* The vault was locked or the user signed out: the shell is unmounted and *)
(* the controller disposed.  The cycle under way is not stopped.           *)
Dispose ==
    /\ alive /\ alive' = FALSE
    /\ debounce' = FALSE /\ periodic' = FALSE /\ backoff' = 0
    /\ UNCHANGED <<foreground, database, status, failures, service, history>>
-----------------------------------------------------------------------------
(* The count of dirty cards.                                               *)

(* The user changes a card, which may be dirty already.                    *)
Edit ==
    /\ alive /\ foreground
    /\ \E c \in Card : dirty' = dirty \cup {c}
    /\ changed' = TRUE
    /\ fresh' = TRUE
    /\ UNCHANGED <<user, inbox, status, timers, service, attempts>>

Asked(by) == <<by, Cardinality(dirty)>>

(* watchDirtyCount asks again after a change.                              *)
Watch ==
    /\ changed /\ changed' = FALSE
    /\ \A i \in DOMAIN inbox : inbox[i][1] # "stream"
    /\ inbox' = Append(inbox, Asked("stream"))
    /\ UNCHANGED <<user, dirty, status, timers, service, history>>

(* Mutant: a count that has not grown is not shown.                        *)
ShowIncrease(count) ==
    /\ pending' = IF count > pending THEN count ELSE pending
    /\ debounce' = (debounce \/ count > pending)
    /\ UNCHANGED phase

(* _onDirtyCountChanged: only more dirty cards than shown start the timer. *)
OnDirtyCountChanged(count) ==
    /\ pending' = count
    /\ debounce' = (debounce \/ count > pending)
    /\ UNCHANGED phase

(* Mutant: the state of before the await is copied with its phase.         *)
ShowCount(count) ==
    /\ pending' = count
    /\ UNCHANGED <<phase, debounce>>

(* The rest of _attemptSync after a success.  The state it copies is the   *)
(* one from before the await: what has set "syncing" since is overwritten. *)
ShowSuccess(count) ==
    /\ phase' = "idle" /\ pending' = count
    /\ UNCHANGED debounce

(* A disposed controller ignores the count, or throws at the assignment.   *)
Deliver ==
    /\ inbox # <<>> /\ inbox' = Tail(inbox)
    /\ LET count == Head(inbox)[2]
       IN  \/ alive /\ Head(inbox)[1] = "stream" /\ OnDirtyCountChanged(count)
           \/ alive /\ Head(inbox)[1] = "count" /\ ShowSuccess(count)
           \/ ~alive /\ UNCHANGED <<status, debounce>>
    /\ UNCHANGED <<user, dirty, changed, periodic, backoff, failures, service, history>>
-----------------------------------------------------------------------------
(* The cycle.  Its own statements wait for the answers asked for before.   *)

(* There is a network, and the photos are uploaded.                        *)
StartPush ==
    /\ cycle = "check" /\ inbox = <<>>
    /\ cycle' = "push"
    /\ UNCHANGED <<user, database, status, timers, running, history>>

(* The push marks rows as clean, and so may the pull that overwrites them. *)
MarkRows ==
    /\ cycle \in {"push", "pull"} /\ inbox = <<>>
    /\ cycle' = "pull"
    /\ dirty' \in SUBSET dirty
    /\ changed' = (changed \/ dirty' # dirty)
    /\ UNCHANGED <<user, inbox, status, timers, running, history>>

(* runOnce returns or throws; "finally" resets the flag.                   *)
Finish == cycle # "idle" /\ cycle' = "idle" /\ running' = FALSE

(* skippedNoNetwork.                                                       *)
Skip ==
    /\ cycle = "check" /\ Finish
    /\ phase' = IF alive THEN "idle" ELSE phase
    /\ UNCHANGED <<user, database, pending, timers, history>>

Succeed ==
    /\ cycle = "pull" /\ Finish
    /\ IF alive THEN failures' = 0 /\ inbox' = Append(inbox, Asked("count"))
                ELSE UNCHANGED <<failures, inbox>>
    /\ UNCHANGED <<user, dirty, changed, status, debounce, periodic, backoff, history>>

(* Mutant: one attempt too many.                                           *)
RetriesOnceMore == failures + 1 <= Tries

Retries == failures + 1 < Tries

(* Mutant: a disposed controller goes on.                                  *)
FailRegardless ==
    /\ Finish
    /\ failures' = failures + 1 /\ phase' = "error"
    /\ backoff' = IF Retries THEN backoff + 1 ELSE backoff
    /\ UNCHANGED <<user, database, pending, debounce, periodic, history>>

(* failed: a retry is scheduled, unless there were too many.               *)
Fail ==
    /\ Finish
    /\ IF alive
       THEN /\ failures' = failures + 1 /\ phase' = "error"
            /\ backoff' = IF Retries THEN backoff + 1 ELSE backoff
       ELSE UNCHANGED <<failures, phase, backoff>>
    /\ UNCHANGED <<user, database, pending, debounce, periodic, history>>

(* Mutant: an exception leaves _running set.                               *)
ThrowRunning ==
    /\ cycle # "idle" /\ cycle' = "idle"
    /\ UNCHANGED <<user, database, status, timers, running, history>>

(* An exception that runOnce does not catch, of the database, a plugin, or *)
(* the parser of a pulled item that does not parse: the indicator stays at *)
(* "syncing", and no retry is scheduled.  The next cycle may throw again.  *)
Throw ==
    /\ Finish
    /\ UNCHANGED <<user, database, status, timers, history>>

Ends == Skip \/ Succeed \/ Fail \/ Throw

Next ==
    \/ RefreshNow \/ PeriodicFires \/ DebounceFires \/ BackoffFires
    \/ Pause \/ Resume \/ Dispose
    \/ Edit \/ Watch \/ Deliver
    \/ StartPush \/ MarkRows \/ Ends

(* The periodic timer fires again and again, a cycle ends, and the event   *)
(* loop runs what is due.  Nothing is assumed of the two other timers: the *)
(* debounce is put off by every edit, and a trigger cancels a retry.       *)
Fairness ==
    WF_vars(PeriodicFires) /\ WF_vars(Ends) /\ WF_vars(Watch) /\ WF_vars(Deliver)

ControllerSpec == Init /\ [][Next]_vars /\ Fairness
-----------------------------------------------------------------------------
(* At most one retry is waiting, and none while a cycle runs: triggers and *)
(* retries never make two chains of attempts.                              *)
OneRetry == backoff <= 1 /\ (backoff = 1 => ~running)

(* SYNC.md: not more than five attempts in a row, whatever triggers come   *)
(* while a cycle runs.                                                     *)
FiveAttempts == attempts <= Tries

(* A controller that is disposed while its cycle runs starts no timer, so  *)
(* the cycle is its last.                                                  *)
DisposedIsQuiet == ~alive => ~debounce /\ ~periodic /\ backoff = 0

(* When all answers are in, the indicator shows the number of unsynced     *)
(* cards, although two queries that race with edits write it.              *)
IndicatorCounts ==
    alive /\ ~changed /\ inbox = <<>> => pending = Cardinality(dirty)

(* An edit is followed by the start of a cycle, while the app is in the    *)
(* foreground: also one whose trigger meets a cycle under way, and one     *)
(* that the count at the end of a cycle hides from the debounce.           *)
EditsAreTried == fresh ~> ~fresh \/ ~foreground \/ ~alive

(* When cycles throw no more, the indicator leaves "syncing": the cycles   *)
(* that threw, and whatever crossed them, leave nothing behind that keeps  *)
(* it there.  An exception that every cycle meets again does: an item that *)
(* decrypts but does not parse is pulled in each of them, for the cursor   *)
(* does not pass it.                                                       *)
SyncingEnds ==
    <>[][~Throw]_vars =>
        (phase = "syncing" ~> phase # "syncing" \/ ~foreground \/ ~alive)
=============================================================================
