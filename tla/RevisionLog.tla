---------------------------- MODULE RevisionLog ----------------------------
(***************************************************************************)
(* What the sync server promises a reader that keeps a cursor: a change    *)
(* log.  Every key is at no revision (0) or at the revision of its last    *)
(* change.  A commit moves a set of keys to the next consecutive revisions *)
(* above the head, one each; forgetting a key leaves the head alone, so a  *)
(* revision is never handed out twice and nothing is ever inserted at or   *)
(* below a cursor that was taken from the head.                            *)
(***************************************************************************)
EXTENDS Integers

CONSTANT Key

VARIABLES
    head,      \* the last revision handed out
    current    \* the revision each key is at, 0 when it is at none

logVars == <<head, current>>

LogInit ==
    /\ head = 0
    /\ current = [k \in Key |-> 0]

(* The keys of S move to the next revisions above head, one each.          *)
Commit(S) ==
    /\ head' \in Nat /\ head' >= head
    /\ current' \in [Key -> Nat]
    /\ {current'[k] : k \in S} = (head + 1) .. head'
    /\ \A j, k \in S : j # k => current'[j] # current'[k]
    /\ \A k \in Key \ S : current'[k] = current[k]

(* The keys of S are dropped.                                              *)
Forget(S) ==
    /\ head' = head
    /\ current' = [k \in Key |-> IF k \in S THEN 0 ELSE current[k]]

LogNext ==
    \E S \in SUBSET Key : Commit(S) \/ Forget(S)

LogSpec == LogInit /\ [][LogNext]_logVars
=============================================================================
