--------------------------- MODULE LwwRuleProofs ---------------------------
(***************************************************************************)
(* What the last-writer-wins rule guarantees for all stamps and revisions. *)
(***************************************************************************)
EXTENDS LwwRule, TLAPS

CurrentType == [rev : Nat, at : Nat, dev : Nat]
IncomingType == [base : Nat, at : Nat, dev : Nat]

(* The record that is left after the write "in" was offered to the holder  *)
(* of cur, rev being the next free revision.                               *)
Survivor(cur, in, rev) ==
    IF Resolve(cur, in) THEN [rev |-> rev, at |-> in.at, dev |-> in.dev] ELSE cur

(* wins() is a strict total order on stamps: no stamp beats itself.        *)
LEMMA WinsIrreflexive ==
    ASSUME NEW a \in StampType
    PROVE  ~Wins(a, a)
  BY DEF StampType, Wins

(* wins() is transitive.                                                   *)
LEMMA WinsTransitive ==
    ASSUME NEW a \in StampType, NEW b \in StampType, NEW c \in StampType,
           Wins(a, b), Wins(b, c)
    PROVE  Wins(a, c)
  BY DEF StampType, Wins

(* wins() decides between any two different stamps, one way only.          *)
LEMMA WinsTotal ==
    ASSUME NEW a \in StampType, NEW b \in StampType, a # b
    PROVE  /\ Wins(a, b) \/ Wins(b, a)
           /\ ~(Wins(a, b) /\ Wins(b, a))
  BY DEF StampType, Wins

(* A version that was stored is refused when it is pushed again on an      *)
(* older base, so retrying a push whose answer was lost hands out no       *)
(* second revision: the retry is answered with a conflict.                 *)
THEOREM RetryIsRefused ==
    ASSUME NEW cur \in CurrentType, cur.rev # 0,
           NEW in \in IncomingType, in.base # cur.rev, Stamp(in) = Stamp(cur)
    PROVE  ~Resolve(cur, in)
  BY DEF CurrentType, IncomingType, Resolve, Stamp, Wins

(* Two devices edit offline the version they both have and push in either  *)
(* order: the same edit is left, the one with the greater stamp.  This is  *)
(* the case for which both sides' rules "must resolve identically".        *)
THEOREM OrderOfPushesIsImmaterial ==
    ASSUME NEW cur \in CurrentType, cur.rev # 0,
           NEW a \in IncomingType, NEW b \in IncomingType,
           a.base = cur.rev, b.base = cur.rev, Stamp(a) # Stamp(b),
           NEW r \in Nat, r > cur.rev
    PROVE  Stamp(Survivor(Survivor(cur, a, r), b, r + 1))
             = Stamp(Survivor(Survivor(cur, b, r), a, r + 1))
<1> DEFINE curA == [rev |-> r, at |-> a.at, dev |-> a.dev]
           curB == [rev |-> r, at |-> b.at, dev |-> b.dev]
<1>1. Survivor(cur, a, r) = curA /\ Survivor(cur, b, r) = curB
  BY DEF CurrentType, IncomingType, Survivor, Resolve
<1>2. Resolve(curA, b) <=> Wins(Stamp(b), Stamp(a))
  BY DEF CurrentType, IncomingType, Resolve, Stamp
<1>3. Resolve(curB, a) <=> Wins(Stamp(a), Stamp(b))
  BY DEF CurrentType, IncomingType, Resolve, Stamp
<1>4. Stamp(a) \in StampType /\ Stamp(b) \in StampType
  BY DEF IncomingType, Stamp, StampType
<1>5. Stamp(curA) = Stamp(a) /\ Stamp(curB) = Stamp(b)
  BY DEF Stamp
<1>6. CASE Wins(Stamp(b), Stamp(a))
  <2>1. ~Wins(Stamp(a), Stamp(b))
    BY <1>4, <1>6, WinsTotal
  <2>2. Stamp(Survivor(curA, b, r + 1)) = Stamp(b)
    BY <1>2, <1>6 DEF Survivor, Stamp
  <2>3. Survivor(curB, a, r + 1) = curB
    BY <1>3, <2>1 DEF Survivor
  <2> QED BY <1>1, <1>5, <2>2, <2>3
<1>7. CASE ~Wins(Stamp(b), Stamp(a))
  <2>1. Wins(Stamp(a), Stamp(b))
    BY <1>4, <1>7, WinsTotal
  <2>2. Stamp(Survivor(curB, a, r + 1)) = Stamp(a)
    BY <1>3, <2>1 DEF Survivor, Stamp
  <2>3. Survivor(curA, b, r + 1) = curA
    BY <1>2, <1>7 DEF Survivor
  <2> QED BY <1>1, <1>5, <2>2, <2>3
<1> QED BY <1>6, <1>7
=============================================================================
