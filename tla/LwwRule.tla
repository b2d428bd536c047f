------------------------------ MODULE LwwRule ------------------------------
(***************************************************************************)
(* The last-writer-wins rule that the Go server (sync.Resolve) and the     *)
(* Dart client (ConflictResolver.accept) implement independently, as pure  *)
(* operators over the fields the rule reads.                               *)
(*                                                                         *)
(* Device ids are UUID strings compared byte by byte; the model takes them *)
(* from the naturals, which have the same kind of total order, and keeps 0 *)
(* for the empty string of a record that names no device.                  *)
(***************************************************************************)
EXTENDS Integers

CONSTANTS
    Device,   \* the family's devices, as positive naturals
    Time      \* the clock readings (unix ms) a device may stamp a write with

ASSUME DeviceAssumption == Device \subseteq Nat \ {0}
ASSUME TimeAssumption == Time \subseteq Nat

NoDevice == 0

(* A write's stamp: what the rule compares. *)
StampType == [at : Nat, dev : Nat]

(* The stamp of any record that carries one. *)
Stamp(r) == [at |-> r.at, dev |-> r.dev]

(* Does stamp a sort strictly after stamp b?                               *)
Wins(a, b) ==
    \/ a.at > b.at
    \/ a.at = b.at /\ a.dev > b.dev

(* Should the write "in" replace the record "cur"?  cur.rev = 0 means that *)
(* there is no record: then only a write that never had one is accepted.   *)
Resolve(cur, in) ==
    \/ cur.rev = 0 /\ in.base = 0
    \/ cur.rev # 0 /\ cur.rev = in.base
    \/ cur.rev # 0 /\ Wins(Stamp(in), Stamp(cur))
=============================================================================
