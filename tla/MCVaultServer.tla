--------------------------- MODULE MCVaultServer ---------------------------
(* A small vault for TLC: two cards, two devices, one photo.               *)
EXTENDS VaultServer

CONSTANT b1

\* Content 1 has no photo, content 2 has one.
MCBlobsOf == [v \in Val |-> IF v = 2 THEN {b1} ELSE {}]
=============================================================================
