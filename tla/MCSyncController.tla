------------------------- MODULE MCSyncController --------------------------
(* A controller and two cards.                                             *)
EXTENDS SyncController
=============================================================================
