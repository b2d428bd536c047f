---------------------------- MODULE MCBlobStore ----------------------------
(* One card that may have a photo, and two upload requests, which are      *)
(* interchangeable.                                                        *)
EXTENDS BlobStore, TLC

MCBlobsOf == [v \in Val |-> IF v = 1 THEN BlobId ELSE {}]

Requests == Permutations(Handler)
=============================================================================
