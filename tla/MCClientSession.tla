-------------------------- MODULE MCClientSession --------------------------
(* One user's device, and another that may take the account over.          *)
EXTENDS ClientSession
=============================================================================
