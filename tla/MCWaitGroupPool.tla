--------------------------- MODULE MCWaitGroupPool ---------------------------
(* Small instances of WaitGroupPool for TLC. *)
EXTENDS WaitGroupPool
=============================================================================
