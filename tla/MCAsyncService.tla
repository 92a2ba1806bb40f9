----------------------------- MODULE MCAsyncService -----------------------------
(* A small instance of AsyncService for TLC. *)
EXTENDS AsyncService

CONSTANTS u1, u2

MCUsers == {u1, u2}
===============================================================================
