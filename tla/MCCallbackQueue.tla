--------------------------- MODULE MCCallbackQueue ---------------------------
(* Small instances of CallbackQueue for TLC. *)
EXTENDS CallbackQueue, TLC

CONSTANTS w1, w2, c1, c2, c3

MCWaiters == {w1, w2}
MCOneWaiter == {w1}
MCNobody == {}
MCClients == {c1, c2, c3}
MCOneClient == {c1}

(* The clients are interchangeable: nothing tells one from another. *)
ClientSymmetry == Permutations(Clients)
===============================================================================
