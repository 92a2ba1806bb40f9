------------------------------- MODULE MCReception -------------------------------
(* A small instance of Reception for TLC: headers of two words, payloads   *)
(* of none or three, connections that begin within a header or a payload,  *)
(* and one loop that outlives its connection.                              *)
EXTENDS Reception

MCSizes == {0, 3}
MCOffsets == {1, 4}
MCLoops == {1, 2}
===============================================================================
