------------------------------ MODULE MCRecording ------------------------------
(* Small instances of Recording for TLC. *)
EXTENDS Recording

MCPings == {2}

(* The beginnings of logs of at most two items of a foreign kind: pings,   *)
(* other messages, and items of other types, in any order.                 *)
MCItems == {SonarItem(1), SonarItem(2), OtherItem}
MCForeignLogs ==
  {SubSeq(<<FileHeader, Header(a), Payload(a), Header(b), Payload(b)>>, 1, n) :
     a \in MCItems, b \in MCItems, n \in 1 .. 5}
===============================================================================
