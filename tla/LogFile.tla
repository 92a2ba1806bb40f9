-------------------------------- MODULE LogFile --------------------------------
(***************************************************************************)
(* The .oculus file (include/oculus_driver/Recorder.h): a file header and  *)
(* items, each a header that gives its type and size followed by its       *)
(* payload.  A file is the sequence of the pieces that were written; a     *)
(* piece is a whole argument of ostream::write.  Sizes, magic numbers and  *)
(* versions are left out: only what tells one piece from another is kept.  *)
(***************************************************************************)
EXTENDS Integers, Sequences

CONSTANTS Pings,   \* the messages (numbered from 1) that are pings
          NoMsg    \* what an item that carries no message carries

ASSUME PingsAssumption == Pings \subseteq Nat \ {0}
ASSUME NoMsgAssumption == NoMsg \notin Nat

(* rt_oculusSonar, rt_oculusSonarStamp, and the types others write.        *)
SonarItem(m) == [type |-> "sonar", msg |-> m]
StampItem(m) == [type |-> "stamp", msg |-> m]
OtherItem == [type |-> "other", msg |-> NoMsg]

LogItems == [type : {"sonar", "stamp"}, msg : Nat] \union {OtherItem}

FileHeader == [part |-> "file", item |-> OtherItem]
Header(i) == [part |-> "header", item |-> i]
Payload(i) == [part |-> "payload", item |-> i]

Pieces == [part : {"file", "header", "payload"}, item : LogItems]

(* A file that can be read from its beginning: item k has its header at 2k *)
(* and its payload at 2k+1; the last of them may be missing.               *)
IsLog(f) ==
  \A i \in 1 .. Len(f) :
     IF i = 1 THEN f[i] = FileHeader
     ELSE IF i % 2 = 0 THEN f[i].part = "header"
     ELSE f[i] = Payload(f[i - 1].item)
===============================================================================
