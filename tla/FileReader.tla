------------------------------- MODULE FileReader -------------------------------
(***************************************************************************)
(* oculus::FileReader (src/Recorder.cpp): reads a .oculus file item by     *)
(* item, message by message or ping by ping, and can go back to the start. *)
(*                                                                         *)
(* nextItem_ always holds the header that follows the stream's position,   *)
(* read ahead by the previous call; item is its number, and 0 stands for   *)
(* the zeroed header (type 0) that marks the end.  The two error bits of   *)
(* the stream are kept, since they decide what later calls can do: a read  *)
(* cut short by the end of the file sets both, seekg lowers eofbit only.   *)
(* The file may end anywhere (torn: inside its last piece).  One thread.   *)
(***************************************************************************)
EXTENDS LogFile, FiniteSetsExt

CONSTANT Date   \* a stamp derived from the date in the item's header

VARIABLES
  file,       \* the pieces of the file
  torn,       \* whether its last piece is incomplete
  status,     \* "closed", "open", or "refused" by the constructor
  item,       \* nextItem_
  failbit,    \* of file_
  eofbit,     \* of file_
  outcome,    \* of the last call: "message", "end", "throw" or "none"
  returned,   \* history: the messages returned since open or rewind
  skipped     \* history: whether items were passed over since then

fileVars == <<file, torn>>
readerVars == <<status, item, failbit, eofbit, outcome, returned, skipped>>

Whole(i) == i <= Len(file) /\ (i = Len(file) => ~torn)
HasHeader(k) == Whole(2 * k)
HasPayload(k) == Whole(2 * k + 1)
ItemAt(k) == file[2 * k].item
Items == 1 .. Len(file)
SonarItems == {k \in Items : HasHeader(k) /\ ItemAt(k).type = "sonar"}

ReaderTypeOK ==
  /\ file \in Seq(Pieces) /\ torn \in BOOLEAN
  /\ status \in {"closed", "open", "refused"}
  /\ item \in 0 .. Len(file)
  /\ failbit \in BOOLEAN /\ eofbit \in BOOLEAN
  /\ outcome \in {"none", "message", "end", "throw"}
  /\ returned \in Seq([item : Nat, stamp : Nat \union {Date}])
  /\ skipped \in BOOLEAN

ReaderClosed ==
  /\ status = "closed" /\ item = 0 /\ outcome = "none"
  /\ failbit = FALSE /\ eofbit = FALSE
  /\ returned = << >> /\ skipped = FALSE

-------------------------------------------------------------------------------
(* read_next_header on a stream with no error bit up.                      *)
ReadHeader(k) ==
  IF HasHeader(k)
    THEN item' = k /\ UNCHANGED <<failbit, eofbit>>
    ELSE item' = 0 /\ failbit' = TRUE /\ eofbit' = TRUE

(* A payload cut short: nextItem_ is zeroed and the call throws.           *)
PayloadFails ==
  /\ item' = 0 /\ failbit' = TRUE /\ eofbit' = TRUE
  /\ outcome' = "throw"

(* The constructor: open, check_file_header and the first read ahead.      *)
Open ==
  /\ status = "closed"
  /\ IF Whole(1) /\ file[1] = FileHeader
       THEN status' = "open" /\ ReadHeader(1) /\ UNCHANGED outcome
       ELSE /\ status' = "refused" /\ outcome' = "throw"
            /\ UNCHANGED <<item, failbit, eofbit>>
  /\ UNCHANGED <<fileVars, returned, skipped>>

(* jump_item: seeking over a payload that is not there succeeds.           *)
JumpItem ==
  /\ status = "open" /\ item # 0
  /\ ReadHeader(item + 1)
  /\ outcome' = "none"
  /\ skipped' = TRUE
  /\ UNCHANGED <<fileVars, status, returned>>

ReadNextItem ==
  /\ status = "open" /\ item # 0
  /\ IF HasPayload(item) THEN ReadHeader(item + 1) /\ outcome' = "none"
                         ELSE PayloadFails
  /\ skipped' = TRUE
  /\ UNCHANGED <<fileVars, status, returned>>

(* rewind: after a failed read seekg does nothing, tellg and read fail     *)
(* again, and with eofbit lowered read_next_header throws.                 *)
Rewind ==
  /\ status = "open"
  /\ IF failbit
       THEN /\ item' = 0 /\ eofbit' = FALSE /\ outcome' = "throw"
            /\ UNCHANGED <<failbit, returned, skipped>>
       ELSE /\ ReadHeader(1) /\ outcome' = "none"
            /\ returned' = << >> /\ skipped' = FALSE
  /\ UNCHANGED <<fileVars, status>>

-------------------------------------------------------------------------------
(* Mutants: the item after a message is taken for its stamp whatever its   *)
(* type; a short payload goes unnoticed; a message must have a stamp; the  *)
(* search for a message starts after the current item.                     *)
TakenForStamp(k) == HasHeader(k + 1)
Unnoticed(k) == FALSE
StampRequired(k) == ~HasPayload(k) \/ ~HasPayload(k + 1)
AfterCurrent == {k \in SonarItems : k > item}

Stamped(k) == HasHeader(k + 1) /\ ItemAt(k + 1).type = "stamp"

(* A message whose own payload, or whose stamp's, is cut short.            *)
Broken(k) == ~HasPayload(k) \/ (Stamped(k) /\ ~HasPayload(k + 1))

(* The items at which the loop of read_next_message, and that of           *)
(* read_next_ping, which reads and drops what is not a ping, may stop.     *)
MessagesAhead == {k \in SonarItems : k >= item}
PingsAhead == {k \in MessagesAhead : ItemAt(k).msg \in Pings \/ Broken(k)}

(* The loop has jumped to item k: its payload, the stamp if it is the next *)
(* item, and the read ahead.                                               *)
ReadMessageAt(k) ==
  IF Broken(k) THEN PayloadFails /\ UNCHANGED returned
  ELSE /\ outcome' = "message"
       /\ returned' = Append(returned,
            [item |-> k, stamp |-> IF Stamped(k) THEN ItemAt(k + 1).msg ELSE Date])
       /\ ReadHeader(IF Stamped(k) THEN k + 2 ELSE k + 1)

NothingAhead ==
  /\ item' = 0 /\ outcome' = "end"
  /\ IF item = 0 THEN UNCHANGED <<failbit, eofbit>>
                 ELSE failbit' = TRUE /\ eofbit' = TRUE
  /\ UNCHANGED returned

ReadFrom(ahead) ==
  IF item = 0 \/ ahead = {} THEN NothingAhead ELSE ReadMessageAt(Min(ahead))

ReadNextMessage ==
  /\ status = "open"
  /\ ReadFrom(MessagesAhead)
  /\ UNCHANGED <<fileVars, status, skipped>>

ReadNextPing ==
  /\ status = "open"
  /\ ReadFrom(PingsAhead)
  /\ skipped' = TRUE
  /\ UNCHANGED <<fileVars, status>>

ReaderNext ==
  \/ Open \/ JumpItem \/ ReadNextItem \/ Rewind
  \/ ReadNextMessage \/ ReadNextPing

ReaderSpec ==
  /\ file \in Seq(Pieces) /\ torn \in BOOLEAN /\ ReaderClosed
  /\ [][ReaderNext]_<<fileVars, readerVars>>

-------------------------------------------------------------------------------
(* What is returned was recorded whole, in the order of the file, nothing  *)
(* twice, whatever calls are mixed (read_next_message 219-226, jump_item).  *)
ReadsInOrder ==
  /\ \A i \in 1 .. Len(returned) :
       returned[i].item \in SonarItems /\ HasPayload(returned[i].item)
  /\ \A i, j \in 1 .. Len(returned) : i < j => returned[i].item < returned[j].item

(* A reader that was never asked to pass over anything has been given      *)
(* every whole message behind its position, and at the end, or after an    *)
(* exception, every whole message of the file: a truncated file costs the  *)
(* message that was cut and no other (155-164, 193-199, 219-222).          *)
NothingLeftBehind ==
  status = "open" /\ ~skipped =>
    \A k \in SonarItems :
       ~Broken(k) /\ (item # 0 => k < item) =>
         \E i \in 1 .. Len(returned) : returned[i].item = k

(* rewind brings a reader back to the first item: oculus_to_video.py:52-53 *)
(* rewinds after reading up to eleven pings, then reads the first again.   *)
RewindRestarts == [][Rewind => outcome' = "none"]_<<fileVars, readerVars>>
===============================================================================
