-------------------------------- MODULE Recording --------------------------------
(***************************************************************************)
(* A .oculus file from end to end: a process records sonar messages        *)
(* (Recorder) until it exits or crashes, then another one reads one of the *)
(* files it left (FileReader).  Init also lets the file come from the      *)
(* sonar maker's software, which writes items of other types and no        *)
(* stamps, and which may be cut too.                                       *)
(***************************************************************************)
EXTENDS Recorder, FileReader

CONSTANT ForeignLogs   \* files that were not written by this library

ASSUME ForeignAssumption == ForeignLogs \subseteq Seq(Pieces)

VARIABLE reading       \* the file being read, Closed, or Foreign

Foreign == MaxFiles + 1

vars == <<recorderVars, fileVars, readerVars, reading>>

TypeOK == RecorderTypeOK /\ ReaderTypeOK /\ reading \in 0 .. Foreign

Init ==
  /\ RecorderInit /\ ReaderClosed
  /\ \/ reading = Closed /\ file = << >> /\ torn = FALSE
     \/ reading = Foreign /\ file \in ForeignLogs /\ torn \in BOOLEAN

Record ==
  /\ reading = Closed
  /\ RecorderNext
  /\ UNCHANGED <<fileVars, readerVars, reading>>

(* Only a file that is a log, or is refused, is read: what a reader makes  *)
(* of bytes that are no header is not modelled.                            *)
ChooseFile(f) ==
  /\ reading = Closed /\ ~alive
  /\ disk[f] # << >> /\ disk[f][1] = FileHeader => IsLog(disk[f])
  /\ file' = disk[f] /\ torn' = cut[f] /\ reading' = f
  /\ UNCHANGED <<recorderVars, readerVars>>

Replay ==
  /\ reading # Closed
  /\ ReaderNext
  /\ UNCHANGED <<recorderVars, reading>>

Next == Record \/ Replay \/ \E f \in 1 .. opened : ChooseFile(f)

Spec == Init /\ [][Next]_vars

-------------------------------------------------------------------------------
(* From end to end: a reader that reaches the end of a file that was not   *)
(* cut by a crash has been given every message handled during the session, *)
(* each with its own stamp.                                                *)
ReplayGivesTheSession ==
  reading \in Files /\ status = "open" /\ item = 0 /\ ~skipped =>
    \A m \in due[reading] :
       \E i \in 1 .. Len(returned) :
          /\ ItemAt(returned[i].item).msg = m
          /\ returned[i].stamp = m

(* A file that neither a crash nor a stop cut is read without an exception *)
(* unless the reader goes back from its end.                               *)
OnlyCutFilesThrow ==
  [][ outcome' = "throw" /\ ~Rewind /\ IsLog(file) =>
        torn \/ Len(file) % 2 = 0 ]_vars
===============================================================================
