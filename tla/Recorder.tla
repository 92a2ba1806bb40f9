-------------------------------- MODULE Recorder --------------------------------
(***************************************************************************)
(* Recording from Python: oculus::Recorder (src/Recorder.cpp) as           *)
(* OculusPythonHandle uses it (python/src/oculus_python.cpp).              *)
(*                                                                         *)
(* The io thread hands each message to a copy of the message callbacks;    *)
(* the recorder's callback writes it with four ostream::write, without a   *)
(* lock.  The methods of the handle run on a Python thread, or on the io   *)
(* thread inside a Python callback, and always with the GIL: one at a time *)
(* (op), but between any two steps of the io thread.  Each ostream::write, *)
(* open and close is one step.  A crash keeps any beginning of the file    *)
(* that was open, since a stream writes its buffer out in order.           *)
(***************************************************************************)
EXTENDS LogFile, FiniteSets, FiniteSetsExt

CONSTANTS MaxMessages,  \* bound: messages received from the sonar
          MaxFiles,     \* bound: files opened for writing
          MaxOthers     \* bound: other message callbacks added

ASSUME BoundsAssumption == MaxMessages \in Nat /\ MaxFiles \in Nat /\ MaxOthers \in Nat

Files == 1 .. MaxFiles
Closed == 0
Owners == {"recorder", "other"}

VARIABLES
  disk,        \* file -> the pieces written to it
  cut,         \* file -> whether a crash left its last piece incomplete
  openFile,    \* file_, or Closed
  opened,      \* how many files have been opened
  callbacks,   \* messageCallbacks_: id -> owner
  recorderId,  \* recorderCallbackId_
  op,          \* what the method of the handle that has the GIL does next
  opByIo,      \* whether the io thread runs it
  ioPc,        \* where the io thread is
  message,     \* the message it handles, counted from 1
  pending,     \* its copy of the callbacks, less those it has run
  alive,       \* whether the process runs
  session,     \* history: the file between the end of recorder_start and
               \* the beginning of recorder_stop, else Closed
  covering,    \* history: session, if it has lasted since message came
  due,         \* history: file -> the messages handled wholly in its session
  quiet        \* history: files opened with no recorder callback registered
               \* or still to run

diskVars == <<disk, cut>>
ioVars == <<ioPc, message, pending>>
handleVars == <<openFile, opened, callbacks, recorderId, op, opByIo>>
historyVars == <<session, covering, due, quiet>>
recorderVars == <<diskVars, ioVars, handleVars, historyVars, alive>>

Writing == {"sonarHeader", "sonarPayload", "stampHeader", "stampPayload"}

RecorderTypeOK ==
  /\ disk \in [Files -> Seq(Pieces)]
  /\ cut \in [Files -> BOOLEAN]
  /\ opened \in 0 .. MaxFiles
  /\ openFile \in 0 .. opened
  /\ callbacks \in [DOMAIN callbacks -> Owners]
  /\ DOMAIN callbacks \subseteq Nat /\ IsFiniteSet(DOMAIN callbacks)
  /\ recorderId \in Nat \union {-1}
  /\ op \in {"none", "header", "subscribe", "unsubscribe"}
  /\ opByIo \in BOOLEAN
  /\ ioPc \in {"idle", "calling", "inside"} \union Writing
  /\ message \in 0 .. MaxMessages
  /\ pending \in [DOMAIN pending -> Owners]
  /\ alive \in BOOLEAN
  /\ session \in 0 .. opened /\ covering \in 0 .. opened
  /\ due \in [Files -> SUBSET (1 .. MaxMessages)]
  /\ quiet \subseteq Files

RecorderInit ==
  /\ disk = [f \in Files |-> << >>]
  /\ cut = [f \in Files |-> FALSE]
  /\ openFile = Closed /\ opened = 0
  /\ callbacks = << >> /\ pending = << >>
  /\ recorderId = -1
  /\ op = "none" /\ opByIo = FALSE
  /\ ioPc = "idle" /\ message = 0
  /\ alive = TRUE
  /\ session = Closed /\ covering = Closed
  /\ due = [f \in Files |-> {}]
  /\ quiet = {}

Without(f, i) == [j \in DOMAIN f \ {i} |-> f[j]]
Put(f, i, v) == [j \in DOMAIN f \union {i} |-> IF j = i THEN v ELSE f[j]]

(* The id add_callback gives: the first one free from the size on.         *)
NewId == Min((Cardinality(DOMAIN callbacks) .. 2 * Cardinality(DOMAIN callbacks))
               \ DOMAIN callbacks)

-------------------------------------------------------------------------------
(* The io thread. *)

BeginMessage ==
  /\ ioPc = "idle"
  /\ message < MaxMessages
  /\ message' = message + 1
  /\ pending' = callbacks
  /\ ioPc' = "calling"
  /\ covering' = session
  /\ UNCHANGED <<diskVars, handleVars, alive, session, due, quiet>>

(* A Python callback, in which the handle may be used.                     *)
RunOther(i) ==
  /\ ioPc = "calling"
  /\ i \in DOMAIN pending /\ pending[i] = "other"
  /\ pending' = Without(pending, i)
  /\ ioPc' = "inside"
  /\ UNCHANGED <<diskVars, handleVars, historyVars, alive, message>>

OtherReturns ==
  /\ ioPc = "inside"
  /\ ~(op # "none" /\ opByIo)
  /\ ioPc' = "calling"
  /\ UNCHANGED <<diskVars, handleVars, historyVars, alive, message, pending>>

(* write(Message) returns at once if no file is open.                      *)
RunRecorder(i) ==
  /\ ioPc = "calling"
  /\ i \in DOMAIN pending /\ pending[i] = "recorder"
  /\ pending' = Without(pending, i)
  /\ ioPc' = IF openFile = Closed THEN "calling" ELSE "sonarHeader"
  /\ UNCHANGED <<diskVars, handleVars, historyVars, alive, message>>

(* ostream::write: on a closed stream nothing is written.                  *)
Write(piece) ==
  disk' = IF openFile = Closed THEN disk
          ELSE [disk EXCEPT ![openFile] = Append(@, piece)]

(* write(item, data) tests is_open before the header, not again before the *)
(* payload; the two items are written whether or not the first one was.    *)
WriteItem(what, header, payload, after) ==
  /\ \/ /\ ioPc = header
        /\ Write(Header(what))
        /\ ioPc' = IF openFile = Closed THEN after ELSE payload
     \/ /\ ioPc = payload
        /\ Write(Payload(what))
        /\ ioPc' = after
  /\ UNCHANGED <<cut, handleVars, historyVars, alive, message, pending>>

(* Mutant: messages without a stamp. *)
NoStamp == WriteItem(SonarItem(message), "sonarHeader", "sonarPayload", "calling")

WriteMessage ==
  \/ WriteItem(SonarItem(message), "sonarHeader", "sonarPayload", "stampHeader")
  \/ WriteItem(StampItem(message), "stampHeader", "stampPayload", "calling")

EndMessage ==
  /\ ioPc = "calling"
  /\ DOMAIN pending = {}
  /\ ioPc' = "idle"
  /\ due' = IF covering = Closed THEN due
            ELSE [due EXCEPT ![covering] = @ \union {message}]
  /\ covering' = Closed
  /\ UNCHANGED <<diskVars, handleVars, alive, message, pending, session, quiet>>

-------------------------------------------------------------------------------
(* The handle, under the GIL. *)

MayCall(byIo) == op = "none" /\ (byIo => ioPc = "inside")

NoWriter ==
  /\ ioPc \notin Writing
  /\ \A i \in DOMAIN callbacks : callbacks[i] # "recorder"
  /\ \A i \in DOMAIN pending : pending[i] # "recorder"

(* recorder_start returns at once if a file is open; else Recorder::open.  *)
RecorderStart(byIo) ==
  /\ MayCall(byIo)
  /\ openFile = Closed
  /\ opened < MaxFiles
  /\ opened' = opened + 1
  /\ openFile' = opened + 1
  /\ op' = "header" /\ opByIo' = byIo
  /\ quiet' = IF NoWriter THEN quiet \union {opened + 1} ELSE quiet
  /\ UNCHANGED <<diskVars, ioVars, alive, callbacks, recorderId, session, covering, due>>

WriteFileHeader ==
  /\ op = "header"
  /\ Write(FileHeader)
  /\ op' = "subscribe"
  /\ UNCHANGED <<cut, ioVars, historyVars, alive, openFile, opened, callbacks,
                 recorderId, opByIo>>

(* Mutant: the callback is registered before the file is opened.           *)
SubscribeFirst == op \in {"header", "subscribe"}

MaySubscribe == op = "subscribe"

Subscribe ==
  /\ MaySubscribe
  /\ callbacks' = Put(callbacks, NewId, "recorder")
  /\ recorderId' = NewId
  /\ op' = IF op = "subscribe" THEN "none" ELSE op
  /\ session' = openFile
  /\ UNCHANGED <<diskVars, ioVars, alive, openFile, opened, opByIo, covering, due, quiet>>

(* recorder_stop, also when nothing is recorded.                           *)
RecorderStop(byIo) ==
  /\ MayCall(byIo)
  /\ openFile' = Closed
  /\ session' = Closed /\ covering' = Closed
  /\ op' = "unsubscribe" /\ opByIo' = byIo
  /\ UNCHANGED <<diskVars, ioVars, alive, opened, callbacks, recorderId, due, quiet>>

(* Only ids above 0 are removed, and the id is kept.                       *)
Unsubscribe ==
  /\ op = "unsubscribe"
  /\ callbacks' = IF recorderId > 0 THEN Without(callbacks, recorderId) ELSE callbacks
  /\ op' = "none"
  /\ UNCHANGED <<diskVars, ioVars, historyVars, alive, openFile, opened, recorderId,
                 opByIo>>

AddMessageCallback(byIo) ==
  /\ MayCall(byIo)
  /\ Cardinality({i \in DOMAIN callbacks : callbacks[i] = "other"}) < MaxOthers
  /\ callbacks' = Put(callbacks, NewId, "other")
  /\ UNCHANGED <<diskVars, ioVars, historyVars, alive, openFile, opened, recorderId,
                 op, opByIo>>

-------------------------------------------------------------------------------
(* The process ends, and with it all but the files: its destructors close  *)
(* the file, or it crashes and the open file is cut.                       *)
Gone ==
  /\ alive' = FALSE
  /\ openFile' = Closed /\ callbacks' = << >> /\ pending' = << >>
  /\ recorderId' = -1 /\ op' = "none" /\ opByIo' = FALSE
  /\ ioPc' = "idle" /\ message' = 0 /\ session' = Closed /\ covering' = Closed
  /\ UNCHANGED <<opened, quiet>>

Exit ==
  /\ ioPc = "idle" /\ op = "none"
  /\ Gone
  /\ UNCHANGED <<diskVars, due>>

Crash ==
  /\ openFile # Closed
  /\ \E n \in 0 .. Len(disk[openFile]), t \in BOOLEAN :
        /\ t => n > 0
        /\ disk' = [disk EXCEPT ![openFile] = SubSeq(@, 1, n)]
        /\ cut' = [cut EXCEPT ![openFile] = t]
  /\ due' = [due EXCEPT ![openFile] = {}]
  /\ Gone

RecorderNext ==
  /\ alive
  /\ \/ BeginMessage \/ OtherReturns \/ WriteMessage \/ EndMessage
     \/ \E i \in DOMAIN pending : RunOther(i) \/ RunRecorder(i)
     \/ \E byIo \in BOOLEAN : \/ RecorderStart(byIo) \/ RecorderStop(byIo)
                              \/ AddMessageCallback(byIo)
     \/ WriteFileHeader \/ Subscribe \/ Unsubscribe
     \/ Exit \/ Crash

RecorderSpec == RecorderInit /\ [][RecorderNext]_recorderVars

-------------------------------------------------------------------------------
(* A file opened while no recorder callback is registered or running is a  *)
(* log up to where it ends, wherever a stop or a crash falls between the   *)
(* writes of a message (recorder_start 103-111, write 47-87).              *)
QuietFilesAreLogs == \A f \in quiet : IsLog(disk[f])

(* Every message handled between the end of recorder_start and the call of *)
(* recorder_stop is in the file with its stamp, in four consecutive        *)
(* pieces, whatever happened to the ids and to the other callbacks.        *)
MessageAt(f, i) ==
  /\ i + 3 <= Len(disk[f])
  /\ disk[f][i + 1] = Payload(disk[f][i].item)
  /\ disk[f][i + 2] = Header(StampItem(disk[f][i].item.msg))
  /\ disk[f][i + 3] = Payload(StampItem(disk[f][i].item.msg))

SessionsAreRecorded ==
  \A f \in Files : \A m \in due[f] :
     \E i \in 1 .. Len(disk[f]) : disk[f][i] = Header(SonarItem(m)) /\ MessageAt(f, i)

-------------------------------------------------------------------------------
(* A session records each of its messages once: recorder_stop (112-117)    *)
(* ends what recorder_start began.                                         *)
RecordedOnce ==
  \A f \in Files : \A i, j \in 1 .. Len(disk[f]) :
     i # j => disk[f][i] # disk[f][j]
===============================================================================
