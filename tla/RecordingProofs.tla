---------------------------- MODULE RecordingProofs ----------------------------
(***************************************************************************)
(* Proofs about Recording.  Whatever is started, stopped and cut, a file   *)
(* that was opened with no writer left is a log; what a session handled is *)
(* on the disk; and a reader gets it back.                                 *)
(*                                                                         *)
(* The argument: nobody writes to such a file before its header is there,  *)
(* and from then on only the io thread does, piece after piece; where it   *)
(* is in a message tells what the file ends with.  During a session nobody *)
(* else touches its file, and a message that began in it is either still   *)
(* to be given to the recorder, or being written, with what is there at    *)
(* the end of the file, or there.  What is there stays, and                *)
(* FileReaderProofs leads on.                                              *)
(***************************************************************************)
EXTENDS Recording, FileReaderProofs, SequenceTheorems, FiniteSetTheorems

(* The file ends with the header of x. *)
EndsWith(f, x) == Len(f) % 2 = 0 /\ f[Len(f)] = Header(x)

(* What the open file ends with, from where the io thread is.              *)
EndFits ==
  /\ disk[openFile] # << >>
  /\ ioPc = "sonarPayload" => EndsWith(disk[openFile], SonarItem(message))
  /\ ioPc = "stampPayload" => EndsWith(disk[openFile], StampItem(message))
  /\ ioPc \notin {"sonarPayload", "stampPayload"} => Len(disk[openFile]) % 2 = 1

FilesInv ==
  /\ disk \in [Files -> Seq(Pieces)]
  /\ opened \in 0 .. MaxFiles /\ openFile \in 0 .. opened /\ message \in Nat
  /\ quiet \subseteq 1 .. opened
  /\ \A f \in Files : f > opened => disk[f] = << >>

OpenInv ==
  openFile \in quiet =>
    /\ op = "header" => disk[openFile] = << >>
    /\ op # "header" => EndFits
    /\ op \in {"header", "subscribe"} => NoWriter

RecordInv == FilesInv /\ OpenInv /\ QuietFilesAreLogs

-------------------------------------------------------------------------------
(* Logs. *)

LEMMA LogBegins ==
  Append(<< >>, FileHeader) \in Seq(Pieces) /\ IsLog(Append(<< >>, FileHeader))
  /\ Len(Append(<< >>, FileHeader)) = 1
<1>1. FileHeader \in Pieces
  BY DEF FileHeader, Pieces, LogItems
<1> QED  BY <1>1 DEF IsLog

LEMMA PrefixIsLog ==
  ASSUME NEW f \in Seq(Pieces), IsLog(f), NEW n \in 0 .. Len(f)
  PROVE  SubSeq(f, 1, n) \in Seq(Pieces) /\ IsLog(SubSeq(f, 1, n))
<1> DEFINE g == SubSeq(f, 1, n)
<1>1. \A i \in 1 .. n : f[i] \in Pieces
  OBVIOUS
<1>2. g \in Seq(Pieces) /\ Len(g) = n /\ \A i \in 1 .. n : g[i] = f[i]
  BY <1>1, SubSeqProperties
<1> HIDE DEF g
<1>3. ASSUME NEW i \in 1 .. n
      PROVE  IF i = 1 THEN g[i] = FileHeader
             ELSE IF i % 2 = 0 THEN g[i].part = "header"
             ELSE g[i] = Payload(g[i - 1].item)
  <2>1. i \in 1 .. Len(f) /\ g[i] = f[i] /\ (i # 1 => g[i - 1] = f[i - 1])
    BY <1>2
  <2> QED  BY <2>1 DEF IsLog
<1>4. IsLog(g)
  BY <1>2, <1>3 DEF IsLog
<1> QED  BY <1>2, <1>4 DEF g

LEMMA HeaderExtends ==
  ASSUME NEW f \in Seq(Pieces), IsLog(f), Len(f) % 2 = 1, NEW x \in LogItems
  PROVE  LET g == Append(f, Header(x))
         IN  g \in Seq(Pieces) /\ IsLog(g) /\ EndsWith(g, x) /\ g # << >>
<1> DEFINE g == Append(f, Header(x))
<1>1. Header(x) \in Pieces
  BY DEF Header, Pieces
<1>2. /\ g \in Seq(Pieces) /\ Len(g) = Len(f) + 1 /\ Len(f) \in Nat
      /\ g[Len(f) + 1] = Header(x) /\ \A i \in 1 .. Len(f) : g[i] = f[i]
  BY <1>1
<1> HIDE DEF g
<1>3. (Len(f) + 1) % 2 = 0 /\ Len(f) + 1 # 1
  BY <1>2
<1>4. ASSUME NEW i \in 1 .. Len(g)
      PROVE  IF i = 1 THEN g[i] = FileHeader
             ELSE IF i % 2 = 0 THEN g[i].part = "header"
             ELSE g[i] = Payload(g[i - 1].item)
  <2>1. CASE i \in 1 .. Len(f)
    <3>1. g[i] = f[i] /\ (i # 1 => g[i - 1] = f[i - 1])
      BY <1>2, <2>1
    <3> QED  BY <2>1, <3>1 DEF IsLog
  <2>2. CASE i = Len(f) + 1
    BY <1>2, <1>3, <2>2 DEF Header
  <2> QED  BY <1>2, <2>1, <2>2
<1>5. IsLog(g) /\ EndsWith(g, x) /\ g # << >>
  BY <1>2, <1>3, <1>4 DEF IsLog, EndsWith
<1> QED  BY <1>2, <1>5 DEF g

LEMMA PayloadExtends ==
  ASSUME NEW f \in Seq(Pieces), IsLog(f), f # << >>, NEW x \in LogItems, EndsWith(f, x)
  PROVE  LET g == Append(f, Payload(x))
         IN  g \in Seq(Pieces) /\ IsLog(g) /\ Len(g) % 2 = 1 /\ g # << >>
<1> DEFINE g == Append(f, Payload(x))
<1>1. Payload(x) \in Pieces
  BY DEF Payload, Pieces
<1>2. /\ g \in Seq(Pieces) /\ Len(g) = Len(f) + 1 /\ Len(f) \in Nat
      /\ g[Len(f) + 1] = Payload(x) /\ \A i \in 1 .. Len(f) : g[i] = f[i]
  BY <1>1
<1> HIDE DEF g
<1>3. /\ (Len(f) + 1) % 2 = 1 /\ Len(f) \in 1 .. Len(f) /\ (Len(f) + 1) - 1 = Len(f)
      /\ Len(f) + 1 # 1
  BY <1>2 DEF EndsWith
<1>4. ASSUME NEW i \in 1 .. Len(g)
      PROVE  IF i = 1 THEN g[i] = FileHeader
             ELSE IF i % 2 = 0 THEN g[i].part = "header"
             ELSE g[i] = Payload(g[i - 1].item)
  <2>1. CASE i \in 1 .. Len(f)
    <3>1. g[i] = f[i] /\ (i # 1 => g[i - 1] = f[i - 1])
      BY <1>2, <2>1
    <3> QED  BY <2>1, <3>1 DEF IsLog
  <2>2. CASE i = Len(f) + 1
    <3>1. g[i - 1] = Header(x) /\ i # 1 /\ i % 2 = 1 /\ g[i] = Payload(x)
      BY <1>2, <1>3, <2>2 DEF EndsWith
    <3>2. Header(x).item = x
      BY DEF Header
    <3> QED  BY <3>1, <3>2
  <2> QED  BY <1>2, <2>1, <2>2
<1>5. IsLog(g) /\ Len(g) % 2 = 1 /\ g # << >>
  BY <1>2, <1>3, <1>4 DEF IsLog
<1> QED  BY <1>2, <1>5 DEF g

-------------------------------------------------------------------------------
(* The steps that write, one piece after the other. *)

LEMMA LogItemTypes ==
  ASSUME message \in Nat
  PROVE  SonarItem(message) \in LogItems /\ StampItem(message) \in LogItems
BY DEF SonarItem, StampItem, LogItems

(* A file that is not open, or not counted among the quiet ones, does not  *)
(* matter: only what happens to the open file has to be looked at.         *)
LEMMA WriteOne ==
  ASSUME RecordInv, NEW x, Write(x), UNCHANGED <<opened, openFile, message, quiet>>,
         openFile \in Files => Append(disk[openFile], x) \in Seq(Pieces),
         openFile \in quiet => IsLog(Append(disk[openFile], x))
  PROVE  /\ FilesInv' /\ QuietFilesAreLogs'
         /\ openFile \in quiet => disk'[openFile] = Append(disk[openFile], x)
<1> USE DEF RecordInv, FilesInv, Closed, Files
<1>1. CASE openFile = Closed
  BY <1>1, BoundsAssumption DEF Write, QuietFilesAreLogs
<1>2. CASE openFile # Closed
  <2>1. openFile \in Files /\ disk' = [disk EXCEPT ![openFile] = Append(@, x)]
    BY <1>2, BoundsAssumption DEF Write
  <2>2. /\ disk' \in [Files -> Seq(Pieces)] /\ disk'[openFile] = Append(disk[openFile], x)
        /\ \A f \in Files : f # openFile => disk'[f] = disk[f]
    BY <2>1
  <2>3. FilesInv'
    BY <2>1, <2>2
  <2>4. ASSUME NEW f \in quiet
        PROVE  IsLog(disk'[f])
    <3>1. CASE f = openFile
      BY <2>2, <3>1
    <3>2. CASE f # openFile
      <4>1. f \in Files
        BY BoundsAssumption
      <4>2. disk'[f] = disk[f] /\ IsLog(disk[f])
        BY <2>2, <3>2, <4>1 DEF QuietFilesAreLogs
      <4> QED  BY <4>2
    <3> QED  BY <3>1, <3>2
  <2>5. QuietFilesAreLogs'
    BY <2>4 DEF QuietFilesAreLogs
  <2> QED  BY <2>2, <2>3, <2>5
<1> QED  BY <1>1, <1>2

LEMMA FileHeaderStep ==
  ASSUME RecordInv, WriteFileHeader
  PROVE  RecordInv'
<1>1. /\ op = "header" /\ Write(FileHeader) /\ op' = "subscribe"
      /\ UNCHANGED <<opened, openFile, message, quiet, ioPc, pending, callbacks>>
  BY DEF WriteFileHeader, ioVars, historyVars
<1>2. openFile \in quiet => disk[openFile] = << >> /\ NoWriter
  BY <1>1 DEF RecordInv, OpenInv
<1>3. openFile \in Files => Append(disk[openFile], FileHeader) \in Seq(Pieces)
  <2>1. FileHeader \in Pieces
    BY DEF FileHeader, Pieces, LogItems
  <2> QED  BY <2>1 DEF RecordInv, FilesInv
<1>4. openFile \in quiet => IsLog(Append(disk[openFile], FileHeader))
  BY <1>2, LogBegins
<1>5. /\ FilesInv' /\ QuietFilesAreLogs'
      /\ openFile \in quiet => disk'[openFile] = Append(disk[openFile], FileHeader)
  BY <1>1, <1>3, <1>4, WriteOne
<1>6. OpenInv'
  <2> SUFFICES ASSUME openFile \in quiet  PROVE OpenInv'
    BY <1>1 DEF OpenInv
  <2>1. disk'[openFile] = Append(<< >>, FileHeader)
    BY <1>2, <1>5
  <2>2. disk'[openFile] # << >> /\ Len(disk'[openFile]) % 2 = 1
    BY <2>1, LogBegins
  <2>3. ioPc \notin {"sonarPayload", "stampPayload"} /\ NoWriter'
    BY <1>1, <1>2 DEF NoWriter, Writing
  <2> QED  BY <1>1, <2>2, <2>3 DEF OpenInv, EndFits
<1> QED  BY <1>5, <1>6 DEF RecordInv

(* write(item, data), for either item of a message.                        *)
LEMMA ItemStep ==
  ASSUME RecordInv, NEW what \in LogItems, NEW header, NEW payload, NEW after,
         WriteItem(what, header, payload, after),
         header \in Writing, payload \in Writing,
         header \notin {"sonarPayload", "stampPayload"},
         after \notin {"sonarPayload", "stampPayload"},
         payload # header,
         \/ payload = "sonarPayload" /\ what = SonarItem(message)
         \/ payload = "stampPayload" /\ what = StampItem(message)
  PROVE  RecordInv'
<1>1. UNCHANGED <<opened, openFile, message, quiet, op, pending, callbacks>>
  BY DEF WriteItem, handleVars, historyVars
<1>2. ioPc = header \/ ioPc = payload
  BY DEF WriteItem
<1>3. /\ openFile \in quiet => openFile \in Files /\ openFile # Closed /\ IsLog(disk[openFile])
      /\ openFile \in Files => disk[openFile] \in Seq(Pieces)
  BY BoundsAssumption DEF RecordInv, FilesInv, Files, Closed, QuietFilesAreLogs
<1>4. openFile \in quiet => op \notin {"header", "subscribe"} /\ EndFits
  BY <1>2 DEF RecordInv, OpenInv, NoWriter
<1>5. CASE ioPc = header
  <2>1. Write(Header(what)) /\ (openFile # Closed => ioPc' = payload)
        /\ (openFile = Closed => ioPc' = after)
    BY <1>5 DEF WriteItem
  <2>2. openFile \in quiet => /\ IsLog(Append(disk[openFile], Header(what)))
                              /\ EndsWith(Append(disk[openFile], Header(what)), what)
                              /\ Append(disk[openFile], Header(what)) # << >>
    <3> SUFFICES ASSUME openFile \in quiet
                 PROVE  /\ IsLog(Append(disk[openFile], Header(what)))
                        /\ EndsWith(Append(disk[openFile], Header(what)), what)
                        /\ Append(disk[openFile], Header(what)) # << >>
      OBVIOUS
    <3>1. Len(disk[openFile]) % 2 = 1
      BY <1>4, <1>5 DEF EndFits
    <3> QED  BY <1>3, <3>1, HeaderExtends
  <2>3. openFile \in Files => Append(disk[openFile], Header(what)) \in Seq(Pieces)
    <3>1. Header(what) \in Pieces
      BY DEF Header, Pieces
    <3> QED  BY <1>3, <3>1
  <2>4. /\ FilesInv' /\ QuietFilesAreLogs'
        /\ openFile \in quiet => disk'[openFile] = Append(disk[openFile], Header(what))
    BY <1>1, <2>1, <2>2, <2>3, WriteOne
  <2>5. OpenInv'
    <3> SUFFICES ASSUME openFile \in quiet  PROVE OpenInv'
      BY <1>1 DEF OpenInv
    <3>1. ioPc' = payload /\ EndsWith(disk'[openFile], what) /\ disk'[openFile] # << >>
      BY <1>3, <2>1, <2>2, <2>4
    <3>2. EndFits'
      BY <1>1, <3>1 DEF EndFits
    <3> QED  BY <1>1, <1>4, <3>2 DEF OpenInv
  <2> QED  BY <2>4, <2>5 DEF RecordInv
<1>6. CASE ioPc = payload
  <2>1. Write(Payload(what)) /\ ioPc' = after
    BY <1>6 DEF WriteItem
  <2>2. openFile \in quiet => /\ IsLog(Append(disk[openFile], Payload(what)))
                              /\ Len(Append(disk[openFile], Payload(what))) % 2 = 1
                              /\ Append(disk[openFile], Payload(what)) # << >>
    <3> SUFFICES ASSUME openFile \in quiet
                 PROVE  /\ IsLog(Append(disk[openFile], Payload(what)))
                        /\ Len(Append(disk[openFile], Payload(what))) % 2 = 1
                        /\ Append(disk[openFile], Payload(what)) # << >>
      OBVIOUS
    <3>1. EndsWith(disk[openFile], what) /\ disk[openFile] # << >>
      BY <1>4, <1>6 DEF EndFits
    <3> QED  BY <1>3, <3>1, PayloadExtends
  <2>3. openFile \in Files => Append(disk[openFile], Payload(what)) \in Seq(Pieces)
    <3>1. Payload(what) \in Pieces
      BY DEF Payload, Pieces
    <3> QED  BY <1>3, <3>1
  <2>4. /\ FilesInv' /\ QuietFilesAreLogs'
        /\ openFile \in quiet => disk'[openFile] = Append(disk[openFile], Payload(what))
    BY <1>1, <2>1, <2>2, <2>3, WriteOne
  <2>5. OpenInv'
    <3> SUFFICES ASSUME openFile \in quiet  PROVE OpenInv'
      BY <1>1 DEF OpenInv
    <3>1. Len(disk'[openFile]) % 2 = 1 /\ disk'[openFile] # << >>
      BY <2>2, <2>4
    <3>2. EndFits'
      BY <1>1, <2>1, <3>1 DEF EndFits
    <3> QED  BY <1>1, <1>4, <3>2 DEF OpenInv
  <2> QED  BY <2>4, <2>5 DEF RecordInv
<1> QED  BY <1>2, <1>5, <1>6

LEMMA MessageStep ==
  ASSUME RecordInv, WriteMessage
  PROVE  RecordInv'
<1>1. SonarItem(message) \in LogItems /\ StampItem(message) \in LogItems
  BY LogItemTypes DEF RecordInv, FilesInv
<1>2. CASE WriteItem(SonarItem(message), "sonarHeader", "sonarPayload", "stampHeader")
  BY <1>1, <1>2, ItemStep DEF Writing
<1>3. CASE WriteItem(StampItem(message), "stampHeader", "stampPayload", "calling")
  BY <1>1, <1>3, ItemStep DEF Writing
<1> QED  BY <1>2, <1>3 DEF WriteMessage

-------------------------------------------------------------------------------
(* The steps that write nothing. *)

(* Between two messages, or two callbacks, the end of the open file is the *)
(* same, and callbacks that were none of the recorder's are none after it. *)
LEMMA IoStep ==
  ASSUME RecordInv,
         \/ BeginMessage \/ OtherReturns \/ EndMessage
         \/ \E i \in DOMAIN pending : RunOther(i) \/ RunRecorder(i)
  PROVE  RecordInv'
<1>1. /\ UNCHANGED <<disk, opened, openFile, quiet, op, callbacks>>
      /\ message' \in Nat
      /\ ioPc \notin Writing /\ ioPc' \notin {"sonarPayload", "stampPayload"}
  BY DEF BeginMessage, OtherReturns, EndMessage, RunOther, RunRecorder,
         diskVars, handleVars, historyVars, RecordInv, FilesInv, Writing
<1>2. FilesInv' /\ QuietFilesAreLogs'
  BY <1>1 DEF RecordInv, FilesInv, QuietFilesAreLogs
<1>3. NoWriter => NoWriter'
  <2> SUFFICES ASSUME NoWriter  PROVE NoWriter'
    OBVIOUS
  <2>1. CASE BeginMessage
    BY <2>1 DEF BeginMessage, handleVars, NoWriter, Writing
  <2>2. CASE OtherReturns \/ EndMessage
    BY <2>2 DEF OtherReturns, EndMessage, handleVars, NoWriter, Writing
  <2>3. ASSUME NEW i \in DOMAIN pending, RunOther(i)  PROVE NoWriter'
    BY <2>3 DEF RunOther, Without, handleVars, NoWriter, Writing
  <2>4. ASSUME NEW i \in DOMAIN pending  PROVE ~RunRecorder(i)
    BY DEF RunRecorder, NoWriter
  <2> QED  BY <2>1, <2>2, <2>3, <2>4
<1>4. OpenInv'
  <2>1. EndFits => EndFits'
    BY <1>1 DEF EndFits, Writing
  <2> QED  BY <1>1, <1>3, <2>1 DEF RecordInv, OpenInv
<1> QED  BY <1>2, <1>4 DEF RecordInv

LEMMA StartStep ==
  ASSUME RecordInv, NEW byIo \in BOOLEAN, RecorderStart(byIo)
  PROVE  RecordInv'
<1>1. /\ openFile = Closed /\ opened < MaxFiles /\ opened' = opened + 1 /\ openFile' = opened + 1
      /\ op' = "header" /\ quiet' = IF NoWriter THEN quiet \union {opened + 1} ELSE quiet
      /\ UNCHANGED <<disk, ioPc, message, pending, callbacks>>
  BY DEF RecorderStart, diskVars, ioVars
<1>2. opened + 1 \in Files /\ disk[opened + 1] = << >> /\ opened + 1 \notin quiet
  BY <1>1, BoundsAssumption DEF RecordInv, FilesInv, Files
<1>3. FilesInv'
  BY <1>1, <1>2, BoundsAssumption DEF RecordInv, FilesInv, Files
<1>4. QuietFilesAreLogs'
  <2>1. IsLog(<< >>)
    BY DEF IsLog
  <2> QED  BY <1>1, <1>2, <2>1 DEF RecordInv, QuietFilesAreLogs
<1>5. OpenInv'
  <2>1. openFile' \in quiet' => NoWriter
    BY <1>1, <1>2
  <2>2. NoWriter => NoWriter'
    BY <1>1 DEF NoWriter
  <2> QED  BY <1>1, <1>2, <2>1, <2>2 DEF OpenInv
<1> QED  BY <1>3, <1>4, <1>5 DEF RecordInv

(* The other methods of the handle run when none does.                     *)
LEMMA HandleStep ==
  ASSUME RecordInv,
         \/ Subscribe \/ Unsubscribe
         \/ \E byIo \in BOOLEAN : AddMessageCallback(byIo)
  PROVE  RecordInv'
<1>1. /\ UNCHANGED <<disk, opened, openFile, quiet, ioPc, message>>
      /\ op # "header" /\ op' = "none"
  BY DEF Subscribe, MaySubscribe, Unsubscribe, AddMessageCallback, MayCall,
         diskVars, ioVars, historyVars
<1>2. FilesInv' /\ QuietFilesAreLogs'
  BY <1>1 DEF RecordInv, FilesInv, QuietFilesAreLogs
<1>3. OpenInv'
  <2>1. EndFits => EndFits'
    BY <1>1 DEF EndFits
  <2> QED  BY <1>1, <2>1 DEF RecordInv, OpenInv
<1> QED  BY <1>2, <1>3 DEF RecordInv

(* What closes the file leaves it a log, as does a crash.                  *)
LEMMA CloseStep ==
  ASSUME RecordInv, Exit \/ Crash \/ \E byIo \in BOOLEAN : RecorderStop(byIo)
  PROVE  RecordInv'
<1>1. openFile' = Closed /\ message' \in Nat /\ UNCHANGED <<opened, quiet>>
  BY DEF Exit, Crash, Gone, RecorderStop, ioVars, RecordInv, FilesInv
<1>2. OpenInv'
  BY <1>1 DEF OpenInv, RecordInv, FilesInv, Closed
<1>3. CASE disk' = disk
  BY <1>1, <1>2, <1>3 DEF RecordInv, FilesInv, QuietFilesAreLogs, Closed
<1>4. CASE Crash
  <2>1. openFile \in Files
    BY <1>4, BoundsAssumption DEF Crash, RecordInv, FilesInv, Files, Closed
  <2>2. PICK n \in 0 .. Len(disk[openFile]) :
          disk' = [disk EXCEPT ![openFile] = SubSeq(@, 1, n)]
    BY <1>4 DEF Crash
  <2> DEFINE rest == SubSeq(disk[openFile], 1, n)
  <2>3. disk[openFile] \in Seq(Pieces) /\ openFile <= opened
    BY <2>1 DEF RecordInv, FilesInv
  <2>4. rest \in Seq(Pieces)
    <3>1. \A i \in 1 .. n : disk[openFile][i] \in Pieces
      BY <2>3
    <3> QED  BY <2>3, <3>1, SubSeqProperties
  <2>5. openFile \in quiet => IsLog(rest)
    BY <2>1, <2>3, PrefixIsLog DEF RecordInv, QuietFilesAreLogs
  <2>6. disk'[openFile] = rest /\ \A f \in Files : f # openFile => disk'[f] = disk[f]
    BY <2>1, <2>2 DEF RecordInv, FilesInv
  <2> HIDE DEF rest
  <2>7. disk' \in [Files -> Seq(Pieces)]
    BY <2>1, <2>2, <2>4, <2>6 DEF RecordInv, FilesInv
  <2>8. \A f \in Files : f > opened => disk'[f] = << >>
    BY <2>3, <2>6 DEF RecordInv, FilesInv
  <2>9. QuietFilesAreLogs'
    BY <1>1, <2>5, <2>6, BoundsAssumption DEF RecordInv, FilesInv, Files, QuietFilesAreLogs
  <2>10. FilesInv'
    BY <1>1, <2>7, <2>8 DEF RecordInv, FilesInv, Closed
  <2> QED  BY <1>2, <2>9, <2>10 DEF RecordInv
<1> QED  BY <1>3, <1>4 DEF Exit, RecorderStop, diskVars

-------------------------------------------------------------------------------
LEMMA RecordInvAlways == Spec => []RecordInv
<1>1. Init => RecordInv
  BY BoundsAssumption
     DEF Init, RecorderInit, RecordInv, FilesInv, OpenInv, QuietFilesAreLogs, Closed
<1>2. RecordInv /\ [Next]_vars => RecordInv'
  <2> SUFFICES ASSUME RecordInv, [Next]_vars  PROVE RecordInv'
    OBVIOUS
  <2>1. CASE UNCHANGED recorderVars
    BY <2>1 DEF recorderVars, diskVars, ioVars, handleVars, historyVars,
                RecordInv, FilesInv, OpenInv, EndFits, NoWriter, QuietFilesAreLogs
  <2>2. CASE Record
    BY <2>2, FileHeaderStep, MessageStep, IoStep, StartStep, HandleStep, CloseStep
       DEF Record, RecorderNext
  <2> QED  BY <2>1, <2>2 DEF Next, ChooseFile, Replay, vars
<1> QED  BY <1>1, <1>2, PTL DEF Spec

(* A file opened when no writer was left is a log, wherever stops and      *)
(* crashes fell, for any number of files, messages and callbacks.          *)
THEOREM LogsCorrect == Spec => []QuietFilesAreLogs
<1>1. RecordInv => QuietFilesAreLogs
  BY DEF RecordInv
<1> QED  BY <1>1, RecordInvAlways, PTL
(* The pieces of a message, whole, or the first of them at the end.        *)
Holds(p, m) ==
  \E i \in 1 .. Len(p) :
    /\ i + 3 <= Len(p)
    /\ p[i] = Header(SonarItem(m)) /\ p[i + 1] = Payload(SonarItem(m))
    /\ p[i + 2] = Header(StampItem(m)) /\ p[i + 3] = Payload(StampItem(m))

Ends1(p, m) == Len(p) >= 1 /\ p[Len(p)] = Header(SonarItem(m))
Ends2(p, m) ==
  Len(p) >= 2 /\ p[Len(p) - 1] = Header(SonarItem(m)) /\ p[Len(p)] = Payload(SonarItem(m))
Ends3(p, m) ==
  /\ Len(p) >= 3 /\ p[Len(p) - 2] = Header(SonarItem(m))
  /\ p[Len(p) - 1] = Payload(SonarItem(m)) /\ p[Len(p)] = Header(StampItem(m))

Recorders(table) == {i \in DOMAIN table : table[i] = "recorder"}

(* Where the message that began in the session is.                         *)
UnderWay ==
  \/ Recorders(pending) # {}
  \/ Holds(disk[covering], message)
  \/ ioPc = "sonarHeader"
  \/ ioPc = "sonarPayload" /\ Ends1(disk[covering], message)
  \/ ioPc = "stampHeader" /\ Ends2(disk[covering], message)
  \/ ioPc = "stampPayload" /\ Ends3(disk[covering], message)

TablesInv ==
  /\ DOMAIN callbacks \subseteq Nat /\ IsFiniteSet(DOMAIN callbacks)
  /\ due \in [Files -> SUBSET Nat]

SessionInv ==
  session # Closed =>
    session = openFile /\ op = "none" /\ Recorders(callbacks) # {}

CoveringInv ==
  covering # Closed => covering = session /\ ioPc # "idle" /\ UnderWay

DueInv == \A f \in Files : \A m \in due[f] : Holds(disk[f], m)

RecordedInv == TablesInv /\ SessionInv /\ CoveringInv /\ DueInv

-------------------------------------------------------------------------------
(* Files grow. *)

LEMMA HoldsGrows ==
  ASSUME NEW p \in Seq(Pieces), NEW x \in Pieces, NEW m, Holds(p, m)
  PROVE  Holds(Append(p, x), m)
<1>1. /\ Len(Append(p, x)) = Len(p) + 1 /\ Len(p) \in Nat
      /\ \A i \in 1 .. Len(p) : Append(p, x)[i] = p[i]
  OBVIOUS
<1>2. PICK i \in 1 .. Len(p) :
        /\ i + 3 <= Len(p)
        /\ p[i] = Header(SonarItem(m)) /\ p[i + 1] = Payload(SonarItem(m))
        /\ p[i + 2] = Header(StampItem(m)) /\ p[i + 3] = Payload(StampItem(m))
  BY DEF Holds
<1> DEFINE q == Append(p, x)
<1>3. q[i] = p[i] /\ q[i + 1] = p[i + 1] /\ q[i + 2] = p[i + 2] /\ q[i + 3] = p[i + 3]
  BY <1>1, <1>2
<1>4. i \in 1 .. Len(q) /\ i + 3 <= Len(q)
  BY <1>1, <1>2
<1> HIDE DEF q
<1>5. Holds(q, m)
  BY <1>2, <1>3, <1>4 DEF Holds
<1> QED  BY <1>5 DEF q

(* The four writes of a message.                                           *)
LEMMA WritesInTurn ==
  ASSUME NEW p \in Seq(Pieces), NEW m \in Nat
  PROVE  /\ Ends1(Append(p, Header(SonarItem(m))), m)
         /\ Ends1(p, m) => Ends2(Append(p, Payload(SonarItem(m))), m)
         /\ Ends2(p, m) => Ends3(Append(p, Header(StampItem(m))), m)
         /\ Ends3(p, m) => Holds(Append(p, Payload(StampItem(m))), m)
<1>1. ASSUME NEW x
      PROVE  /\ Len(Append(p, x)) = Len(p) + 1 /\ Len(p) \in Nat
             /\ Append(p, x)[Len(p) + 1] = x
             /\ \A i \in 1 .. Len(p) : Append(p, x)[i] = p[i]
  OBVIOUS
<1>2. Ends1(Append(p, Header(SonarItem(m))), m)
  BY <1>1 DEF Ends1
<1>3. ASSUME Ends1(p, m)
      PROVE  Ends2(Append(p, Payload(SonarItem(m))), m)
  <2> DEFINE q == Append(p, Payload(SonarItem(m)))
  <2>1. /\ Len(q) = Len(p) + 1 /\ Len(p) \in Nat /\ q[Len(p) + 1] = Payload(SonarItem(m))
        /\ \A i \in 1 .. Len(p) : q[i] = p[i]
    BY <1>1
  <2> HIDE DEF q
  <2>2. Len(q) - 1 = Len(p) /\ Len(p) \in 1 .. Len(p)
    BY <1>3, <2>1 DEF Ends1
  <2>3. Ends2(q, m)
    BY <1>3, <2>1, <2>2 DEF Ends1, Ends2
  <2> QED  BY <2>3 DEF q
<1>4. ASSUME Ends2(p, m)
      PROVE  Ends3(Append(p, Header(StampItem(m))), m)
  <2> DEFINE q == Append(p, Header(StampItem(m)))
  <2>1. /\ Len(q) = Len(p) + 1 /\ Len(p) \in Nat /\ q[Len(p) + 1] = Header(StampItem(m))
        /\ \A i \in 1 .. Len(p) : q[i] = p[i]
    BY <1>1
  <2> HIDE DEF q
  <2>2. /\ Len(q) - 1 = Len(p) /\ Len(q) - 2 = Len(p) - 1
        /\ Len(p) \in 1 .. Len(p) /\ Len(p) - 1 \in 1 .. Len(p)
    BY <1>4, <2>1 DEF Ends2
  <2>3. Ends3(q, m)
    BY <1>4, <2>1, <2>2 DEF Ends2, Ends3
  <2> QED  BY <2>3 DEF q
<1>5. ASSUME Ends3(p, m)
      PROVE  Holds(Append(p, Payload(StampItem(m))), m)
  <2> DEFINE q == Append(p, Payload(StampItem(m)))
             i == Len(p) - 2
  <2>1. /\ Len(q) = Len(p) + 1 /\ Len(p) \in Nat /\ q[Len(p) + 1] = Payload(StampItem(m))
        /\ \A j \in 1 .. Len(p) : q[j] = p[j]
    BY <1>1
  <2> HIDE DEF q
  <2>2. /\ i \in 1 .. Len(q) /\ i + 3 = Len(p) + 1 /\ i + 3 <= Len(q)
        /\ i + 1 = Len(p) - 1 /\ i + 2 = Len(p)
        /\ i \in 1 .. Len(p) /\ i + 1 \in 1 .. Len(p) /\ i + 2 \in 1 .. Len(p)
    BY <1>5, <2>1 DEF Ends3
  <2>3. /\ q[i] = Header(SonarItem(m)) /\ q[i + 1] = Payload(SonarItem(m))
        /\ q[i + 2] = Header(StampItem(m)) /\ q[i + 3] = Payload(StampItem(m))
    BY <1>5, <2>1, <2>2 DEF Ends3
  <2> HIDE DEF i
  <2>4. Holds(q, m)
    BY <2>2, <2>3 DEF Holds
  <2> QED  BY <2>4 DEF q
<1> QED  BY <1>2, <1>3, <1>4, <1>5

LEMMA PiecesOfMessages ==
  ASSUME NEW m \in Nat
  PROVE  /\ Header(SonarItem(m)) \in Pieces /\ Payload(SonarItem(m)) \in Pieces
         /\ Header(StampItem(m)) \in Pieces /\ Payload(StampItem(m)) \in Pieces
         /\ FileHeader \in Pieces
BY DEF Header, Payload, FileHeader, SonarItem, StampItem, Pieces, LogItems

(* The search of add_callback ends on a free id.                           *)
LEMMA NewIdIsFree ==
  ASSUME DOMAIN callbacks \subseteq Nat, IsFiniteSet(DOMAIN callbacks)
  PROVE  NewId \in Nat /\ NewId \notin DOMAIN callbacks
<1> DEFINE ids == DOMAIN callbacks
           n == Cardinality(ids)
           room == n .. 2 * n
<1>1. n \in Nat
  BY FS_CardinalityType
<1>2. room \ ids # {}
  <2> SUFFICES ASSUME room \subseteq ids  PROVE FALSE
    OBVIOUS
  <2>1. Cardinality(room) <= n
    BY FS_Subset
  <2>2. Cardinality(room) = 2 * n - n + 1
    BY <1>1, FS_Interval
  <2> HIDE DEF n
  <2> QED  BY <1>1, <2>1, <2>2
<1>3. room \ ids \subseteq Nat
  BY <1>1
<1>4. Min(room \ ids) \in room \ ids
  BY <1>2, <1>3, MinOfNaturals
<1> QED  BY <1>3, <1>4 DEF NewId

-------------------------------------------------------------------------------
(* The steps that write. *)

LEMMA DiskGrows ==
  ASSUME FilesInv, DueInv, NEW x \in Pieces, Write(x), UNCHANGED due,
         TablesInv
  PROVE  /\ DueInv'
         /\ openFile \in Files => disk'[openFile] = Append(disk[openFile], x)
<1>1. ASSUME NEW f \in Files
      PROVE  /\ disk[f] \in Seq(Pieces)
             /\ disk'[f] = disk[f] \/ disk'[f] = Append(disk[f], x)
  BY DEF FilesInv, Write
<1>2. DueInv'
  <2> SUFFICES ASSUME NEW f \in Files, NEW m \in due[f]
               PROVE  Holds(disk'[f], m)
    BY DEF DueInv
  <2>1. Holds(disk[f], m)
    BY DEF DueInv
  <2> QED  BY <1>1, <2>1, HoldsGrows
<1>3. openFile \in Files => disk'[openFile] = Append(disk[openFile], x)
  BY BoundsAssumption DEF FilesInv, Write, Closed, Files
<1> QED  BY <1>2, <1>3

LEMMA SessionFile ==
  ASSUME FilesInv, SessionInv, CoveringInv, covering # Closed
  PROVE  /\ covering = openFile /\ covering = session
         /\ openFile \in Files /\ disk[openFile] \in Seq(Pieces) /\ message \in Nat
<1>1. covering = session /\ session = openFile
  BY DEF SessionInv, CoveringInv
<1>2. openFile \in Files
  BY <1>1, BoundsAssumption DEF FilesInv, Files, Closed
<1> QED  BY <1>1, <1>2 DEF FilesInv

LEMMA FileHeaderRecorded ==
  ASSUME FilesInv, RecordedInv, WriteFileHeader
  PROVE  RecordedInv'
<1>1. /\ op = "header" /\ Write(FileHeader)
      /\ UNCHANGED <<callbacks, due, session, covering>>
  BY DEF WriteFileHeader, historyVars
<1>2. session = Closed /\ covering = Closed
  BY <1>1 DEF RecordedInv, SessionInv, CoveringInv
<1>3. FileHeader \in Pieces
  BY DEF FileHeader, Pieces, LogItems
<1>4. DueInv'
  BY <1>1, <1>3, DiskGrows DEF RecordedInv
<1> QED
  BY <1>1, <1>2, <1>4 DEF RecordedInv, TablesInv, SessionInv, CoveringInv, Closed

LEMMA MessageRecorded ==
  ASSUME FilesInv, RecordedInv, WriteMessage
  PROVE  RecordedInv'
<1>0. message \in Nat
  BY DEF FilesInv
<1>1. UNCHANGED <<openFile, op, callbacks, due, session, covering, pending, message>>
  BY DEF WriteMessage, WriteItem, handleVars, historyVars
<1>2. PICK x \in Pieces : /\ Write(x)
                          /\ \/ ioPc = "sonarHeader" /\ x = Header(SonarItem(message))
                             \/ ioPc = "sonarPayload" /\ x = Payload(SonarItem(message))
                             \/ ioPc = "stampHeader" /\ x = Header(StampItem(message))
                             \/ ioPc = "stampPayload" /\ x = Payload(StampItem(message))
  BY <1>0, PiecesOfMessages DEF WriteMessage, WriteItem
<1>3. /\ ioPc' # "idle"
      /\ openFile # Closed =>
           \/ ioPc = "sonarHeader" /\ ioPc' = "sonarPayload"
           \/ ioPc = "sonarPayload" /\ ioPc' = "stampHeader"
           \/ ioPc = "stampHeader" /\ ioPc' = "stampPayload"
           \/ ioPc = "stampPayload" /\ ioPc' = "calling"
  BY DEF WriteMessage, WriteItem
<1>4. /\ DueInv'
      /\ openFile \in Files => disk'[openFile] = Append(disk[openFile], x)
  BY <1>1, <1>2, DiskGrows DEF RecordedInv
<1>5. TablesInv' /\ SessionInv'
  BY <1>1 DEF RecordedInv, TablesInv, SessionInv
<1>6. CoveringInv'
  <2> SUFFICES ASSUME covering # Closed
               PROVE  UnderWay'
    BY <1>1, <1>3 DEF RecordedInv, CoveringInv
  <2>1. /\ covering = openFile /\ openFile # Closed
        /\ openFile \in Files /\ disk[openFile] \in Seq(Pieces)
    BY SessionFile DEF RecordedInv
  <2> DEFINE p == disk[openFile]
  <2>2. disk'[covering'] = Append(p, x) /\ disk[covering] = p /\ message' = message
    BY <1>1, <1>4, <2>1
  <2>3. p \in Seq(Pieces) /\ UnderWay
    BY <2>1 DEF RecordedInv, CoveringInv
  <2> HIDE DEF p
  <2>4. CASE Recorders(pending) # {}
    BY <1>1, <2>4 DEF UnderWay, Recorders
  <2>5. CASE Holds(p, message)
    BY <2>2, <2>3, <2>5, HoldsGrows DEF UnderWay
  <2>6. CASE ioPc = "sonarHeader"
    BY <1>0, <1>2, <1>3, <2>1, <2>2, <2>3, <2>6, WritesInTurn DEF UnderWay
  <2>7. CASE ioPc = "sonarPayload" /\ Ends1(p, message)
    BY <1>0, <1>2, <1>3, <2>1, <2>2, <2>3, <2>7, WritesInTurn DEF UnderWay
  <2>8. CASE ioPc = "stampHeader" /\ Ends2(p, message)
    BY <1>0, <1>2, <1>3, <2>1, <2>2, <2>3, <2>8, WritesInTurn DEF UnderWay
  <2>9. CASE ioPc = "stampPayload" /\ Ends3(p, message)
    BY <1>0, <1>2, <1>3, <2>1, <2>2, <2>3, <2>9, WritesInTurn DEF UnderWay
  <2> QED  BY <2>2, <2>3, <2>4, <2>5, <2>6, <2>7, <2>8, <2>9 DEF UnderWay
<1> QED  BY <1>4, <1>5, <1>6 DEF RecordedInv

-------------------------------------------------------------------------------
(* The other steps of the io thread. *)

LEMMA IoRecorded ==
  ASSUME FilesInv, RecordedInv,
         \/ BeginMessage \/ OtherReturns
         \/ \E i \in DOMAIN pending : RunOther(i) \/ RunRecorder(i)
  PROVE  RecordedInv'
<1>1. UNCHANGED <<disk, openFile, op, callbacks, due, session>>
  BY DEF BeginMessage, OtherReturns, RunOther, RunRecorder, diskVars, handleVars, historyVars
<1>2. TablesInv' /\ SessionInv' /\ DueInv'
  BY <1>1 DEF RecordedInv, TablesInv, SessionInv, DueInv
<1>3. CASE BeginMessage
  <2>1. pending' = callbacks /\ covering' = session /\ ioPc' = "calling"
    BY <1>3 DEF BeginMessage
  <2>2. session # Closed => UnderWay'
    BY <1>1, <2>1 DEF RecordedInv, SessionInv, UnderWay, Recorders
  <2>3. CoveringInv'
    BY <1>1, <2>1, <2>2 DEF CoveringInv, Closed
  <2> QED  BY <1>2, <2>3 DEF RecordedInv
<1>4. CASE OtherReturns
  <2>1. ioPc = "inside" /\ ioPc' = "calling" /\ UNCHANGED <<message, pending, covering>>
    BY <1>4 DEF OtherReturns, historyVars
  <2>2. UnderWay => UnderWay'
    BY <1>1, <2>1 DEF UnderWay, Recorders
  <2>3. CoveringInv'
    BY <1>1, <2>1, <2>2 DEF RecordedInv, CoveringInv, Closed
  <2> QED  BY <1>2, <2>3 DEF RecordedInv
<1>5. ASSUME NEW i \in DOMAIN pending, RunOther(i)  PROVE RecordedInv'
  <2>1. /\ ioPc = "calling" /\ ioPc' = "inside" /\ UNCHANGED <<message, covering>>
        /\ pending[i] = "other" /\ pending' = Without(pending, i)
    BY <1>5 DEF RunOther, historyVars
  <2>2. Recorders(pending') = Recorders(pending)
    BY <2>1 DEF Recorders, Without
  <2>3. UnderWay => UnderWay'
    BY <1>1, <2>1, <2>2 DEF UnderWay
  <2>4. CoveringInv'
    BY <1>1, <2>1, <2>3 DEF RecordedInv, CoveringInv, Closed
  <2> QED  BY <1>2, <2>4 DEF RecordedInv
<1>6. ASSUME NEW i \in DOMAIN pending, RunRecorder(i)  PROVE RecordedInv'
  <2>1. /\ ioPc' = IF openFile = Closed THEN "calling" ELSE "sonarHeader"
        /\ UNCHANGED covering
    BY <1>6 DEF RunRecorder, historyVars
  <2>2. covering # Closed => ioPc' = "sonarHeader"
    BY <2>1, SessionFile DEF RecordedInv
  <2>3. CoveringInv'
    BY <1>1, <2>1, <2>2 DEF RecordedInv, CoveringInv, UnderWay, Closed
  <2> QED  BY <1>2, <2>3 DEF RecordedInv
<1> QED  BY <1>3, <1>4, <1>5, <1>6

(* A message that came and went in the session is in its file.             *)
LEMMA EndRecorded ==
  ASSUME FilesInv, RecordedInv, EndMessage
  PROVE  RecordedInv'
<1>1. /\ ioPc = "calling" /\ DOMAIN pending = {} /\ covering' = Closed
      /\ due' = IF covering = Closed THEN due
                ELSE [due EXCEPT ![covering] = @ \union {message}]
      /\ UNCHANGED <<disk, openFile, op, callbacks, session>>
  BY DEF EndMessage, diskVars, handleVars
<1>2. covering # Closed => covering \in Files /\ message \in Nat /\ Holds(disk[covering], message)
  BY <1>1, SessionFile DEF RecordedInv, CoveringInv, UnderWay, Recorders
<1>3. TablesInv'
  BY <1>1, <1>2 DEF RecordedInv, TablesInv
<1>4. DueInv'
  <2> SUFFICES ASSUME NEW f \in Files, NEW m \in due'[f]
               PROVE  Holds(disk[f], m)
    BY <1>1 DEF DueInv
  <2>1. m \in due[f] \/ (covering # Closed /\ f = covering /\ m = message)
    BY <1>1, <1>2 DEF RecordedInv, TablesInv
  <2> QED  BY <1>2, <2>1 DEF RecordedInv, DueInv
<1>5. SessionInv' /\ CoveringInv'
  BY <1>1 DEF RecordedInv, SessionInv, CoveringInv, Closed
<1> QED  BY <1>3, <1>4, <1>5 DEF RecordedInv

-------------------------------------------------------------------------------
(* The handle. *)

LEMMA TableKept ==
  ASSUME TablesInv, UNCHANGED due, NEW i \in Nat, NEW v,
         callbacks' = Put(callbacks, i, v) \/ callbacks' = Without(callbacks, i)
  PROVE  TablesInv'
<1>1. IsFiniteSet(DOMAIN callbacks \union {i}) /\ IsFiniteSet(DOMAIN callbacks \ {i})
  BY FS_AddElement, FS_RemoveElement DEF TablesInv
<1>2. DOMAIN callbacks' \in {DOMAIN callbacks \union {i}, DOMAIN callbacks \ {i}}
  BY DEF Put, Without
<1>3. DOMAIN callbacks' \subseteq Nat /\ IsFiniteSet(DOMAIN callbacks')
  BY <1>1, <1>2 DEF TablesInv
<1> QED  BY <1>3 DEF TablesInv

(* Between two sessions nothing is asked of the handle's steps.            *)
LEMMA SubscribeRecorded ==
  ASSUME FilesInv, RecordedInv, Subscribe
  PROVE  RecordedInv'
<1>1. /\ op = "subscribe" /\ op' = "none" /\ session' = openFile /\ openFile' = openFile
      /\ callbacks' = Put(callbacks, NewId, "recorder")
      /\ UNCHANGED <<disk, covering, due>>
  BY DEF Subscribe, MaySubscribe, diskVars
<1>2. NewId \in Nat
  BY NewIdIsFree DEF RecordedInv, TablesInv
<1>3. session = Closed /\ covering = Closed
  BY <1>1 DEF RecordedInv, SessionInv, CoveringInv
<1>4. NewId \in Recorders(callbacks')
  BY <1>1 DEF Recorders, Put
<1>5. TablesInv'
  BY <1>1, <1>2, TableKept DEF RecordedInv
<1> QED
  BY <1>1, <1>3, <1>4, <1>5 DEF RecordedInv, SessionInv, CoveringInv, DueInv, Closed

LEMMA AddRecorded ==
  ASSUME FilesInv, RecordedInv, NEW byIo \in BOOLEAN, AddMessageCallback(byIo)
  PROVE  RecordedInv'
<1>1. /\ callbacks' = Put(callbacks, NewId, "other")
      /\ UNCHANGED <<disk, openFile, op, due, session, covering, ioPc, message, pending>>
  BY DEF AddMessageCallback, diskVars, ioVars, historyVars
<1>2. NewId \in Nat /\ NewId \notin DOMAIN callbacks
  BY NewIdIsFree DEF RecordedInv, TablesInv
<1>3. Recorders(callbacks) \subseteq Recorders(callbacks')
  BY <1>1, <1>2 DEF Recorders, Put
<1>4. TablesInv'
  BY <1>1, <1>2, TableKept DEF RecordedInv
<1>5. SessionInv'
  BY <1>1, <1>3 DEF RecordedInv, SessionInv, Closed
<1>6. CoveringInv' /\ DueInv'
  BY <1>1 DEF RecordedInv, CoveringInv, DueInv, UnderWay, Closed
<1> QED  BY <1>4, <1>5, <1>6 DEF RecordedInv

LEMMA UnsubscribeRecorded ==
  ASSUME FilesInv, RecordedInv, Unsubscribe
  PROVE  RecordedInv'
<1>1. /\ op = "unsubscribe" /\ UNCHANGED <<disk, due, session, covering>>
      /\ callbacks' = IF recorderId > 0 THEN Without(callbacks, recorderId) ELSE callbacks
  BY DEF Unsubscribe, diskVars, historyVars
<1>2. session = Closed /\ covering = Closed
  BY <1>1 DEF RecordedInv, SessionInv, CoveringInv
<1>3. TablesInv'
  <2>1. IsFiniteSet(DOMAIN callbacks \ {recorderId})
    BY FS_RemoveElement DEF RecordedInv, TablesInv
  <2>2. DOMAIN Without(callbacks, recorderId) = DOMAIN callbacks \ {recorderId}
    BY DEF Without
  <2>3. DOMAIN callbacks' \subseteq Nat /\ IsFiniteSet(DOMAIN callbacks')
    BY <1>1, <2>1, <2>2 DEF RecordedInv, TablesInv
  <2> QED  BY <1>1, <2>3 DEF RecordedInv, TablesInv
<1> QED
  BY <1>1, <1>2, <1>3 DEF RecordedInv, SessionInv, CoveringInv, DueInv, Closed

LEMMA StartRecorded ==
  ASSUME FilesInv, RecordedInv, NEW byIo \in BOOLEAN, RecorderStart(byIo)
  PROVE  RecordedInv'
<1>1. openFile = Closed /\ UNCHANGED <<disk, callbacks, due, session, covering>>
  BY DEF RecorderStart, diskVars
<1>2. session = Closed /\ covering = Closed
  BY <1>1 DEF RecordedInv, SessionInv, CoveringInv
<1> QED
  BY <1>1, <1>2 DEF RecordedInv, TablesInv, SessionInv, CoveringInv, DueInv, Closed

LEMMA EndOfSession ==
  ASSUME FilesInv, RecordedInv, Exit \/ Crash \/ \E byIo \in BOOLEAN : RecorderStop(byIo)
  PROVE  RecordedInv'
<1>1. session' = Closed /\ covering' = Closed
  BY DEF Exit, Crash, Gone, RecorderStop
<1>2. SessionInv' /\ CoveringInv'
  BY <1>1 DEF SessionInv, CoveringInv, Closed
<1>3. callbacks' = callbacks \/ DOMAIN callbacks' = {}
  BY DEF Exit, Crash, Gone, RecorderStop
<1>4. CASE Crash
  <2>1. openFile \in Files /\ due' = [due EXCEPT ![openFile] = {}]
    BY <1>4, BoundsAssumption DEF Crash, FilesInv, Files, Closed
  <2>2. \A f \in Files : f # openFile => disk'[f] = disk[f]
    BY <1>4 DEF Crash, FilesInv
  <2>3. TablesInv'
    BY <1>3, <2>1, FS_EmptySet DEF RecordedInv, TablesInv
  <2>4. DueInv'
    BY <2>1, <2>2 DEF RecordedInv, TablesInv, DueInv
  <2> QED  BY <1>2, <2>3, <2>4 DEF RecordedInv
<1>5. CASE Exit \/ \E byIo \in BOOLEAN : RecorderStop(byIo)
  <2>1. UNCHANGED <<disk, due>>
    BY <1>5 DEF Exit, RecorderStop, diskVars
  <2>2. TablesInv' /\ DueInv'
    BY <1>3, <2>1, FS_EmptySet DEF RecordedInv, TablesInv, DueInv
  <2> QED  BY <1>2, <2>2 DEF RecordedInv
<1> QED  BY <1>4, <1>5

-------------------------------------------------------------------------------
LEMMA RecordedInvAlways == Spec => []RecordedInv
<1>1. Init => RecordedInv
  BY FS_EmptySet
     DEF Init, RecorderInit, RecordedInv, TablesInv, SessionInv, CoveringInv, DueInv, Closed
<1>2. FilesInv /\ RecordedInv /\ [Next]_vars => RecordedInv'
  <2> SUFFICES ASSUME FilesInv, RecordedInv, [Next]_vars  PROVE RecordedInv'
    OBVIOUS
  <2>1. CASE UNCHANGED recorderVars
    BY <2>1 DEF recorderVars, diskVars, ioVars, handleVars, historyVars, RecordedInv,
                TablesInv, SessionInv, CoveringInv, DueInv, UnderWay, Recorders
  <2>2. CASE Record
    BY <2>2, FileHeaderRecorded, MessageRecorded, IoRecorded, EndRecorded,
       SubscribeRecorded, AddRecorded, UnsubscribeRecorded, StartRecorded, EndOfSession
       DEF Record, RecorderNext
  <2> QED  BY <2>1, <2>2 DEF Next, ChooseFile, Replay, vars
<1>3. RecordInv => FilesInv
  BY DEF RecordInv
<1> QED  BY <1>1, <1>2, <1>3, RecordInvAlways, PTL DEF Spec

(* What was handled during a session is in its file, whole and stamped,    *)
(* for any number of files, messages and other callbacks.                  *)
THEOREM SessionsCorrect == Spec => []SessionsAreRecorded
<1>1. RecordedInv => SessionsAreRecorded
  <2> SUFFICES ASSUME RecordedInv, NEW f \in Files, NEW m \in due[f]
               PROVE  \E i \in 1 .. Len(disk[f]) :
                        disk[f][i] = Header(SonarItem(m)) /\ MessageAt(f, i)
    BY DEF SessionsAreRecorded
  <2>1. PICK i \in 1 .. Len(disk[f]) :
          /\ i + 3 <= Len(disk[f])
          /\ disk[f][i] = Header(SonarItem(m)) /\ disk[f][i + 1] = Payload(SonarItem(m))
          /\ disk[f][i + 2] = Header(StampItem(m)) /\ disk[f][i + 3] = Payload(StampItem(m))
    BY DEF RecordedInv, DueInv, Holds
  <2>2. disk[f][i].item = SonarItem(m) /\ disk[f][i].item.msg = m
    BY <2>1 DEF Header, SonarItem
  <2> QED  BY <2>1, <2>2 DEF MessageAt
<1> QED  BY <1>1, RecordedInvAlways, PTL

-------------------------------------------------------------------------------
(* What is read. *)

StampsInv ==
  \A i \in 1 .. Len(returned) :
    returned[i].stamp =
      IF Stamped(returned[i].item) THEN ItemAt(returned[i].item + 1).msg ELSE Date

(* A reader is on a header of its file, and has seen the header of the file. *)
PlaceInv ==
  /\ item # 0 => HasHeader(item)
  /\ status = "open" => Whole(1) /\ file[1] = FileHeader
  /\ status = "closed" => outcome = "none"

(* Only a crash cuts a file, and it takes what the session had there.      *)
CutInv ==
  /\ cut \in [Files -> BOOLEAN]
  /\ \A f \in Files : alive \/ due[f] # {} => cut[f] = FALSE

(* What is read is what the process left.                                  *)
ChosenInv ==
  /\ reading \in 0 .. Foreign
  /\ reading = Closed => ReaderClosed
  /\ reading \in Files =>
       /\ ~alive /\ file = disk[reading] /\ torn = cut[reading]
       /\ file # << >> /\ file[1] = FileHeader => IsLog(file)

ReadInv == ReaderInv /\ NothingLeftBehind /\ StampsInv /\ PlaceInv

ReplayInv == ReadInv /\ CutInv /\ ChosenInv

LEMMA ClosedIsRead ==
  ASSUME ReaderClosed  PROVE StampsInv /\ PlaceInv
<1>1. Len(returned) = 0 /\ item = 0 /\ status = "closed" /\ outcome = "none"
  BY DEF ReaderClosed
<1> QED  BY <1>1 DEF StampsInv, PlaceInv

LEMMA StampsStep ==
  ASSUME ReaderInv, StampsInv, [ReaderNext]_readerAll
  PROVE  StampsInv'
<1>0. /\ file \in Seq(Pieces) /\ item \in Nat /\ returned \in Returns /\ UNCHANGED fileVars
  BY DEF ReaderInv, ReaderTypeOK, Returns, ReaderNext, readerAll, Open, JumpItem, ReadNextItem,
         Rewind, ReadNextMessage, ReadNextPing, fileVars
<1>1. \A k : Stamped(k)' = Stamped(k) /\ ItemAt(k)' = ItemAt(k)
  BY <1>0 DEF Stamped, HasHeader, Whole, ItemAt, fileVars
<1>2. CASE returned' = returned
  BY <1>1, <1>2 DEF StampsInv
<1>3. CASE returned' = << >>
  <2>1. Len(returned') = 0
    BY <1>3
  <2> QED  BY <2>1 DEF StampsInv
<1>4. ASSUME NEW ahead \in SUBSET MessagesAhead, ReadFrom(ahead), returned' # returned
      PROVE  StampsInv'
  <2> DEFINE m == Min(ahead)
             entry == [item |-> m, stamp |-> IF Stamped(m) THEN ItemAt(m + 1).msg ELSE Date]
  <2>1. ahead # {} /\ ReadMessageAt(m) /\ ~Broken(m)
    BY <1>4 DEF ReadFrom, NothingAhead, ReadMessageAt
  <2>2. m \in SonarItems
    BY <1>0, <1>4, <2>1, FoundAhead
  <2>3. m \in Nat \ {0}
    BY <1>0, <2>2, SonarItemsAreItems
  <2>4. returned' = Append(returned, entry)
    BY <2>1 DEF ReadMessageAt
  <2> HIDE DEF m
  <2>5. entry \in [item : Nat, stamp : Nat \union {Date}]
    BY <1>0, <2>3, StampIsTyped
  <2>6. /\ Len(returned') = Len(returned) + 1 /\ Len(returned) \in Nat
        /\ \A i \in 1 .. Len(returned) : returned'[i] = returned[i]
        /\ returned'[Len(returned) + 1] = entry
    BY <1>0, <2>4, <2>5 DEF Returns
  <2>7. ASSUME NEW i \in 1 .. Len(returned')
        PROVE  returned'[i].stamp =
                 IF Stamped(returned'[i].item) THEN ItemAt(returned'[i].item + 1).msg ELSE Date
    <3>1. CASE i \in 1 .. Len(returned)
      BY <2>6, <3>1 DEF StampsInv
    <3>2. CASE i = Len(returned) + 1
      BY <2>6, <3>2
    <3> QED  BY <2>6, <3>1, <3>2
  <2> QED  BY <1>1, <2>7 DEF StampsInv
<1>5. CASE Rewind
  BY <1>2, <1>3, <1>5 DEF Rewind
<1>6. CASE ReadNextMessage
  BY <1>2, <1>4, <1>6 DEF ReadNextMessage
<1>7. CASE ReadNextPing
  <2>1. PingsAhead \in SUBSET MessagesAhead
    BY DEF PingsAhead
  <2> QED  BY <1>2, <1>4, <1>7, <2>1 DEF ReadNextPing
<1>8. CASE Open \/ JumpItem \/ ReadNextItem \/ UNCHANGED readerAll
  BY <1>2, <1>8 DEF Open, JumpItem, ReadNextItem, readerAll, readerVars
<1> QED  BY <1>5, <1>6, <1>7, <1>8 DEF ReaderNext

LEMMA PlaceStep ==
  ASSUME ReaderInv, PlaceInv, [ReaderNext]_readerAll
  PROVE  PlaceInv'
<1>0. /\ file \in Seq(Pieces) /\ item \in Nat /\ UNCHANGED fileVars
  BY DEF ReaderInv, ReaderTypeOK, ReaderNext, readerAll, Open, JumpItem, ReadNextItem,
         Rewind, ReadNextMessage, ReadNextPing, fileVars
<1>1. Whole(1)' = Whole(1) /\ file' = file /\ \A k : HasHeader(k)' = HasHeader(k)
  BY <1>0 DEF HasHeader, Whole, fileVars
<1>2. item' = 0 \/ item' = item \/ HasHeader(item')
  BY DEF ReaderNext, readerAll, readerVars, Open, JumpItem, ReadNextItem, Rewind, ReadNextMessage,
         ReadNextPing, ReadFrom, NothingAhead, ReadMessageAt, PayloadFails, ReadHeader
<1>3. status' = "open" => status = "open" \/ (Whole(1) /\ file[1] = FileHeader)
  BY DEF ReaderNext, readerAll, readerVars, Open, JumpItem, ReadNextItem, Rewind, ReadNextMessage,
         ReadNextPing
<1>4. status' = "closed" => status = "closed" /\ outcome' = outcome
  BY DEF ReaderNext, readerAll, readerVars, Open, JumpItem, ReadNextItem, Rewind, ReadNextMessage,
         ReadNextPing
<1> QED  BY <1>1, <1>2, <1>3, <1>4 DEF PlaceInv

LEMMA ReadStep == ReadInv /\ [ReaderNext]_readerAll => ReadInv'
BY StepInv, CompleteStep, StampsStep, PlaceStep DEF ReadInv

LEMMA RecordCut ==
  ASSUME FilesInv, TablesInv, SessionInv, CoveringInv, CutInv, RecorderNext
  PROVE  CutInv'
<1>1. alive
  BY DEF RecorderNext
<1>2. \A f \in Files : cut[f] = FALSE
  BY <1>1 DEF CutInv
<1>3. CASE Crash
  <2>1. ~alive' /\ openFile \in Files /\ due' = [due EXCEPT ![openFile] = {}]
    BY <1>3, BoundsAssumption DEF Crash, Gone, FilesInv, Files, Closed
  <2>2. PICK t \in BOOLEAN : cut' = [cut EXCEPT ![openFile] = t]
    BY <1>3 DEF Crash
  <2> QED  BY <1>2, <2>1, <2>2 DEF CutInv, TablesInv
<1>4. CASE cut' = cut
  BY <1>2, <1>4 DEF CutInv
<1>5. Crash \/ cut' = cut
  BY DEF RecorderNext, BeginMessage, OtherReturns, WriteMessage, WriteItem, EndMessage, RunOther,
         RunRecorder, RecorderStart, RecorderStop, AddMessageCallback, WriteFileHeader, Subscribe,
         Unsubscribe, Exit, diskVars
<1> QED  BY <1>3, <1>4, <1>5

LEMMA ChooseStep ==
  ASSUME FilesInv, ReplayInv, NEW f \in 1 .. opened, ChooseFile(f)
  PROVE  ReplayInv'
<1>1. /\ reading = Closed /\ ~alive /\ reading' = f
      /\ disk[f] # << >> /\ disk[f][1] = FileHeader => IsLog(disk[f])
      /\ file' = disk[f] /\ torn' = cut[f]
      /\ UNCHANGED <<recorderVars, readerVars>>
  BY DEF ChooseFile
<1>2. ReaderClosed /\ ReaderClosed'
  BY <1>1 DEF ReplayInv, ChosenInv, ReaderClosed, readerVars
<1>3. f \in Files /\ f # Closed
  BY BoundsAssumption DEF FilesInv, Files, Closed
<1>4. Start'
  BY <1>1, <1>2, <1>3 DEF Start, FilesInv, ReplayInv, CutInv
<1>5. ReaderInv' /\ NothingLeftBehind'
  BY <1>4, StartInv, PTL
<1>6. StampsInv' /\ PlaceInv'
  <2>1. returned' = << >> /\ item' = 0 /\ status' = "closed" /\ outcome' = "none"
    BY <1>2 DEF ReaderClosed
  <2>2. Len(returned') = 0
    BY <2>1
  <2> QED  BY <2>1, <2>2 DEF StampsInv, PlaceInv
<1>7. CutInv'
  BY <1>1 DEF ReplayInv, CutInv, recorderVars, diskVars, historyVars
<1>8. ChosenInv'
  <2>1. UNCHANGED <<disk, cut, alive>>
    BY <1>1 DEF recorderVars, diskVars
  <2>2. f \in 0 .. Foreign
    BY <1>3, BoundsAssumption DEF Files, Foreign
  <2> QED  BY <1>1, <1>2, <1>3, <2>1, <2>2 DEF ChosenInv
<1> QED  BY <1>5, <1>6, <1>7, <1>8 DEF ReplayInv, ReadInv

LEMMA ReplayInvAlways == Spec => []ReplayInv
<1>1. Init => ReplayInv
  <2> SUFFICES ASSUME Init  PROVE ReplayInv
    OBVIOUS
  <2>1. ReaderClosed /\ file \in Seq(Pieces) /\ torn \in BOOLEAN
    <3>1. << >> \in Seq(Pieces)
      OBVIOUS
    <3>2. CASE reading = Closed /\ file = << >> /\ torn = FALSE
      BY <3>1, <3>2 DEF Init
    <3>3. CASE file \in ForeignLogs /\ torn \in BOOLEAN
      <4>1. ReaderClosed
        BY DEF Init
      <4> QED  BY <3>3, <4>1, ForeignAssumption
    <3> QED  BY <3>2, <3>3 DEF Init
  <2>2. ReadInv
    BY <2>1, StartInv, ClosedIsRead DEF Start, ReadInv
  <2>3. CutInv
    BY DEF Init, RecorderInit, CutInv
  <2>4. ChosenInv
    BY <2>1, BoundsAssumption DEF Init, ChosenInv, Closed, Foreign, Files
  <2> QED  BY <2>2, <2>3, <2>4 DEF ReplayInv
<1>2. FilesInv /\ RecordedInv /\ ReplayInv /\ [Next]_vars => ReplayInv'
  <2> SUFFICES ASSUME FilesInv, RecordedInv, ReplayInv, [Next]_vars  PROVE ReplayInv'
    OBVIOUS
  <2>1. CASE Record
    <3>1. UNCHANGED <<fileVars, readerVars, reading>> /\ reading = Closed /\ RecorderNext
      BY <2>1 DEF Record
    <3>2. ReadInv'
      BY <3>1, ReadStep DEF ReplayInv, readerAll
    <3>3. CutInv'
      BY <3>1, RecordCut DEF ReplayInv, RecordedInv
    <3>4. ChosenInv'
      <4>1. Closed \notin Files
        BY BoundsAssumption DEF Closed, Files
      <4> QED  BY <3>1, <4>1 DEF ReplayInv, ChosenInv, ReaderClosed, readerVars
    <3> QED  BY <3>2, <3>3, <3>4 DEF ReplayInv
  <2>2. CASE Replay
    <3>1. UNCHANGED <<recorderVars, reading>> /\ reading # Closed /\ ReaderNext
      BY <2>2 DEF Replay
    <3>2. UNCHANGED <<disk, cut, alive, due>>
      BY <3>1 DEF recorderVars, diskVars, historyVars
    <3>3. ReadInv'
      BY <3>1, ReadStep DEF ReplayInv
    <3>4. CutInv'
      BY <3>2 DEF ReplayInv, CutInv
    <3>5. UNCHANGED fileVars
      BY <3>1 DEF ReaderNext, Open, JumpItem, ReadNextItem, Rewind, ReadNextMessage, ReadNextPing
    <3>6. ChosenInv'
      BY <3>1, <3>2, <3>5 DEF ReplayInv, ChosenInv, fileVars
    <3> QED  BY <3>3, <3>4, <3>6 DEF ReplayInv
  <2>3. ASSUME NEW f \in 1 .. opened, ChooseFile(f)  PROVE ReplayInv'
    BY <2>3, ChooseStep
  <2>4. CASE UNCHANGED vars
    <3>1. UNCHANGED <<disk, cut, alive, due, fileVars, readerVars, reading>>
      BY <2>4 DEF vars, recorderVars, diskVars, historyVars
    <3>2. ReadInv'
      BY <3>1, ReadStep DEF ReplayInv, readerAll
    <3>3. CutInv' /\ ChosenInv'
      BY <3>1 DEF ReplayInv, CutInv, ChosenInv, ReaderClosed, fileVars, readerVars
    <3> QED  BY <3>2, <3>3 DEF ReplayInv
  <2> QED  BY <2>1, <2>2, <2>3, <2>4 DEF Next
<1>3. RecordInv => FilesInv
  BY DEF RecordInv
<1> QED  BY <1>1, <1>2, <1>3, RecordInvAlways, RecordedInvAlways, PTL DEF Spec

-------------------------------------------------------------------------------
(* From end to end. *)

LEMMA SessionItem ==
  ASSUME NEW p \in Seq(Pieces), IsLog(p), NEW m, Holds(p, m)
  PROVE  \E k \in Nat \ {0} :
           /\ 2 * k + 3 <= Len(p)
           /\ p[2 * k] = Header(SonarItem(m)) /\ p[2 * k + 2] = Header(StampItem(m))
<1>1. PICK i \in 1 .. Len(p) :
        /\ i + 3 <= Len(p)
        /\ p[i] = Header(SonarItem(m)) /\ p[i + 2] = Header(StampItem(m))
  BY DEF Holds
<1>2. i # 1 /\ i % 2 = 0
  <2>1. IF i = 1 THEN p[i] = FileHeader
        ELSE IF i % 2 = 0 THEN p[i].part = "header"
        ELSE p[i] = Payload(p[i - 1].item)
    BY DEF IsLog
  <2>2. p[i].part = "header"
    BY <1>1 DEF Header
  <2> QED  BY <2>1, <2>2 DEF FileHeader, Payload
<1>3. i \div 2 \in Nat \ {0} /\ 2 * (i \div 2) = i
  BY <1>2
<1> QED  BY <1>1, <1>3

LEMMA SessionIsReturned ==
  ASSUME FilesInv, DueInv, ReplayInv, reading \in Files, status = "open", item = 0, ~skipped,
         NEW m \in due[reading]
  PROVE  \E i \in 1 .. Len(returned) :
           ItemAt(returned[i].item).msg = m /\ returned[i].stamp = m
<1>1. file = disk[reading] /\ torn = FALSE /\ file \in Seq(Pieces) /\ IsLog(file)
  BY DEF ReplayInv, ChosenInv, CutInv, ReadInv, PlaceInv, Whole, FilesInv
<1>2. PICK k \in Nat \ {0} :
        /\ 2 * k + 3 <= Len(file)
        /\ file[2 * k] = Header(SonarItem(m)) /\ file[2 * k + 2] = Header(StampItem(m))
  BY <1>1, SessionItem DEF DueInv
<1>3. Len(file) \in Nat /\ 2 * k + 1 <= Len(file) /\ 2 * (k + 1) = 2 * k + 2
      /\ 2 * (k + 1) <= Len(file) /\ 2 * (k + 1) + 1 <= Len(file) /\ k \in 1 .. Len(file)
      /\ 2 * k <= Len(file)
  BY <1>1, <1>2
<1>4. ItemAt(k) = SonarItem(m) /\ ItemAt(k + 1) = StampItem(m)
  BY <1>2, <1>3 DEF ItemAt, Header
<1>5. HasHeader(k) /\ HasPayload(k) /\ HasHeader(k + 1) /\ HasPayload(k + 1)
  BY <1>1, <1>3 DEF HasHeader, HasPayload, Whole
<1>6. k \in SonarItems /\ Stamped(k) /\ ~Broken(k)
  BY <1>3, <1>4, <1>5 DEF SonarItems, Items, Stamped, Broken, SonarItem, StampItem
<1>7. PICK i \in 1 .. Len(returned) : returned[i].item = k
  BY <1>6 DEF ReplayInv, ReadInv, NothingLeftBehind
<1>8. returned[i].stamp = ItemAt(k + 1).msg
  BY <1>6, <1>7 DEF ReplayInv, ReadInv, StampsInv
<1>9. ItemAt(k).msg = m /\ ItemAt(k + 1).msg = m
  BY <1>4 DEF SonarItem, StampItem
<1> QED  BY <1>7, <1>8, <1>9

(* A session that no crash cut comes back: a reader that reaches the end   *)
(* of its file has been given every message with its own stamp.            *)
THEOREM ReplayCorrect == Spec => []ReplayGivesTheSession
<1>1. FilesInv /\ RecordedInv /\ ReplayInv => ReplayGivesTheSession
  BY SessionIsReturned DEF RecordedInv, ReplayGivesTheSession
<1>2. RecordInv => FilesInv
  BY DEF RecordInv
<1> QED  BY <1>1, <1>2, RecordInvAlways, RecordedInvAlways, ReplayInvAlways, PTL

(* Of a log, only a cut makes a reader throw before it goes back.          *)
LEMMA HeaderOfLog ==
  ASSUME file \in Seq(Pieces), IsLog(file), file # << >>
  PROVE  file[1] = FileHeader
<1>1. 1 \in 1 .. Len(file)
  OBVIOUS
<1> QED  BY <1>1 DEF IsLog

(* A payload that is missing behind its header.                            *)
LEMMA CutPayload ==
  ASSUME file \in Seq(Pieces), NEW k \in Nat \ {0}, HasHeader(k), ~HasPayload(k)
  PROVE  torn \/ Len(file) % 2 = 0
<1>1. Len(file) \in Nat /\ 2 * k <= Len(file)
  BY DEF HasHeader, Whole
<1>2. CASE 2 * k + 1 <= Len(file)
  BY <1>1, <1>2 DEF HasPayload, Whole
<1>3. CASE Len(file) = 2 * k
  BY <1>3
<1> QED  BY <1>1, <1>2, <1>3

LEMMA ThrowStep ==
  ASSUME ReaderInv, PlaceInv, ReaderNext, ~Rewind, outcome' = "throw", IsLog(file),
         status = "closed" => outcome = "none"
  PROVE  torn \/ Len(file) % 2 = 0
<1>0. file \in Seq(Pieces) /\ Len(file) \in Nat /\ item \in Nat
  BY DEF ReaderInv, ReaderTypeOK
<1>1. CASE Open
  <2>1. ~(Whole(1) /\ file[1] = FileHeader)
    BY <1>1 DEF Open
  <2>2. CASE file = << >>
    BY <2>2
  <2>3. CASE file # << >>
    <3>1. file[1] = FileHeader /\ 1 <= Len(file)
      BY <1>0, <2>3, HeaderOfLog
    <3> QED  BY <2>1, <3>1 DEF Whole
  <2> QED  BY <2>2, <2>3
<1>2. CASE ReadNextItem
  BY <1>0, <1>2, CutPayload DEF ReadNextItem, PlaceInv
<1>3. ASSUME NEW ahead \in SUBSET MessagesAhead, ReadFrom(ahead)
      PROVE  torn \/ Len(file) % 2 = 0
  <2> DEFINE m == Min(ahead)
  <2>1. ahead # {} /\ ReadMessageAt(m)
    BY <1>3 DEF ReadFrom, NothingAhead
  <2>2. m \in SonarItems
    BY <1>0, <1>3, <2>1, FoundAhead
  <2>3. m \in Nat \ {0}
    BY <1>0, <2>2, SonarItemsAreItems
  <2> HIDE DEF m
  <2>4. HasHeader(m) /\ Broken(m)
    BY <2>1, <2>2 DEF ReadMessageAt, SonarItems
  <2>5. m + 1 \in Nat \ {0}
    BY <2>3
  <2> QED  BY <1>0, <2>3, <2>4, <2>5, CutPayload DEF Broken, Stamped
<1>4. CASE ReadNextMessage
  BY <1>3, <1>4 DEF ReadNextMessage
<1>5. CASE ReadNextPing
  <2>1. PingsAhead \in SUBSET MessagesAhead
    BY DEF PingsAhead
  <2> QED  BY <1>3, <1>5, <2>1 DEF ReadNextPing
<1>6. ~JumpItem
  BY DEF JumpItem
<1> QED  BY <1>1, <1>2, <1>4, <1>5, <1>6 DEF ReaderNext

(* Stops of any kind do not make a reader throw, unless they leave a       *)
(* header without its payload at the end of the file.                      *)
THEOREM ThrowsCorrect == Spec => OnlyCutFilesThrow
<1> DEFINE Throws == outcome' = "throw" /\ ~Rewind /\ IsLog(file) => torn \/ Len(file) % 2 = 0
<1>1. ReplayInv /\ [Next]_vars => [Throws]_vars
  <2> SUFFICES ASSUME ReplayInv, Next  PROVE Throws
    OBVIOUS
  <2>1. CASE Replay
    BY <2>1, ThrowStep DEF Replay, ReplayInv, ReadInv, PlaceInv
  <2>2. CASE Record \/ \E f \in 1 .. opened : ChooseFile(f)
    <3>1. reading = Closed /\ outcome' = outcome
      BY <2>2 DEF Record, ChooseFile, readerVars
    <3>2. outcome = "none"
      BY <3>1 DEF ReplayInv, ChosenInv, ReaderClosed
    <3> QED  BY <3>1, <3>2
  <2> QED  BY <2>1, <2>2 DEF Next
<1> QED  BY <1>1, ReplayInvAlways, PTL DEF Spec, OnlyCutFilesThrow
-------------------------------------------------------------------------------
(* Types. *)

(* What a type invariant needs besides the parts above: a message that is  *)
(* being handled has been counted.                                         *)
TypesInv ==
  /\ callbacks \in [DOMAIN callbacks -> Owners] /\ pending \in [DOMAIN pending -> Owners]
  /\ recorderId \in Nat \union {-1}
  /\ op \in {"none", "header", "subscribe", "unsubscribe"} /\ opByIo \in BOOLEAN
  /\ ioPc \in {"idle", "calling", "inside"} \union Writing
  /\ message \in 0 .. MaxMessages /\ (ioPc # "idle" => message # 0)
  /\ alive \in BOOLEAN
  /\ session \in 0 .. opened /\ covering \in 0 .. opened
  /\ due \in [Files -> SUBSET (1 .. MaxMessages)]

LEMMA TablesTyped ==
  ASSUME NEW f, f \in [DOMAIN f -> Owners], NEW i, NEW v \in Owners
  PROVE  /\ Put(f, i, v) \in [DOMAIN Put(f, i, v) -> Owners]
         /\ Without(f, i) \in [DOMAIN Without(f, i) -> Owners]
BY DEF Put, Without

(* The io thread. *)
LEMMA IoTypes ==
  ASSUME FilesInv, TypesInv,
         \/ BeginMessage \/ OtherReturns \/ WriteMessage \/ EndMessage
         \/ \E i \in DOMAIN pending : RunOther(i) \/ RunRecorder(i)
  PROVE  TypesInv'
<1> USE DEF TypesInv, Writing
<1>1. CASE BeginMessage
  BY <1>1, BoundsAssumption DEF BeginMessage, handleVars
<1>2. CASE OtherReturns
  BY <1>2 DEF OtherReturns, handleVars, historyVars
<1>3. CASE WriteMessage
  BY <1>3 DEF WriteMessage, WriteItem, handleVars, historyVars
<1>4. CASE EndMessage
  <2>1. /\ ioPc' = "idle" /\ covering' = 0 /\ 0 \in 0 .. opened
        /\ UNCHANGED <<callbacks, recorderId, op, opByIo, opened, alive, message, pending, session>>
    BY <1>4 DEF EndMessage, handleVars, FilesInv, Closed
  <2>2. due' \in [Files -> SUBSET (1 .. MaxMessages)]
    <3>1. message \in 1 .. MaxMessages
      BY <1>4, BoundsAssumption DEF EndMessage
    <3> QED  BY <1>4, <3>1 DEF EndMessage
  <2> QED  BY <2>1, <2>2
<1>5. ASSUME NEW i \in DOMAIN pending, RunOther(i) \/ RunRecorder(i)  PROVE TypesInv'
  <2>1. /\ pending' = Without(pending, i) /\ ioPc = "calling"
        /\ ioPc' \in {"inside", "calling", "sonarHeader"}
        /\ UNCHANGED <<callbacks, recorderId, op, opByIo, opened, alive, message, session,
                       covering, due>>
    BY <1>5 DEF RunOther, RunRecorder, handleVars, historyVars
  <2>2. pending' \in [DOMAIN pending' -> Owners]
    BY <2>1 DEF Without
  <2> QED  BY <2>1, <2>2
<1> QED  BY <1>1, <1>2, <1>3, <1>4, <1>5

(* The handle, and the end of the process. *)
LEMMA HandleTypes ==
  ASSUME FilesInv, TablesInv, TypesInv,
         \/ \E byIo \in BOOLEAN : \/ RecorderStart(byIo) \/ RecorderStop(byIo)
                                  \/ AddMessageCallback(byIo)
         \/ WriteFileHeader \/ Subscribe \/ Unsubscribe \/ Exit \/ Crash
  PROVE  TypesInv'
<1> USE DEF TypesInv
<1>0. 0 \in 0 .. opened /\ opened \in Nat /\ NewId \in Nat
  BY BoundsAssumption, NewIdIsFree DEF FilesInv, TablesInv
<1>1. ASSUME NEW byIo \in BOOLEAN, RecorderStart(byIo)  PROVE TypesInv'
  BY <1>0, <1>1 DEF RecorderStart, diskVars, ioVars
<1>2. ASSUME NEW byIo \in BOOLEAN, RecorderStop(byIo)  PROVE TypesInv'
  BY <1>0, <1>2 DEF RecorderStop, diskVars, ioVars, Closed
<1>3. ASSUME NEW byIo \in BOOLEAN, AddMessageCallback(byIo)  PROVE TypesInv'
  <2>1. callbacks' \in [DOMAIN callbacks' -> Owners]
    BY <1>3, TablesTyped DEF AddMessageCallback, Owners
  <2> QED  BY <1>3, <2>1 DEF AddMessageCallback, diskVars, ioVars, historyVars
<1>4. CASE WriteFileHeader
  BY <1>4 DEF WriteFileHeader, ioVars, historyVars
<1>5. CASE Subscribe
  <2>1. callbacks' \in [DOMAIN callbacks' -> Owners]
    BY <1>5, TablesTyped DEF Subscribe, Owners
  <2>2. session' \in 0 .. opened
    BY <1>5 DEF Subscribe, FilesInv
  <2> QED  BY <1>0, <1>5, <2>1, <2>2 DEF Subscribe, diskVars, ioVars, MaySubscribe
<1>6. CASE Unsubscribe
  <2>1. callbacks' \in [DOMAIN callbacks' -> Owners]
    BY <1>6, TablesTyped DEF Unsubscribe, Without
  <2> QED  BY <1>6, <2>1 DEF Unsubscribe, diskVars, ioVars, historyVars
<1>7. CASE Exit \/ Crash
  <2>1. /\ alive' = FALSE /\ callbacks' = << >> /\ pending' = << >> /\ recorderId' = -1
        /\ op' = "none" /\ opByIo' = FALSE /\ ioPc' = "idle" /\ message' = 0
        /\ session' = Closed /\ covering' = Closed /\ opened' = opened
    BY <1>7 DEF Exit, Crash, Gone
  <2>2. << >> \in [DOMAIN << >> -> Owners]
    OBVIOUS
  <2>3. due' \in [Files -> SUBSET (1 .. MaxMessages)]
    BY <1>7 DEF Exit, Crash
  <2>4. 0 \in 0 .. MaxMessages
    BY BoundsAssumption
  <2> QED  BY <1>0, <2>1, <2>2, <2>3, <2>4 DEF Closed
<1> QED  BY <1>1, <1>2, <1>3, <1>4, <1>5, <1>6, <1>7

LEMMA TypesInvAlways == Spec => []TypesInv
<1>1. Init => TypesInv
  <2> SUFFICES ASSUME Init  PROVE TypesInv
    OBVIOUS
  <2>1. << >> \in [DOMAIN << >> -> Owners] /\ 0 \in 0 .. MaxMessages
    BY BoundsAssumption
  <2>2. /\ callbacks = << >> /\ pending = << >> /\ recorderId = -1 /\ op = "none" /\ opByIo = FALSE
        /\ ioPc = "idle" /\ message = 0 /\ alive = TRUE /\ session = 0 /\ covering = 0 /\ opened = 0
    BY DEF Init, RecorderInit, Closed
  <2>3. due \in [Files -> SUBSET (1 .. MaxMessages)]
    BY DEF Init, RecorderInit
  <2>4. opByIo \in BOOLEAN /\ alive \in BOOLEAN
    BY <2>2
  <2>5. /\ callbacks \in [DOMAIN callbacks -> Owners] /\ pending \in [DOMAIN pending -> Owners]
    BY <2>1, <2>2
  <2>6. recorderId \in Nat \union {-1}
    BY <2>2
  <2>7. /\ session \in 0 .. opened /\ covering \in 0 .. opened /\ message \in 0 .. MaxMessages
        /\ op = "none" /\ ioPc = "idle"
    BY <2>1, <2>2
  <2> QED  BY <2>3, <2>4, <2>5, <2>6, <2>7 DEF TypesInv
<1>2. FilesInv /\ TablesInv /\ TypesInv /\ [Next]_vars => TypesInv'
  <2> SUFFICES ASSUME FilesInv, TablesInv, TypesInv, [Next]_vars  PROVE TypesInv'
    OBVIOUS
  <2>1. CASE UNCHANGED recorderVars
    BY <2>1 DEF recorderVars, ioVars, handleVars, historyVars, TypesInv
  <2>2. CASE Record
    BY <2>2, IoTypes, HandleTypes DEF Record, RecorderNext
  <2> QED  BY <2>1, <2>2 DEF Next, ChooseFile, Replay, vars
<1>3. RecordInv /\ RecordedInv => FilesInv /\ TablesInv
  BY DEF RecordInv, RecordedInv
<1> QED  BY <1>1, <1>2, <1>3, RecordInvAlways, RecordedInvAlways, PTL DEF Spec

(* Recorder, reader and disk have their types, for any bounds and any      *)
(* files of others.                                                        *)
THEOREM TypeCorrect == Spec => []TypeOK
<1>1. RecordInv /\ RecordedInv /\ TypesInv /\ ReplayInv => TypeOK
  <2> SUFFICES ASSUME FilesInv, TablesInv, TypesInv, CutInv, ReaderTypeOK, ChosenInv
               PROVE  TypeOK
    BY DEF RecordInv, RecordedInv, ReplayInv, ReadInv, ReaderInv
  <2>1. quiet \subseteq Files
    BY BoundsAssumption DEF FilesInv, Files
  <2>2. RecorderTypeOK
    BY <2>1 DEF RecorderTypeOK, FilesInv, TablesInv, TypesInv, CutInv
  <2> QED  BY <2>2 DEF TypeOK, ChosenInv
<1> QED  BY <1>1, RecordInvAlways, RecordedInvAlways, TypesInvAlways, ReplayInvAlways, PTL

(* Beside a recorder too, a reader returns what was recorded whole, in the *)
(* order of the file and nothing twice.                                    *)
THEOREM ReplayInOrder == Spec => []ReadsInOrder
<1>1. ReplayInv => ReadsInOrder
  BY DEF ReplayInv, ReadInv, ReaderInv
<1> QED  BY <1>1, ReplayInvAlways, PTL

(* And it leaves nothing behind, whatever file of the process it chose.    *)
THEOREM ReplayComplete == Spec => []NothingLeftBehind
<1>1. ReplayInv => NothingLeftBehind
  BY DEF ReplayInv, ReadInv
<1> QED  BY <1>1, ReplayInvAlways, PTL
===============================================================================
