---------------------------- MODULE FileReaderProofs ----------------------------
(***************************************************************************)
(* Proofs about FileReader, for every file: nothing is assumed of its      *)
(* pieces but that the items of headers are log items.                     *)
(*                                                                         *)
(* The argument: what is returned always lies before nextItem_, and        *)
(* nextItem_ only becomes 0 when no whole message lies behind it.          *)
(***************************************************************************)
EXTENDS FileReader, WellFoundedInduction, TLAPS

readerAll == <<fileVars, readerVars>>

(* A non-empty set of naturals has a least element, and Min is it. *)
LEMMA MinOfNaturals ==
  ASSUME NEW S, S \subseteq Nat, S # {}
  PROVE  Min(S) \in S /\ \A y \in S : Min(S) <= y
<1> DEFINE R == {p \in Nat \X Nat : p[1] < p[2]}
<1>1. R = OpToRel(<, Nat)
  BY DEF OpToRel
<1>2. IsWellFoundedOn(R, Nat)
  BY <1>1, NatLessThanWellFounded
<1> HIDE DEF R
<1>3. PICK x \in S : \A y \in S : ~ (<<y, x>> \in R)
  BY <1>2, WFMin
<1>4. ASSUME NEW y \in S  PROVE x <= y
  <2>1. y < x => <<y, x>> \in R
    BY DEF R
  <2>2. y \in Nat /\ x \in Nat
    OBVIOUS
  <2> QED  BY <1>3, <2>1, <2>2
<1> QED  BY <1>4 DEF Min

Start == file \in Seq(Pieces) /\ torn \in BOOLEAN /\ ReaderClosed

-------------------------------------------------------------------------------
(* The pieces of the state. *)

LEMMA SonarItemsAreItems ==
  ASSUME file \in Seq(Pieces), NEW k \in SonarItems
  PROVE  k \in Nat \ {0} /\ 2 * k <= Len(file) /\ ItemAt(k).msg \in Nat
<1>1. k \in 1 .. Len(file) /\ 2 * k <= Len(file) /\ ItemAt(k).type = "sonar"
  BY DEF SonarItems, Items, HasHeader, Whole
<1>2. file[2 * k] \in Pieces
  BY <1>1
<1>3. ItemAt(k) \in LogItems
  BY <1>2 DEF Pieces, ItemAt
<1>4. ItemAt(k).msg \in Nat
  BY <1>1, <1>3 DEF LogItems, OtherItem
<1> QED
  BY <1>1, <1>4

(* The message a search stops at.                                          *)
LEMMA FoundAhead ==
  ASSUME file \in Seq(Pieces), item \in Nat,
         NEW ahead \in SUBSET MessagesAhead, ahead # {}
  PROVE  /\ Min(ahead) \in ahead
         /\ Min(ahead) \in SonarItems /\ Min(ahead) >= item
         /\ \A k \in ahead : Min(ahead) <= k
<1>1. ahead \subseteq Nat
  BY SonarItemsAreItems DEF MessagesAhead
<1>2. Min(ahead) \in ahead /\ \A k \in ahead : Min(ahead) <= k
  BY <1>1, MinOfNaturals
<1> QED
  BY <1>2 DEF MessagesAhead

LEMMA StampIsTyped ==
  ASSUME file \in Seq(Pieces), NEW m \in Nat \ {0}
  PROVE  (IF Stamped(m) THEN ItemAt(m + 1).msg ELSE Date) \in Nat \union {Date}
<1>1. CASE Stamped(m)
  <2>1. 2 * (m + 1) \in 1 .. Len(file) /\ ItemAt(m + 1).type = "stamp"
    BY <1>1 DEF Stamped, HasHeader, Whole
  <2>2. file[2 * (m + 1)] \in Pieces
    BY <2>1
  <2>3. ItemAt(m + 1) \in LogItems
    BY <2>2 DEF Pieces, ItemAt
  <2>4. ItemAt(m + 1).msg \in Nat
    BY <2>1, <2>3 DEF LogItems, OtherItem
  <2> QED
    BY <1>1, <2>4
<1>2. CASE ~Stamped(m)
  BY <1>2
<1> QED
  BY <1>1, <1>2

(* nextItem_ is 0 once a read has failed and before the file is open, and  *)
(* what was returned lies before it.                                       *)
ItemsAhead ==
  /\ failbit => item = 0
  /\ status # "open" => item = 0 /\ failbit = FALSE /\ returned = << >>
  /\ item # 0 => \A i \in 1 .. Len(returned) : returned[i].item < item

ReaderInv == ReaderTypeOK /\ ItemsAhead /\ ReadsInOrder

LEMMA StartInv == Start => ReaderInv /\ NothingLeftBehind
<1> SUFFICES ASSUME Start PROVE ReaderInv /\ NothingLeftBehind
  OBVIOUS
<1> USE DEF Start, ReaderClosed
<1>1. Len(file) \in Nat /\ Len(returned) = 0
  OBVIOUS
<1> QED
  <2>1. item \in 0 .. Len(file) /\ returned \in Seq([item : Nat, stamp : Nat \union {Date}])
    BY <1>1
  <2>2. ReaderTypeOK
    BY <2>1 DEF ReaderTypeOK
  <2>3. ItemsAhead /\ ReadsInOrder
    BY <1>1 DEF ItemsAhead, ReadsInOrder
  <2>4. NothingLeftBehind
    BY DEF NothingLeftBehind
  <2> QED
    BY <2>2, <2>3, <2>4 DEF ReaderInv

(* What read_next_header makes of nextItem_ and the error bits.            *)
ItemRead(k) ==
  \/ item' = k /\ k <= Len(file) /\ failbit' = FALSE /\ eofbit' = eofbit
  \/ item' = 0 /\ failbit' = TRUE /\ eofbit' = TRUE

LEMMA HeaderIsRead ==
  ASSUME file \in Seq(Pieces), failbit = FALSE, NEW k \in Nat \ {0}, ReadHeader(k)
  PROVE  ItemRead(k)
BY DEF ReadHeader, ItemRead, HasHeader, Whole

LEMMA OrderKept ==
  ASSUME ReadsInOrder, UNCHANGED <<fileVars, returned>>
  PROVE  ReadsInOrder'
BY DEF ReadsInOrder, SonarItems, Items, HasPayload, HasHeader, Whole, ItemAt, fileVars

Outcomes == {"none", "message", "end", "throw"}
Returns == Seq([item : Nat, stamp : Nat \union {Date}])

LEMMA TypeKept ==
  ASSUME ReaderTypeOK, UNCHANGED fileVars, item' \in 0 .. Len(file),
         failbit' \in BOOLEAN, eofbit' \in BOOLEAN, skipped' \in BOOLEAN,
         status' \in {"closed", "open", "refused"},
         outcome' \in Outcomes, returned' \in Returns
  PROVE  ReaderTypeOK'
BY DEF ReaderTypeOK, fileVars, Outcomes, Returns

LEMMA ItemReadType ==
  ASSUME Len(file) \in Nat, eofbit \in BOOLEAN, NEW k \in Nat, ItemRead(k)
  PROVE  item' \in 0 .. Len(file) /\ failbit' \in BOOLEAN /\ eofbit' \in BOOLEAN
<1>1. CASE item' = k /\ k <= Len(file) /\ failbit' = FALSE /\ eofbit' = eofbit
  <2>1. item' \in 0 .. Len(file)
    BY <1>1
  <2>2. failbit' \in BOOLEAN /\ eofbit' \in BOOLEAN
    BY <1>1
  <2> QED
    BY <2>1, <2>2
<1>2. CASE item' = 0 /\ failbit' = TRUE /\ eofbit' = TRUE
  BY <1>2
<1> QED
  BY <1>1, <1>2 DEF ItemRead

(* A search, in what every call leaves alone.                              *)
LEMMA ReadFromInv ==
  ASSUME ReaderInv, status = "open", NEW ahead \in SUBSET MessagesAhead,
         ReadFrom(ahead), UNCHANGED <<fileVars, status>>, skipped' \in BOOLEAN
  PROVE  ReaderInv'
<1>0. /\ ReaderTypeOK /\ ItemsAhead /\ ReadsInOrder
      /\ file \in Seq(Pieces) /\ Len(file) \in Nat /\ item \in 0 .. Len(file) /\ item \in Nat
      /\ failbit \in BOOLEAN /\ eofbit \in BOOLEAN
      /\ returned \in Returns /\ Len(returned) \in Nat
      /\ status' = "open" /\ status' \in {"closed", "open", "refused"} /\ UNCHANGED fileVars
  BY DEF ReaderInv, ReaderTypeOK, Returns
<1>1. ASSUME returned' = returned, outcome' \in Outcomes, item' = 0,
             failbit' \in BOOLEAN, eofbit' \in BOOLEAN
      PROVE  ReaderInv'
  <2>1. item' \in 0 .. Len(file) /\ returned' \in Returns
    BY <1>0, <1>1
  <2>2. ReaderTypeOK'
    BY <1>0, <1>1, <2>1, TypeKept
  <2>3. ReadsInOrder'
    BY <1>0, <1>1, OrderKept
  <2>4. ItemsAhead'
    BY <1>1 DEF ItemsAhead
  <2> QED
    BY <2>2, <2>3, <2>4 DEF ReaderInv
<1>2. CASE item = 0 \/ ahead = {}
  <2>1. /\ item' = 0 /\ returned' = returned /\ outcome' = "end"
        /\ failbit' \in BOOLEAN /\ eofbit' \in BOOLEAN
    BY <1>0, <1>2 DEF ReadFrom, NothingAhead
  <2> QED
    BY <1>1, <2>1 DEF Outcomes
<1>3. CASE ~(item = 0 \/ ahead = {})
  <2> DEFINE m == Min(ahead)
  <2>0. failbit = FALSE /\ item # 0
    BY <1>0, <1>3 DEF ItemsAhead
  <2>1. m \in SonarItems /\ m >= item
    BY <1>0, <1>3, FoundAhead
  <2>2. ReadMessageAt(m)
    BY <1>3 DEF ReadFrom
  <2>3. m \in Nat \ {0} /\ 2 * m <= Len(file) /\ ItemAt(m).msg \in Nat
    BY <1>0, <2>1, SonarItemsAreItems
  <2> HIDE DEF m
  <2>4. CASE Broken(m)
    <3>1. /\ item' = 0 /\ returned' = returned /\ outcome' = "throw"
          /\ failbit' = TRUE /\ eofbit' = TRUE
      BY <2>2, <2>4 DEF ReadMessageAt, PayloadFails
    <3> QED
      BY <1>1, <3>1 DEF Outcomes
  <2>5. CASE ~Broken(m)
    <3> DEFINE stamp == IF Stamped(m) THEN ItemAt(m + 1).msg ELSE Date
               entry == [item |-> m, stamp |-> stamp]
               next == IF Stamped(m) THEN m + 2 ELSE m + 1
    <3>1. returned' = Append(returned, entry) /\ outcome' = "message" /\ ReadHeader(next)
      BY <2>2, <2>5 DEF ReadMessageAt
    <3>2. next \in Nat \ {0} /\ next > m /\ HasPayload(m)
      BY <2>3, <2>5 DEF Broken
    <3>3. stamp \in Nat \union {Date}
      BY <1>0, <2>3, StampIsTyped
    <3> HIDE DEF next, stamp
    <3>4. entry \in [item : Nat, stamp : Nat \union {Date}]
      BY <2>3, <3>3
    <3>5. ItemRead(next)
      BY <1>0, <2>0, <3>1, <3>2, HeaderIsRead
    <3>6. ReaderTypeOK'
      <4>1. item' \in 0 .. Len(file) /\ failbit' \in BOOLEAN /\ eofbit' \in BOOLEAN
        BY <1>0, <3>2, <3>5, ItemReadType
      <4>2. returned' \in Returns
        BY <1>0, <3>1, <3>4 DEF Returns
      <4>3. outcome' \in Outcomes
        BY <3>1 DEF Outcomes
      <4> QED
        BY <1>0, <4>1, <4>2, <4>3, TypeKept
    <3>7. \A i \in 1 .. Len(returned) : returned[i].item \in Nat /\ returned[i].item < m
      <4> TAKE i \in 1 .. Len(returned)
      <4>1. returned[i].item \in SonarItems /\ returned[i].item < item
        BY <1>0, <2>0 DEF ItemsAhead, ReadsInOrder
      <4>2. returned[i].item \in Nat
        BY <1>0, <4>1, SonarItemsAreItems
      <4> QED
        BY <1>0, <2>1, <2>3, <4>1, <4>2
    <3>8. /\ Len(returned') = Len(returned) + 1
          /\ \A i \in 1 .. Len(returned) : returned'[i] = returned[i]
          /\ returned'[Len(returned) + 1].item = m
      BY <1>0, <3>1, <3>4 DEF Returns
    <3>9. ReadsInOrder'
      <4>1. SonarItems' = SonarItems /\ \A k : HasPayload(k)' = HasPayload(k)
        BY <1>0 DEF SonarItems, Items, HasHeader, HasPayload, Whole, ItemAt, fileVars
      <4>2. \A i \in 1 .. Len(returned') :
              /\ i \in 1 .. Len(returned) \/ i = Len(returned) + 1
              /\ returned'[i].item \in SonarItems /\ HasPayload(returned'[i].item)
        BY <1>0, <2>1, <3>2, <3>8 DEF ReadsInOrder
      <4>3. \A i, j \in 1 .. Len(returned') :
              i < j => returned'[i].item < returned'[j].item
        BY <1>0, <3>7, <3>8, <4>2 DEF ReadsInOrder
      <4> QED
        BY <4>1, <4>2, <4>3 DEF ReadsInOrder
    <3>10. ItemsAhead'
      <4>1. CASE item' = next /\ failbit' = FALSE
        <5>1. \A i \in 1 .. Len(returned') : returned'[i].item < next
          <6> TAKE i \in 1 .. Len(returned')
          <6>1. i \in 1 .. Len(returned) \/ i = Len(returned) + 1
            BY <1>0, <3>8
          <6> QED
            BY <2>3, <3>2, <3>7, <3>8, <6>1
        <5> QED
          BY <1>0, <4>1, <5>1 DEF ItemsAhead
      <4>2. CASE item' = 0
        BY <1>0, <4>2 DEF ItemsAhead
      <4> QED
        BY <3>5, <4>1, <4>2 DEF ItemRead
    <3> QED
      BY <3>6, <3>9, <3>10 DEF ReaderInv
  <2> QED
    BY <2>4, <2>5
<1> QED
  BY <1>2, <1>3

LEMMA StepInv == ReaderInv /\ [ReaderNext]_readerAll => ReaderInv'
<1> SUFFICES ASSUME ReaderInv, [ReaderNext]_readerAll PROVE ReaderInv'
  OBVIOUS
<1>0. /\ ReaderTypeOK /\ ItemsAhead /\ ReadsInOrder
      /\ file \in Seq(Pieces) /\ Len(file) \in Nat /\ item \in 0 .. Len(file)
      /\ item \in Nat /\ item + 1 \in Nat \ {0} /\ 1 \in Nat \ {0}
      /\ failbit \in BOOLEAN /\ eofbit \in BOOLEAN /\ skipped \in BOOLEAN
      /\ outcome \in Outcomes /\ returned \in Returns /\ Len(returned) \in Nat
      /\ status \in {"closed", "open", "refused"}
  BY DEF ReaderInv, ReaderTypeOK, Outcomes, Returns
<1>1. CASE ReadNextMessage
  <2>1. MessagesAhead \in SUBSET MessagesAhead
    OBVIOUS
  <2> QED
    BY <1>0, <1>1, <2>1, ReadFromInv DEF ReadNextMessage, ReaderTypeOK
<1>2. CASE ReadNextPing
  <2>1. PingsAhead \in SUBSET MessagesAhead
    BY DEF PingsAhead
  <2> QED
    BY <1>2, <2>1, ReadFromInv DEF ReadNextPing
<1> USE DEF ReaderInv
<1>3. CASE Open
  <2>1. \/ ReadHeader(1) /\ status' = "open" /\ outcome' = outcome
        \/ /\ status' = "refused" /\ outcome' = "throw"
           /\ item' = item /\ failbit' = failbit /\ eofbit' = eofbit
    BY <1>3 DEF Open
  <2>2. /\ returned = << >> /\ item = 0 /\ failbit = FALSE
        /\ UNCHANGED <<fileVars, returned, skipped>>
    BY <1>3 DEF Open, ItemsAhead
  <2>3. ItemRead(1) \/ (item' = 0 /\ failbit' = FALSE /\ eofbit' = eofbit)
    BY <1>0, <2>1, <2>2, HeaderIsRead
  <2>4. ReadsInOrder'
    BY <1>0, <2>2, OrderKept
  <2>5. ReaderTypeOK'
    <3>1. item' \in 0 .. Len(file) /\ failbit' \in BOOLEAN /\ eofbit' \in BOOLEAN
      <4>1. CASE ItemRead(1)
        BY <1>0, <4>1, ItemReadType
      <4>2. CASE item' = 0 /\ failbit' = FALSE /\ eofbit' = eofbit
        <5>1. item' \in 0 .. Len(file)
          BY <1>0, <4>2
        <5>2. failbit' \in BOOLEAN /\ eofbit' \in BOOLEAN
          BY <1>0, <4>2
        <5> QED
          BY <5>1, <5>2
      <4> QED
        BY <2>3, <4>1, <4>2
    <3>2. outcome' \in Outcomes /\ status' \in {"closed", "open", "refused"}
      BY <1>0, <2>1 DEF Outcomes
    <3> QED
      BY <1>0, <2>2, <3>1, <3>2, TypeKept
  <2>6. ItemsAhead'
    <3>1. Len(returned') = 0
      BY <2>2
    <3> QED
      BY <1>3, <2>1, <2>2, <2>3, <3>1 DEF ItemRead, ItemsAhead, ReadHeader
  <2> QED
    BY <2>4, <2>5, <2>6
<1>4. CASE JumpItem \/ ReadNextItem
  <2>1. status = "open" /\ item # 0 /\ failbit = FALSE
    BY <1>0, <1>4 DEF JumpItem, ReadNextItem, ItemsAhead
  <2>2. skipped' = TRUE /\ outcome' \in {"none", "throw"} /\ UNCHANGED <<fileVars, status, returned>>
    BY <1>4 DEF JumpItem, ReadNextItem, PayloadFails
  <2>3. ReadHeader(item + 1) \/ (item' = 0 /\ failbit' = TRUE /\ eofbit' = TRUE)
    BY <1>4 DEF JumpItem, ReadNextItem, PayloadFails
  <2>4. ItemRead(item + 1)
    BY <1>0, <2>1, <2>3, HeaderIsRead DEF ItemRead
  <2>5. ReadsInOrder'
    BY <1>0, <2>2, OrderKept
  <2>6. ReaderTypeOK'
    <3>1. item' \in 0 .. Len(file) /\ failbit' \in BOOLEAN /\ eofbit' \in BOOLEAN
      BY <1>0, <2>4, ItemReadType
    <3>2. outcome' \in Outcomes /\ status' \in {"closed", "open", "refused"}
      BY <1>0, <2>2 DEF Outcomes
    <3>3. skipped' \in BOOLEAN /\ returned' \in Returns /\ UNCHANGED fileVars
      BY <1>0, <2>2
    <3> QED
      BY <1>0, <3>1, <3>2, <3>3, TypeKept
  <2>7. ItemsAhead'
    <3>1. \A i \in 1 .. Len(returned) : returned[i].item < item /\ returned[i].item \in Nat
      BY <1>0, <2>1, SonarItemsAreItems DEF ItemsAhead, ReadsInOrder
    <3> QED
      BY <1>0, <2>1, <2>2, <2>4, <3>1 DEF ItemRead, ItemsAhead
  <2> QED
    BY <2>5, <2>6, <2>7
<1>6. CASE Rewind
  <2>1. status = "open" /\ UNCHANGED <<fileVars, status>>
    BY <1>6 DEF Rewind
  <2>2. CASE failbit
    <3>1. /\ item' = 0 /\ eofbit' = FALSE /\ outcome' = "throw"
          /\ UNCHANGED <<failbit, returned, skipped>>
      BY <1>6, <2>2 DEF Rewind
    <3>2. ReadsInOrder'
      BY <1>0, <2>1, <3>1, OrderKept
    <3>3. item' \in 0 .. Len(file) /\ outcome' \in Outcomes
      BY <1>0, <3>1 DEF Outcomes
    <3>4. ReaderTypeOK'
      BY <1>0, <2>1, <3>1, <3>3, TypeKept
    <3>5. ItemsAhead'
      BY <2>1, <3>1 DEF ItemsAhead
    <3> QED
      BY <3>2, <3>4, <3>5
  <2>3. CASE ~failbit
    <3>1. /\ ReadHeader(1) /\ outcome' = "none" /\ skipped' = FALSE
          /\ returned' = << >> /\ Len(returned') = 0
      BY <1>6, <2>3 DEF Rewind
    <3>2. ItemRead(1)
      BY <1>0, <2>3, <3>1, HeaderIsRead
    <3>3. ReadsInOrder' /\ ItemsAhead'
      BY <2>1, <3>1, <3>2 DEF ReadsInOrder, ItemsAhead, ItemRead
    <3>4. ReaderTypeOK'
      <4>1. item' \in 0 .. Len(file) /\ failbit' \in BOOLEAN /\ eofbit' \in BOOLEAN
        BY <1>0, <3>2, ItemReadType
      <4>2. returned' \in Returns /\ outcome' \in Outcomes
        BY <3>1 DEF Returns, Outcomes
      <4> QED
        BY <1>0, <2>1, <3>1, <4>1, <4>2, TypeKept
    <3> QED
      BY <3>3, <3>4
  <2> QED
    BY <2>2, <2>3
<1>7. CASE UNCHANGED readerAll
  <2>1. ReadsInOrder'
    BY <1>7, OrderKept DEF readerAll, readerVars
  <2> QED
    BY <1>7, <2>1 DEF readerAll, readerVars, fileVars, ReaderTypeOK, ItemsAhead
<1> QED
  BY <1>1, <1>2, <1>3, <1>4, <1>6, <1>7 DEF ReaderNext

-------------------------------------------------------------------------------
(* Nothing is left behind. *)

Given(messages, k) == \E i \in 1 .. Len(messages) : messages[i].item = k

(* Every whole message before item k is among the messages.                *)
GivenUpTo(messages, k) ==
  \A j \in SonarItems : ~Broken(j) /\ j < k => Given(messages, j)

(* Where the file ends, so do the messages.                                *)
LEMMA NoneBehind ==
  ASSUME file \in Seq(Pieces), NEW k \in Nat \ {0}, NEW j \in SonarItems
  PROVE  /\ ~HasHeader(k) => j < k
         /\ ~HasPayload(k) => j <= k
<1>1. j \in Nat \ {0} /\ 2 * j <= Len(file) /\ (2 * j = Len(file) => ~torn)
  <2>1. HasHeader(j)
    BY DEF SonarItems
  <2> QED  BY <2>1, SonarItemsAreItems DEF HasHeader, Whole
<1>2. Len(file) \in Nat
  OBVIOUS
<1>3. ASSUME ~HasHeader(k), j >= k  PROVE FALSE
  <2>1. 2 * k <= 2 * j /\ 2 * k \in Nat /\ 2 * j \in Nat
    BY <1>1, <1>3
  <2> QED  BY <1>1, <1>2, <1>3, <2>1 DEF HasHeader, Whole
<1>4. ASSUME ~HasPayload(k), j > k  PROVE FALSE
  <2>1. 2 * k + 1 < 2 * j /\ 2 * k + 1 \in Nat /\ 2 * j \in Nat
    BY <1>1, <1>4
  <2> QED  BY <1>1, <1>2, <1>4, <2>1 DEF HasPayload, Whole
<1> QED  BY <1>1, <1>3, <1>4

(* A message that cannot be read is the last of its file.                  *)
LEMMA BrokenIsLast ==
  ASSUME file \in Seq(Pieces), NEW k \in SonarItems, Broken(k), NEW j \in SonarItems
  PROVE  j <= k
<1>1. k \in Nat \ {0} /\ j \in Nat \ {0}
  BY SonarItemsAreItems
<1>2. CASE ~HasPayload(k)
  BY <1>1, <1>2, NoneBehind
<1>3. CASE Stamped(k) /\ ~HasPayload(k + 1)
  <2>1. j <= k + 1
    BY <1>1, <1>3, NoneBehind
  <2>2. j # k + 1
    BY <1>3 DEF Stamped, SonarItems
  <2> QED  BY <1>1, <2>1, <2>2
<1> QED  BY <1>2, <1>3 DEF Broken

(* The read ahead of item k leaves nothing behind if nothing was before k. *)
LEMMA ReadAhead ==
  ASSUME file \in Seq(Pieces), UNCHANGED fileVars, NEW k \in Nat \ {0},
         ReadHeader(k), GivenUpTo(returned', k)
  PROVE  NothingLeftBehind'
<1>1. SonarItems' = SonarItems /\ \A j : Broken(j)' = Broken(j)
  BY DEF SonarItems, Items, HasHeader, HasPayload, Whole, ItemAt, Broken, Stamped, fileVars
<1>2. ASSUME NEW j \in SonarItems, item' # 0 => j < item'
      PROVE  j < k
  <2>1. CASE HasHeader(k)
    BY <1>2, <2>1 DEF ReadHeader
  <2>2. CASE ~HasHeader(k)
    BY <2>2, NoneBehind
  <2> QED  BY <2>1, <2>2
<1>3. ASSUME NEW j \in SonarItems, ~Broken(j), item' # 0 => j < item'
      PROVE  Given(returned', j)
  BY <1>2, <1>3 DEF GivenUpTo
<1> QED  BY <1>1, <1>3 DEF NothingLeftBehind, Given

(* The end: nothing behind the position is whole, or nothing at all is.    *)
LEMMA ReadToTheEnd ==
  ASSUME UNCHANGED fileVars, UNCHANGED returned,
         NothingLeftBehind, status = "open", ~skipped, item \in Nat,
         \A j \in SonarItems : ~Broken(j) => item = 0 \/ j < item
  PROVE  NothingLeftBehind'
<1>1. SonarItems' = SonarItems /\ \A j : Broken(j)' = Broken(j)
  BY DEF SonarItems, Items, HasHeader, HasPayload, Whole, ItemAt, Broken, Stamped, fileVars
<1>2. \A j \in SonarItems : ~Broken(j) => \E i \in 1 .. Len(returned) : returned[i].item = j
  BY DEF NothingLeftBehind
<1> QED  BY <1>1, <1>2 DEF NothingLeftBehind

LEMMA CompleteMessage ==
  ASSUME ReaderInv, NothingLeftBehind, ReadNextMessage
  PROVE  NothingLeftBehind'
<1>0. /\ file \in Seq(Pieces) /\ item \in Nat /\ returned \in Returns
      /\ status = "open" /\ UNCHANGED <<fileVars, status, skipped>>
  BY DEF ReaderInv, ReaderTypeOK, Returns, ReadNextMessage
<1>1. CASE skipped
  BY <1>0, <1>1 DEF NothingLeftBehind
<1>2. CASE ~skipped /\ (item = 0 \/ MessagesAhead = {})
  <2>1. returned' = returned
    BY <1>2 DEF ReadNextMessage, ReadFrom, NothingAhead
  <2>2. \A j \in SonarItems : item = 0 \/ j < item
    BY <1>0, <1>2, SonarItemsAreItems DEF MessagesAhead
  <2> QED  BY <1>0, <1>2, <2>1, <2>2, ReadToTheEnd
<1>3. CASE ~skipped /\ item # 0 /\ MessagesAhead # {}
  <2> DEFINE m == Min(MessagesAhead)
  <2>1. /\ m \in SonarItems /\ m >= item
        /\ \A k \in MessagesAhead : m <= k
    BY <1>0, <1>3, FoundAhead
  <2>2. ReadMessageAt(m)
    BY <1>3 DEF ReadNextMessage, ReadFrom
  <2>3. m \in Nat \ {0} /\ ItemAt(m).msg \in Nat
    BY <1>0, <2>1, SonarItemsAreItems
  <2> HIDE DEF m
  <2>4. GivenUpTo(returned, m)
    <3> SUFFICES ASSUME NEW j \in SonarItems, ~Broken(j), j < m
                 PROVE  Given(returned, j)
      BY DEF GivenUpTo
    <3>1. j \in Nat /\ j < item
      BY <1>0, <2>1, <2>3, SonarItemsAreItems DEF MessagesAhead
    <3> QED  BY <1>0, <1>3, <3>1 DEF NothingLeftBehind, Given
  <2>5. CASE Broken(m)
    <3>1. returned' = returned /\ item' = 0
      BY <2>2, <2>5 DEF ReadMessageAt, PayloadFails
    <3>2. ASSUME NEW j \in SonarItems, ~Broken(j)
          PROVE  Given(returned, j)
      <4>1. j <= m /\ j # m /\ j \in Nat
        BY <1>0, <2>1, <2>5, <3>2, BrokenIsLast, SonarItemsAreItems
      <4> QED  BY <2>3, <2>4, <3>2, <4>1 DEF GivenUpTo
    <3>3. SonarItems' = SonarItems /\ \A j : Broken(j)' = Broken(j)
      BY <1>0 DEF SonarItems, Items, HasHeader, HasPayload, Whole, ItemAt, Broken, Stamped, fileVars
    <3> QED  BY <3>1, <3>2, <3>3 DEF NothingLeftBehind, Given
  <2>6. CASE ~Broken(m)
    <3> DEFINE entry == [item |-> m, stamp |-> IF Stamped(m) THEN ItemAt(m + 1).msg ELSE Date]
               next == IF Stamped(m) THEN m + 2 ELSE m + 1
    <3>1. returned' = Append(returned, entry) /\ ReadHeader(next)
      BY <2>2, <2>6 DEF ReadMessageAt
    <3>2. entry \in [item : Nat, stamp : Nat \union {Date}]
      BY <1>0, <2>3, StampIsTyped
    <3>3. /\ Len(returned') = Len(returned) + 1 /\ Len(returned) \in Nat
          /\ \A i \in 1 .. Len(returned) : returned'[i] = returned[i]
          /\ returned'[Len(returned) + 1].item = m
      BY <1>0, <3>1, <3>2 DEF Returns
    <3>4. GivenUpTo(returned', next)
      <4> SUFFICES ASSUME NEW j \in SonarItems, ~Broken(j), j < next
                   PROVE  Given(returned', j)
        BY DEF GivenUpTo
      <4>1. j \in Nat /\ j <= m
        <5>1. j \in Nat /\ ItemAt(j).type = "sonar"
          BY <1>0, SonarItemsAreItems DEF SonarItems
        <5>2. Stamped(m) => j # m + 1
          BY <5>1 DEF Stamped
        <5> QED  BY <2>3, <5>1, <5>2
      <4>2. CASE j = m
        BY <3>3, <4>2 DEF Given
      <4>3. CASE j # m
        <5>1. Given(returned, j)
          BY <2>3, <2>4, <4>1, <4>3 DEF GivenUpTo
        <5> QED  BY <3>3, <5>1 DEF Given
      <4> QED  BY <4>2, <4>3
    <3>5. next \in Nat \ {0}
      BY <2>3
    <3> HIDE DEF next
    <3> QED  BY <1>0, <3>1, <3>4, <3>5, ReadAhead
  <2> QED  BY <2>5, <2>6
<1> QED  BY <1>1, <1>2, <1>3

LEMMA CompleteStep ==
  ReaderInv /\ NothingLeftBehind /\ [ReaderNext]_readerAll => NothingLeftBehind'
<1> SUFFICES ASSUME ReaderInv, NothingLeftBehind, [ReaderNext]_readerAll
             PROVE  NothingLeftBehind'
  OBVIOUS
<1>0. /\ file \in Seq(Pieces) /\ item \in Nat /\ 1 \in Nat \ {0}
      /\ failbit => item = 0
  BY DEF ReaderInv, ReaderTypeOK, ItemsAhead
<1>1. GivenUpTo(returned', 1)
  <2>1. \A j \in SonarItems : ~(j < 1)
    BY <1>0, SonarItemsAreItems
  <2> QED  BY <2>1 DEF GivenUpTo
<1>2. CASE Open
  <2>1. CASE status' = "open"
    <3>1. ReadHeader(1) /\ UNCHANGED fileVars
      BY <1>2, <2>1 DEF Open
    <3> QED  BY <1>0, <1>1, <3>1, ReadAhead
  <2>2. CASE status' # "open"
    BY <2>2 DEF NothingLeftBehind
  <2> QED  BY <2>1, <2>2
<1>3. CASE JumpItem \/ ReadNextItem \/ ReadNextPing
  <2>1. skipped' = TRUE
    BY <1>3 DEF JumpItem, ReadNextItem, ReadNextPing
  <2> QED  BY <2>1 DEF NothingLeftBehind
<1>4. CASE Rewind
  <2>1. status = "open" /\ UNCHANGED <<fileVars, status>>
    BY <1>4 DEF Rewind
  <2>2. CASE failbit
    <3>1. item' = 0 /\ item = 0 /\ UNCHANGED <<returned, skipped>>
      BY <1>0, <1>4, <2>2 DEF Rewind
    <3>2. CASE skipped
      BY <3>1, <3>2 DEF NothingLeftBehind
    <3>3. CASE ~skipped
      BY <1>0, <2>1, <3>1, <3>3, ReadToTheEnd
    <3> QED  BY <3>2, <3>3
  <2>3. CASE ~failbit
    BY <1>0, <1>1, <1>4, <2>1, <2>3, ReadAhead DEF Rewind
  <2> QED  BY <2>2, <2>3
<1>5. CASE ReadNextMessage
  BY <1>5, CompleteMessage
<1>6. CASE UNCHANGED readerAll
  BY <1>6 DEF readerAll, readerVars, fileVars, NothingLeftBehind, SonarItems, Items,
              HasHeader, HasPayload, Whole, ItemAt, Broken, Stamped
<1> QED  BY <1>2, <1>3, <1>4, <1>5, <1>6 DEF ReaderNext

-------------------------------------------------------------------------------
LEMMA Invariance == ReaderSpec => []ReaderInv
<1>1. Start => ReaderInv
  BY StartInv
<1> QED
  BY <1>1, StepInv, PTL DEF ReaderSpec, Start, readerAll

(* Type correctness of the reader, whatever the file holds.                *)
THEOREM ReaderTypeCorrect == ReaderSpec => []ReaderTypeOK
<1>1. ReaderInv => ReaderTypeOK
  BY DEF ReaderInv
<1> QED
  BY Invariance, <1>1, PTL

(* What a reader returns is whole and in the order of the file, for every  *)
(* file and every mix of calls.                                            *)
THEOREM OrderCorrect == ReaderSpec => []ReadsInOrder
<1>1. ReaderInv => ReadsInOrder
  BY DEF ReaderInv
<1> QED
  BY Invariance, <1>1, PTL

(* A reader that was never asked to pass over anything has been given      *)
(* every whole message behind it, wherever the file ends: a cut costs the  *)
(* message it fell in and no other.                                        *)
THEOREM CompleteCorrect == ReaderSpec => []NothingLeftBehind
<1>1. Start => NothingLeftBehind
  BY StartInv
<1> QED
  BY Invariance, <1>1, CompleteStep, PTL DEF ReaderSpec, Start, readerAll
===============================================================================
