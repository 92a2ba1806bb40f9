-------------------------------- MODULE Reception --------------------------------
(***************************************************************************)
(* How SonarClient (src/SonarClient.cpp) cuts the TCP stream of the sonar  *)
(* into messages: a read of exactly one header, a read of exactly the      *)
(* payload it announces, the callbacks, and again, always into the same    *)
(* Message (include/oculus_driver/OculusMessage.h).                        *)
(*                                                                         *)
(* The stream is a sequence of words: word k of message m is [msg |-> m,   *)
(* pos |-> k], the header being the first HeaderSize words.  async_read    *)
(* moves words into the buffer as they come and completes when it is full, *)
(* or when the connection is lost or its socket replaced, with what it     *)
(* had.  Each connection starts a reception loop, and a loop whose aborted *)
(* read is handled when the next socket is there goes on with that one     *)
(* (SonarClient.tla shows how), so that two loops may fill one message_.   *)
(* What is_valid looks at may also be found in the middle of a message, or *)
(* in a header made of two: such a header may pass, with any payload size. *)
(***************************************************************************)
EXTENDS Integers, SequencesExt

CONSTANTS HeaderSize,      \* words in a header
          Sizes,           \* sizes of payloads, in words
          Offsets,         \* how much of its first message a connection may lack
          Loops,           \* bound: the reception loops there are at a time
          MaxSent,         \* bound: messages sent
          MaxConnections   \* bound: connections

ASSUME HeaderAssumption == HeaderSize \in Nat \ {0}
ASSUME SizesAssumption == Sizes \subseteq Nat /\ Offsets \subseteq Nat
ASSUME BoundsAssumption == MaxSent \in Nat /\ MaxConnections \in Nat \ {0}

VARIABLES
  sent,        \* the payload sizes of the messages sent so far
  wire,        \* the words that were sent and not read
  up,          \* whether the connection holds
  connection,  \* how many there have been
  first,       \* the first message of this connection if it is sound, else
               \* more than any
  reading,     \* what async_read reads in a loop: "header", "payload", "none"
  wanted,      \* how many words it reads
  got,         \* how many of them it has
  stale,       \* the loops that read from a socket that has been replaced
  moved,       \* the loops whose buffer another one has resized since
  header,      \* message_->header_
  data,        \* message_->data_
  handled,     \* history: the messages handed to handle_message
  due          \* history: the message that must be handled next, 0 if this
               \* connection is not sound

streamVars == <<sent, wire, up, connection, first>>
loopVars == <<reading, wanted, got, stale, moved>>
clientVars == <<loopVars, header, data, handled, due>>
vars == <<streamVars, clientVars>>

Zero == [msg |-> 0, pos |-> 0]
Word(m, k) == [msg |-> m, pos |-> k]
Words == [msg : 0 .. MaxSent, pos : Nat]
WordsOf(m) == [k \in 1 .. HeaderSize + sent[m] |-> Word(m, k)]

TypeOK ==
  /\ sent \in Seq(Sizes) /\ Len(sent) <= MaxSent
  /\ wire \in Seq(Words) /\ up \in BOOLEAN
  /\ connection \in 1 .. MaxConnections
  /\ first \in 1 .. MaxSent + 1
  /\ reading \in [Loops -> {"header", "payload", "none"}]
  /\ wanted \in [Loops -> Nat] /\ got \in [Loops -> Nat]
  /\ \A l \in Loops : /\ got[l] <= wanted[l]
                      /\ reading[l] = "header" => wanted[l] = HeaderSize
  /\ stale \subseteq Loops /\ moved \subseteq Loops
  /\ header \in [1 .. HeaderSize -> Words] /\ data \in Seq(Words)
  /\ handled \in Seq(0 .. MaxSent) /\ due \in 0 .. MaxSent + 1

(* Loops have no name in the code: any that is free will do.               *)
AnyOf(loops) == CHOOSE l \in loops : TRUE

(* Connected, at the start of a message, and the first header is read.     *)
Init ==
  /\ sent = << >> /\ wire = << >> /\ up = TRUE
  /\ connection = 1 /\ first = 1
  /\ reading = [l \in Loops |-> IF l = AnyOf(Loops) THEN "header" ELSE "none"]
  /\ wanted = [l \in Loops |-> HeaderSize] /\ got = [l \in Loops |-> 0]
  /\ stale = {} /\ moved = {}
  /\ header = [k \in 1 .. HeaderSize |-> Zero] /\ data = << >>
  /\ handled = << >> /\ due = 1

-------------------------------------------------------------------------------
(* The sonar and the network. *)

SonarSends(size) ==
  /\ up /\ Len(sent) < MaxSent
  /\ sent' = Append(sent, size)
  /\ wire' = wire \o [k \in 1 .. HeaderSize + size |-> Word(Len(sent) + 1, k)]
  /\ UNCHANGED <<up, connection, first, clientVars>>

(* The connection is lost, with any part of what was on its way.           *)
Break ==
  /\ up
  /\ up' = FALSE
  /\ \E n \in 0 .. Len(wire) : wire' = SubSeq(wire, 1, n)
  /\ UNCHANGED <<sent, connection, first, clientVars>>

(* A read of a loop begins, from the socket that there is.                 *)
Read(l, what, size) ==
  /\ reading' = [reading EXCEPT ![l] = what]
  /\ wanted' = [wanted EXCEPT ![l] = size]
  /\ got' = [got EXCEPT ![l] = 0]

(* Mutant: a loop that is not started again.                               *)
Ends(l) == Read(l, "none", HeaderSize)

InitiateReceive(l) == Read(l, "header", HeaderSize)

Running == {l \in Loops : reading[l] # "none"}

(* connect_callback starts the loop of the next connection, which is sound *)
(* if it begins at the start of a message and no other loop is left.  What *)
(* is left reads from a socket that is no more.                            *)
Reconnect(l) ==
  /\ ~up /\ connection < MaxConnections
  /\ l \notin Running /\ l = AnyOf(Loops \ Running)
  /\ up' = TRUE /\ connection' = connection + 1
  /\ \/ /\ wire' = << >> /\ sent' = sent
        /\ IF Running = {} THEN first' = Len(sent) + 1 /\ due' = Len(sent) + 1
                           ELSE first' = MaxSent + 1 /\ due' = 0
     \/ \E size \in Sizes, n \in Offsets :
          /\ Len(sent) < MaxSent /\ n \in 1 .. HeaderSize + size - 1
          /\ sent' = Append(sent, size)
          /\ wire' = [k \in 1 .. HeaderSize + size - n |-> Word(Len(sent) + 1, k + n)]
          /\ first' = MaxSent + 1 /\ due' = 0
  /\ InitiateReceive(l)
  /\ stale' = Running
  /\ UNCHANGED <<moved, header, data, handled>>

-------------------------------------------------------------------------------
(* The io thread. *)

(* Mutant: a read that is content with what has come.                      *)
SomeRead(l) == got[l] > 0 \/ got[l] = wanted[l]

Complete(l) == got[l] = wanted[l]
Cut(l) == l \in stale \/ (~up /\ wire = << >>)

(* Where the next word of a payload goes: once data_ has been resized      *)
(* under the read, perhaps to memory that was freed, and is lost.          *)
Place(l) == HeaderSize + got[l] + 1

Lands(l) ==
  /\ Place(l) <= Len(data)
  /\ data' = [data EXCEPT ![Place(l)] = Head(wire)]

Receive(l) ==
  /\ l \in Running \ stale /\ got[l] < wanted[l] /\ wire # << >>
  /\ \/ /\ reading[l] = "header"
        /\ header' = [header EXCEPT ![got[l] + 1] = Head(wire)] /\ UNCHANGED data
     \/ /\ reading[l] = "payload"
        /\ Lands(l) \/ (l \in moved /\ UNCHANGED data)
        /\ UNCHANGED header
  /\ got' = [got EXCEPT ![l] = @ + 1]
  /\ wire' = Tail(wire)
  /\ UNCHANGED <<sent, up, connection, first, reading, wanted, stale, moved, handled, due>>

(* A header as the sonar sent it; any other may pass for one (looks), and  *)
(* announce any size.                                                      *)
IsHeader == \A k \in 1 .. HeaderSize : header[k] = Word(header[1].msg, k)

Announced == {n \in Sizes : IsHeader => n = sent[header[1].msg]}

(* Mutant: a check that wants a payload too.                               *)
NotEmpty(looks) == (IsHeader /\ sent[header[1].msg] > 0) \/ looks

IsValid(looks) == IsHeader \/ looks

(* update_from_header: resize keeps the words of the message before.       *)
Resized(n) ==
  [k \in 1 .. HeaderSize + n |->
     IF k <= HeaderSize THEN header[k] ELSE IF k <= Len(data) THEN data[k] ELSE Zero]

HeaderReceived(l) ==
  /\ reading[l] = "header" /\ Complete(l)
  /\ \E looks \in BOOLEAN, n \in Announced :
       IF IsValid(looks)
       THEN /\ Read(l, "payload", n) /\ data' = Resized(n)
            /\ moved' = (moved \union {k \in Loops : reading[k] = "payload"}) \ {l}
       ELSE InitiateReceive(l) /\ UNCHANGED <<data, moved>>
  /\ stale' = stale \ {l}
  /\ UNCHANGED <<streamVars, header, handled, due>>

(* Mutant: an incomplete payload goes unnoticed.                           *)
AnyCount(l, n) == TRUE

CountIsRight(l, n) == got[l] = n

(* handle_message, which runs the callbacks, and the next read.            *)
DataReceived(l) ==
  /\ reading[l] = "payload" /\ (Complete(l) \/ Cut(l))
  /\ \E n \in Announced :
       IF CountIsRight(l, n)
       THEN /\ handled' = Append(handled, header[1].msg)
            /\ due' = IF due # 0 THEN header[1].msg + 1 ELSE 0
       ELSE UNCHANGED <<handled, due>>
  /\ InitiateReceive(l)
  /\ stale' = stale \ {l} /\ moved' = moved \ {l}
  /\ UNCHANGED <<streamVars, header, data>>

(* A read that is aborted is started again: from the next socket, if it is *)
(* there, else until the watchdog releases the one that is lost.           *)
HeaderFails(l) ==
  /\ reading[l] = "header" /\ ~Complete(l) /\ Cut(l)
  /\ IF up THEN InitiateReceive(l) ELSE Read(l, "none", HeaderSize)
  /\ stale' = stale \ {l}
  /\ UNCHANGED <<streamVars, moved, header, data, handled, due>>

Handle(l) == Receive(l) \/ HeaderReceived(l) \/ DataReceived(l)

Next ==
  \/ \E size \in Sizes : SonarSends(size)
  \/ Break
  \/ \E l \in Loops : Reconnect(l) \/ Handle(l) \/ HeaderFails(l)

Spec == Init /\ [][Next]_vars

(* The io thread runs and the network delivers.                            *)
FairSpec == Spec /\ \A l \in Loops : WF_vars(Handle(l))

-------------------------------------------------------------------------------
(* What the callbacks are given on a sound connection is one message,      *)
(* whole, with the header it was sent with, and later than all those given *)
(* before on any connection, sound or not, wherever the stream was cut and *)
(* whatever message_ held before (204-250, OculusMessage.h:39-41, 57-61).  *)
HandledWhole ==
  [][ \A n \in 1 .. Len(handled') : n > Len(handled) /\ due # 0 =>
        /\ data = WordsOf(handled'[n])
        /\ header = SubSeq(data, 1, HeaderSize)
        /\ \A i \in 1 .. n - 1 : handled'[i] < handled'[n] ]_vars

(* Some of message m is still to come, or it is being read.                *)
IsAhead(m) ==
  \/ \E k \in 1 .. Len(wire) : wire[k].msg = m
  \/ /\ header[1].msg = m
     /\ \E l \in Running : reading[l] = "payload" \/ got[l] > 0

(* No message is passed over: on a sound connection that holds, each       *)
(* message sent has been handled, is being read or is on its way, so that  *)
(* once the stream is drained all of them have been handled, whatever      *)
(* their sizes and wherever earlier connections left message_ (186-250).   *)
NothingIsSkipped ==
  up => \A m \in first .. Len(sent) : m \in Range(handled) \/ IsAhead(m)

(* A loop that began at the start of a message, alone, stays aligned:      *)
(* every message sent on its connection is handled, unless the connection  *)
(* is lost first (186-250).                                                *)
AlignedDelivers ==
  \A m \in 1 .. MaxSent :
     up /\ m >= first /\ m <= Len(sent) ~> m \in Range(handled) \/ ~up

(* The callbacks see the channel of the abstract specification.            *)
Channel == INSTANCE MessageChannel WITH sent <- Len(sent), delivered <- handled

ImplementsChannel == Channel!Spec
===============================================================================
