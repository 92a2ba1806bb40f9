---------------------------- MODULE ReceptionProofs ----------------------------
(***************************************************************************)
(* Proofs about Reception, for every size of header and of payloads, any   *)
(* number of loops and every way the connections begin and break.          *)
(*                                                                         *)
(* The argument: the words on the wire are consecutive.  On a sound        *)
(* connection there is one loop, and what it has read is the beginning of  *)
(* the message that is due, which the wire continues; so each header it    *)
(* reads is that message's header, and the words read after it are its     *)
(* payload.  What the callbacks are then given is what MessageChannel      *)
(* promises.  Of a connection that is not sound nothing is shown but that  *)
(* the messages it hands over were sent before.                            *)
(***************************************************************************)
EXTENDS Reception, SequenceTheorems, TLAPS

(* s gives the payload sizes of the messages that were sent.               *)
IsWord(s, w) == w.msg \in 1 .. Len(s) /\ w.pos \in 1 .. HeaderSize + s[w.msg]

(* The last word that was sent. *)
IsEnd(s, w) == w.msg = Len(s) /\ w.pos = HeaderSize + s[w.msg]

(* The sonar sends w right after v. *)
Follows(s, v, w) ==
  w = IF v.pos < HeaderSize + s[v.msg] THEN Word(v.msg, v.pos + 1)
                                       ELSE Word(v.msg + 1, 1)

(* q, which is on the wire, continues after the first p words of message m. *)
Joined(s, open, q, m, p) ==
  IF p = 0
  THEN IF q = << >> THEN open => m = Len(s) + 1 ELSE q[1] = Word(m, 1)
  ELSE /\ IsWord(s, Word(m, p))
       /\ IF q = << >> THEN open => IsEnd(s, Word(m, p)) ELSE Follows(s, Word(m, p), q[1])

WireInv ==
  /\ \A k \in 1 .. Len(wire) : IsWord(sent, wire[k])
  /\ \A k \in 1 .. Len(wire) - 1 : Follows(sent, wire[k], wire[k + 1])
  /\ up /\ wire # << >> => IsEnd(sent, wire[Len(wire)])

(* What is handled was sent, on any connection.                            *)
SentInv ==
  /\ \A i \in 1 .. Len(handled) : handled[i] <= Len(sent)
  /\ \A l \in Running : reading[l] = "payload" \/ got[l] > 0 => header[1].msg \in 1 .. Len(sent)

(* How much of its message a loop has read. *)
Position(l) == IF reading[l] = "payload" THEN HeaderSize + got[l] ELSE got[l]

LoopInv(l) ==
  /\ l \notin stale
  /\ Joined(sent, up, wire, due, Position(l))
  /\ \A k \in 1 .. HeaderSize : k <= Position(l) => header[k] = Word(due, k)
  /\ reading[l] = "payload" =>
       /\ l \notin moved /\ wanted[l] = sent[due]
       /\ Len(data) = HeaderSize + sent[due]
       /\ \A k \in 1 .. HeaderSize + got[l] : data[k] = Word(due, k)

SoundInv ==
  due # 0 =>
    /\ due \in 1 .. Len(sent) + 1
    /\ \A i \in 1 .. Len(handled) : handled[i] < due
    /\ \A k, l \in Running : k = l
    /\ \A l \in Running : LoopInv(l)

FirstInv == first <= MaxSent => due # 0

StreamInv == TypeOK /\ WireInv /\ SentInv /\ SoundInv /\ FirstInv

-------------------------------------------------------------------------------
(* What is known of the state, in the form the steps use it. *)
LEMMA Basics ==
  ASSUME StreamInv
  PROVE  /\ HeaderSize \in Nat /\ HeaderSize >= 1
         /\ sent \in Seq(Sizes) /\ Len(sent) \in Nat /\ Len(sent) <= MaxSent /\ MaxSent \in Nat
         /\ \A m \in 1 .. Len(sent) : sent[m] \in Nat /\ sent[m] \in Sizes
         /\ Len(wire) \in Nat /\ wire \in Seq(Words)
         /\ wire # << >> => Len(wire) >= 1 /\ IsWord(sent, wire[1])
         /\ \A l \in Loops : got[l] \in Nat /\ wanted[l] \in Nat /\ got[l] <= wanted[l]
         /\ handled \in Seq(0 .. MaxSent) /\ Len(handled) \in Nat
         /\ \A i \in 1 .. Len(handled) : handled[i] \in Nat
<1>1. HeaderSize \in Nat /\ HeaderSize >= 1 /\ MaxSent \in Nat
  BY HeaderAssumption, BoundsAssumption
<1>2. /\ sent \in Seq(Sizes) /\ Len(sent) \in Nat /\ Len(sent) <= MaxSent
      /\ wire \in Seq(Words) /\ Len(wire) \in Nat
      /\ handled \in Seq(0 .. MaxSent) /\ Len(handled) \in Nat
  BY DEF StreamInv, TypeOK
<1>3. \A m \in 1 .. Len(sent) : sent[m] \in Nat /\ sent[m] \in Sizes
  <2>1. ASSUME NEW m \in 1 .. Len(sent)  PROVE sent[m] \in Sizes
    BY <1>2
  <2> QED  BY <2>1, SizesAssumption
<1>4. wire # << >> => Len(wire) >= 1 /\ IsWord(sent, wire[1])
  BY <1>2 DEF StreamInv, WireInv
<1>5. \A l \in Loops : got[l] \in Nat /\ wanted[l] \in Nat /\ got[l] <= wanted[l]
  BY DEF StreamInv, TypeOK
<1>6. \A i \in 1 .. Len(handled) : handled[i] \in Nat
  BY <1>1, <1>2
<1> QED  BY <1>1, <1>2, <1>3, <1>4, <1>5, <1>6

(* Messages that are sent later change nothing about those sent before.    *)
LEMMA Growth ==
  ASSUME StreamInv, NEW size \in Sizes, sent' = Append(sent, size), Len(sent) < MaxSent
  PROVE  /\ size \in Nat
         /\ sent' \in Seq(Sizes) /\ Len(sent') = Len(sent) + 1 /\ Len(sent') <= MaxSent
         /\ sent'[Len(sent) + 1] = size
         /\ \A m \in 1 .. Len(sent) : sent'[m] = sent[m]
         /\ \A w : IsWord(sent, w) => IsWord(sent', w)
         /\ \A v, w : IsWord(sent, v) /\ Follows(sent, v, w) => Follows(sent', v, w)
         /\ \A v, w : /\ IsWord(sent, v) /\ IsEnd(sent, v)
                    /\ w = Word(Len(sent) + 1, 1) => Follows(sent', v, w)
<1> USE Basics
<1>1. size \in Nat
  BY SizesAssumption
<1>2. /\ sent' \in Seq(Sizes) /\ Len(sent') = Len(sent) + 1 /\ Len(sent') <= MaxSent
      /\ sent'[Len(sent) + 1] = size
      /\ \A m \in 1 .. Len(sent) : sent'[m] = sent[m]
  BY BoundsAssumption
<1>3. ASSUME NEW w, IsWord(sent, w)  PROVE IsWord(sent', w)
  BY <1>2, <1>3 DEF IsWord
<1>4. ASSUME NEW v, NEW w, IsWord(sent, v), Follows(sent, v, w)  PROVE Follows(sent', v, w)
  BY <1>2, <1>4 DEF IsWord, Follows
<1>5. ASSUME NEW v, NEW w, IsWord(sent, v), IsEnd(sent, v), w = Word(Len(sent) + 1, 1)
      PROVE  Follows(sent', v, w)
  <2>1. v.msg = Len(sent) /\ v.msg \in 1 .. Len(sent)
    BY <1>5 DEF IsWord, IsEnd
  <2>2. sent'[v.msg] = sent[v.msg] /\ sent[v.msg] \in Nat
    BY <1>2, <2>1
  <2>3. v.pos = HeaderSize + sent[v.msg]
    BY <1>5, <2>1 DEF IsEnd
  <2>4. ~(v.pos < HeaderSize + sent'[v.msg])
    BY <2>2, <2>3
  <2>5. w = Word(v.msg + 1, 1)
    BY <1>5, <2>1
  <2> QED  BY <2>4, <2>5 DEF Follows
<1> QED  BY <1>1, <1>2, <1>3, <1>4, <1>5

(* The word after the first p of message m, and the one after its last.    *)
LEMMA NextWord ==
  ASSUME StreamInv, NEW m \in Nat, NEW p \in Nat, Joined(sent, up, wire, m, p), wire # << >>
  PROVE  /\ p = 0 \/ p < HeaderSize + sent[m] => wire[1] = Word(m, p + 1)
         /\ p # 0 => /\ m \in 1 .. Len(sent) /\ p <= HeaderSize + sent[m]
                     /\ p = HeaderSize + sent[m] => wire[1] = Word(m + 1, 1)
<1>1. CASE p = 0
  BY <1>1 DEF Joined
<1>2. CASE p # 0
  <2>1. IsWord(sent, Word(m, p)) /\ Follows(sent, Word(m, p), wire[1])
    BY <1>2 DEF Joined
  <2>2. Word(m, p).msg = m /\ Word(m, p).pos = p
    BY DEF Word
  <2>3. m \in 1 .. Len(sent) /\ p \in 1 .. HeaderSize + sent[m]
    BY <2>1, <2>2 DEF IsWord
  <2>4. sent[m] \in Nat /\ HeaderSize \in Nat
    BY <2>3, Basics
  <2> QED  BY <1>2, <2>1, <2>2, <2>3, <2>4 DEF Follows
<1> QED  BY <1>1, <1>2

LEMMA FunctionIsSeq ==
  ASSUME NEW S, NEW n \in Nat, NEW f \in [1 .. n -> S]
  PROVE  f \in Seq(S) /\ Len(f) = n
OBVIOUS

(* A sequence after another. *)
LEMMA Joining ==
  ASSUME NEW S, NEW q \in Seq(S), NEW n \in Nat, NEW r \in [1 .. n -> S]
  PROVE  /\ q \o r \in Seq(S) /\ Len(q \o r) = Len(q) + n
         /\ \A k \in 1 .. Len(q) : (q \o r)[k] = q[k]
         /\ \A k \in 1 .. n : (q \o r)[Len(q) + k] = r[k]
<1>1. r \in Seq(S) /\ Len(r) = n
  BY FunctionIsSeq
<1>2. /\ q \o r \in Seq(S) /\ Len(q \o r) = Len(q) + n
      /\ \A i \in 1 .. Len(q) + n : (q \o r)[i] = IF i <= Len(q) THEN q[i] ELSE r[i - Len(q)]
  BY <1>1, ConcatProperties
<1>3. Len(q) \in Nat
  OBVIOUS
<1>4. ASSUME NEW k \in 1 .. n  PROVE (q \o r)[Len(q) + k] = r[k]
  <2>1. Len(q) + k \in 1 .. Len(q) + n /\ ~ (Len(q) + k <= Len(q)) /\ (Len(q) + k) - Len(q) = k
    BY <1>3
  <2> QED  BY <1>2, <2>1
<1>5. ASSUME NEW k \in 1 .. Len(q)  PROVE (q \o r)[k] = q[k]
  BY <1>2, <1>3
<1> QED  BY <1>1, <1>2, <1>4, <1>5

(* On a sound connection a loop that runs is the only one.                  *)
LEMMA Alone ==
  ASSUME StreamInv, due # 0, NEW l \in Running
  PROVE  Running = {l} /\ LoopInv(l) /\ l \in Loops
BY DEF StreamInv, SoundInv, Running

(* It stays so through what that loop does. *)
LEMMA StaysAlone ==
  ASSUME StreamInv, due # 0, NEW l \in Running, NEW what,
         reading' = [reading EXCEPT ![l] = what]
  PROVE  Running' \subseteq {l}
BY Alone DEF Running, StreamInv, TypeOK

-------------------------------------------------------------------------------
(* The steps. *)

LEMMA StartInv ==
  ASSUME Init
  PROVE  StreamInv
<1>1. TypeOK
  BY HeaderAssumption, BoundsAssumption DEF Init, TypeOK, Zero, Words
<1>2. WireInv /\ FirstInv
  BY DEF Init, WireInv, FirstInv
<1>3. \A l \in Loops : got[l] = 0 /\ reading[l] # "payload" /\ l \notin stale
  BY DEF Init
<1>4. SentInv
  BY <1>3 DEF Init, SentInv, Running
<1>5. SoundInv
  <2>1. \A k, l \in Running : k = l
    BY DEF Init, Running
  <2>2. ASSUME NEW l \in Running  PROVE LoopInv(l)
    <3>1. Position(l) = 0 /\ reading[l] # "payload" /\ l \notin stale
      BY <1>3 DEF Running, Position
    <3> QED  BY <3>1, HeaderAssumption DEF Init, LoopInv, Joined
  <2> QED  BY <2>1, <2>2 DEF Init, SoundInv
<1> QED  BY <1>1, <1>2, <1>4, <1>5 DEF StreamInv

(* What a message that is sent does to the wire. *)
LEMMA WireGrows ==
  ASSUME StreamInv, NEW size \in Sizes, SonarSends(size)
  PROVE  LET n == Len(sent) + 1
             total == HeaderSize + size
         IN  /\ up /\ Len(sent') = n /\ n \in Nat /\ n <= MaxSent
             /\ total \in Nat /\ total >= 1 /\ total = HeaderSize + sent'[n]
             /\ wire' \in Seq(Words) /\ Len(wire') = Len(wire) + total
             /\ \A k \in 1 .. Len(wire) : wire'[k] = wire[k]
             /\ \A k \in 1 .. total : wire'[Len(wire) + k] = Word(n, k)
             /\ wire' # << >>
             /\ wire = << >> => wire'[1] = Word(n, 1)
             /\ wire # << >> => wire'[1] = wire[1]
<1> USE Basics
<1> DEFINE n == Len(sent) + 1
           total == HeaderSize + size
           new == [k \in 1 .. total |-> Word(n, k)]
<1>1. up /\ Len(sent) < MaxSent /\ sent' = Append(sent, size) /\ wire' = wire \o new
  BY DEF SonarSends
<1>2. total \in Nat /\ total >= 1 /\ n \in Nat /\ n <= MaxSent
  BY <1>1, SizesAssumption
<1>3. new \in [1 .. total -> Words] /\ \A k \in 1 .. total : new[k] = Word(n, k)
  BY <1>2 DEF Word, Words
<1>4. Len(sent') = n /\ total = HeaderSize + sent'[n]
  BY <1>1, Growth
<1> HIDE DEF new, n, total
<1>5. /\ wire' \in Seq(Words) /\ Len(wire') = Len(wire) + total
      /\ \A k \in 1 .. Len(wire) : wire'[k] = wire[k]
      /\ \A k \in 1 .. total : wire'[Len(wire) + k] = Word(n, k)
  <2>1. wire \in Seq(Words) /\ total \in Nat
    BY <1>2
  <2>2. wire' = wire \o new
    BY <1>1
  <2> QED  BY <1>3, <2>1, <2>2, Joining
<1>6. /\ wire' # << >>
      /\ wire = << >> => wire'[1] = Word(n, 1)
      /\ wire # << >> => wire'[1] = wire[1]
  BY <1>2, <1>5
<1> QED  BY <1>1, <1>2, <1>4, <1>5, <1>6 DEF n, total

(* What was read stays joined to the wire when a message is sent.          *)
LEMMA JoinedGrows ==
  ASSUME StreamInv, NEW size \in Sizes, SonarSends(size), NEW m \in Nat, NEW p \in Nat,
         Joined(sent, up, wire, m, p)
  PROVE  Joined(sent', up', wire', m, p)
<1> DEFINE n == Len(sent) + 1
<1>1. /\ up /\ wire' # << >>
      /\ wire = << >> => wire'[1] = Word(n, 1)
      /\ wire # << >> => wire'[1] = wire[1]
  BY WireGrows
<1>2. /\ \A w : IsWord(sent, w) => IsWord(sent', w)
      /\ \A v, w : IsWord(sent, v) /\ Follows(sent, v, w) => Follows(sent', v, w)
      /\ \A v, w : IsWord(sent, v) /\ IsEnd(sent, v) /\ w = Word(n, 1) => Follows(sent', v, w)
  BY Growth DEF SonarSends
<1> HIDE DEF n
<1>3. CASE p = 0
  BY <1>1, <1>3 DEF Joined, n
<1>4. CASE p # 0
  BY <1>1, <1>2, <1>4 DEF Joined
<1> QED  BY <1>3, <1>4

LEMMA SendsWire ==
  ASSUME StreamInv, NEW size \in Sizes, SonarSends(size)
  PROVE  WireInv'
<1> USE Basics
<1> DEFINE n == Len(sent) + 1
           total == HeaderSize + size
<1>1. /\ up /\ Len(sent') = n /\ n \in Nat
      /\ total \in Nat /\ total >= 1 /\ total = HeaderSize + sent'[n]
      /\ Len(wire') = Len(wire) + total
      /\ \A k \in 1 .. Len(wire) : wire'[k] = wire[k]
      /\ \A k \in 1 .. total : wire'[Len(wire) + k] = Word(n, k)
      /\ n >= 1
  BY WireGrows
<1>2. /\ \A w : IsWord(sent, w) => IsWord(sent', w)
      /\ \A v, w : IsWord(sent, v) /\ Follows(sent, v, w) => Follows(sent', v, w)
      /\ \A v, w : IsWord(sent, v) /\ IsEnd(sent, v) /\ w = Word(n, 1) => Follows(sent', v, w)
  BY Growth DEF SonarSends
<1> HIDE DEF n, total
<1>3. ASSUME NEW k \in 1 .. Len(wire')  PROVE IsWord(sent', wire'[k])
  <2>1. CASE k <= Len(wire)
    BY <1>1, <1>2, <2>1 DEF StreamInv, WireInv
  <2>2. CASE k > Len(wire)
    <3>1. k - Len(wire) \in 1 .. total /\ k = Len(wire) + (k - Len(wire))
      BY <1>1, <2>2
    <3>2. wire'[k] = Word(n, k - Len(wire))
      BY <1>1, <3>1
    <3> QED  BY <1>1, <3>1, <3>2 DEF IsWord, Word
  <2> QED  BY <2>1, <2>2
<1>4. ASSUME NEW k \in 1 .. Len(wire') - 1  PROVE Follows(sent', wire'[k], wire'[k + 1])
  <2>1. CASE k < Len(wire)
    <3>1. k \in 1 .. Len(wire) - 1 /\ k \in 1 .. Len(wire) /\ k + 1 \in 1 .. Len(wire)
      BY <2>1
    <3>2. wire'[k] = wire[k] /\ wire'[k + 1] = wire[k + 1]
      BY <1>1, <3>1
    <3>3. IsWord(sent, wire[k]) /\ Follows(sent, wire[k], wire[k + 1])
      BY <3>1 DEF StreamInv, WireInv
    <3> QED  BY <1>2, <3>2, <3>3
  <2>2. CASE k = Len(wire)
    <3>1. wire'[k] = wire[k] /\ wire'[k + 1] = Word(n, 1) /\ IsWord(sent, wire[k]) /\ IsEnd(sent, wire[k])
      BY <1>1, <2>2 DEF StreamInv, WireInv
    <3> QED  BY <1>2, <3>1
  <2>3. CASE k > Len(wire)
    <3> DEFINE j == k - Len(wire)
    <3>1. j \in 1 .. total - 1 /\ k = Len(wire) + j /\ k + 1 = Len(wire) + (j + 1)
          /\ j + 1 \in 1 .. total
      <4>1. k \in Int /\ Len(wire) \in Int /\ total \in Int /\ k <= Len(wire) + total - 1
        BY <1>1
      <4> QED  BY <2>3, <4>1
    <3> HIDE DEF j
    <3>2. wire'[Len(wire) + j] = Word(n, j) /\ wire'[Len(wire) + (j + 1)] = Word(n, j + 1)
      <4>1. j \in 1 .. total
        BY <1>1, <3>1
      <4> QED  BY <1>1, <3>1, <4>1
    <3>3. j < HeaderSize + sent'[n]
      BY <1>1, <3>1
    <3>4. Follows(sent', Word(n, j), Word(n, j + 1))
      BY <3>3 DEF Follows, Word
    <3>5. wire'[k] = Word(n, j) /\ wire'[k + 1] = Word(n, j + 1)
      BY <3>1, <3>2
    <3> QED  BY <3>4, <3>5
  <2> QED  BY <1>1, <2>1, <2>2, <2>3
<1>5. IsEnd(sent', wire'[Len(wire')])
  <2>1. wire'[Len(wire')] = Word(n, total)
    BY <1>1
  <2> QED  BY <1>1, <2>1 DEF IsEnd, Word
<1> QED  BY <1>3, <1>4, <1>5 DEF WireInv

LEMMA SendsStep ==
  ASSUME StreamInv, NEW size \in Sizes, SonarSends(size)
  PROVE  StreamInv'
<1> USE Basics
<1>1. UNCHANGED <<up, connection, first, reading, wanted, got, stale, moved, header, data, handled, due>>
  BY DEF SonarSends, clientVars, loopVars
<1>2. Running' = Running /\ \A l \in Loops : Position(l)' = Position(l)
  BY <1>1 DEF Running, Position
<1>3. /\ sent' \in Seq(Sizes) /\ Len(sent') = Len(sent) + 1 /\ Len(sent') <= MaxSent
      /\ \A m \in 1 .. Len(sent) : sent'[m] = sent[m]
  BY Growth DEF SonarSends
<1>4. TypeOK'
  <2>1. wire' \in Seq(Words)
    BY WireGrows
  <2> QED  BY <1>1, <1>3, <2>1 DEF StreamInv, TypeOK
<1>5. SentInv'
  BY <1>1, <1>2, <1>3 DEF StreamInv, SentInv
<1>6. SoundInv'
  <2> SUFFICES ASSUME due # 0  PROVE SoundInv'
    BY <1>1 DEF SoundInv
  <2>1. due \in 1 .. Len(sent') + 1 /\ due \in Nat
    BY <1>3 DEF StreamInv, SoundInv
  <2>2. ASSUME NEW l \in Running  PROVE LoopInv(l)'
    <3>1. LoopInv(l) /\ l \in Loops /\ Position(l) \in Nat
      BY <2>2, Alone DEF Position
    <3>2. Joined(sent', up', wire', due, Position(l))
      BY <2>1, <3>1, JoinedGrows DEF LoopInv
    <3>3. reading[l] = "payload" => due \in 1 .. Len(sent)
      <4>1. reading[l] = "payload" => Position(l) # 0
        BY <3>1 DEF Position
      <4> QED  BY <3>1, <4>1 DEF LoopInv, Joined, IsWord, Word
    <3> QED  BY <1>1, <1>2, <1>3, <3>1, <3>2, <3>3 DEF LoopInv
  <2> QED  BY <1>1, <1>2, <2>1, <2>2 DEF StreamInv, SoundInv
<1>7. FirstInv'
  BY <1>1 DEF StreamInv, FirstInv
<1> QED  BY <1>4, <1>5, <1>6, <1>7, SendsWire DEF StreamInv

(* What a lost connection leaves on the wire. *)
LEMMA WireIsCut ==
  ASSUME StreamInv, Break
  PROVE  /\ up /\ up' = FALSE
         /\ UNCHANGED <<sent, connection, first, reading, wanted, got, stale, moved,
                        header, data, handled, due>>
         /\ wire' \in Seq(Words) /\ Len(wire') <= Len(wire)
         /\ \A k \in 1 .. Len(wire') : wire'[k] = wire[k]
         /\ wire' # << >> => wire # << >> /\ wire'[1] = wire[1]
<1> USE Basics
<1>1. /\ up /\ up' = FALSE
      /\ UNCHANGED <<sent, connection, first, reading, wanted, got, stale, moved,
                     header, data, handled, due>>
  BY DEF Break, clientVars, loopVars
<1>2. PICK n \in 0 .. Len(wire) : wire' = SubSeq(wire, 1, n)
  BY DEF Break
<1>3. wire' \in Seq(Words) /\ Len(wire') = n /\ \A k \in 1 .. n : wire'[k] = wire[k]
  <2>1. wire \in Seq(Words) /\ Len(wire) \in Nat /\ n <= Len(wire)
    OBVIOUS
  <2>2. \A i \in 1 .. n : wire[i] \in Words
    BY <2>1
  <2> QED  BY <1>2, <2>1, <2>2, SubSeqProperties
<1> QED  BY <1>1, <1>2, <1>3

LEMMA BreakStep ==
  ASSUME StreamInv, Break
  PROVE  StreamInv'
<1> USE Basics
<1>1. /\ up' = FALSE
      /\ UNCHANGED <<sent, connection, first, reading, wanted, got, stale, moved,
                     header, data, handled, due>>
      /\ wire' # << >> => wire # << >> /\ wire'[1] = wire[1]
  BY WireIsCut
<1>2. TypeOK'
  <2>1. wire' \in Seq(Words)
    BY WireIsCut
  <2> QED  BY <1>1, <2>1 DEF StreamInv, TypeOK
<1>3. WireInv'
  <2>1. /\ Len(wire') \in Nat /\ Len(wire') <= Len(wire)
        /\ \A k \in 1 .. Len(wire') : wire'[k] = wire[k]
    BY WireIsCut
  <2>2. ASSUME NEW k \in 1 .. Len(wire')  PROVE IsWord(sent', wire'[k])
    BY <1>1, <2>1 DEF StreamInv, WireInv
  <2>3. ASSUME NEW k \in 1 .. Len(wire') - 1  PROVE Follows(sent', wire'[k], wire'[k + 1])
    <3>1. /\ k \in 1 .. Len(wire') /\ k + 1 \in 1 .. Len(wire')
          /\ k \in 1 .. Len(wire) - 1
      BY <2>1
    <3>2. Follows(sent, wire[k], wire[k + 1])
      BY <3>1 DEF StreamInv, WireInv
    <3> QED  BY <1>1, <2>1, <3>1, <3>2
  <2> QED  BY <1>1, <2>2, <2>3 DEF WireInv
<1>4. Running' = Running /\ \A l \in Loops : Position(l)' = Position(l)
  BY <1>1 DEF Running, Position
<1>5. SentInv' /\ FirstInv'
  BY <1>1, <1>4 DEF StreamInv, SentInv, FirstInv
<1>6. SoundInv'
  <2> SUFFICES ASSUME due # 0  PROVE SoundInv'
    BY <1>1 DEF SoundInv
  <2>1. ASSUME NEW l \in Running  PROVE LoopInv(l)'
    <3>1. LoopInv(l) /\ l \in Loops
      BY <2>1, Alone
    <3>2. Joined(sent', up', wire', due, Position(l))
      BY <1>1, <3>1 DEF LoopInv, Joined
    <3> QED  BY <1>1, <1>4, <3>1, <3>2 DEF LoopInv
  <2> QED  BY <1>1, <1>4, <2>1 DEF StreamInv, SoundInv
<1> QED  BY <1>2, <1>3, <1>5, <1>6 DEF StreamInv

(* What the start of a read leaves of the loops. *)
LEMMA ReadType ==
  ASSUME StreamInv, NEW l \in Loops, NEW what \in {"header", "payload", "none"}, NEW size \in Nat,
         Read(l, what, size), what = "header" => size = HeaderSize
  PROVE  /\ reading' \in [Loops -> {"header", "payload", "none"}]
         /\ wanted' \in [Loops -> Nat] /\ got' \in [Loops -> Nat]
         /\ \A k \in Loops : /\ got'[k] <= wanted'[k]
                             /\ reading'[k] = "header" => wanted'[k] = HeaderSize
         /\ reading'[l] = what /\ wanted'[l] = size /\ got'[l] = 0
         /\ \A k \in Loops \ {l} : reading'[k] = reading[k] /\ got'[k] = got[k]
BY DEF StreamInv, TypeOK, Read

(* A connection that begins within a message. *)
LEMMA JoinsWithin ==
  ASSUME StreamInv, NEW size \in Sizes, NEW n \in Offsets,
         Len(sent) < MaxSent, n \in 1 .. HeaderSize + size - 1, sent' = Append(sent, size),
         wire' = [k \in 1 .. HeaderSize + size - n |-> Word(Len(sent) + 1, k + n)]
  PROVE  wire' \in Seq(Words) /\ WireInv'
<1> USE Basics
<1> DEFINE last == Len(sent) + 1
           total == HeaderSize + size - n
<1>1. size \in Nat /\ n \in Nat /\ total \in Nat /\ total >= 1 /\ last \in 1 .. MaxSent
  <2>1. size \in Nat /\ n \in Nat
    BY SizesAssumption
  <2>2. n <= HeaderSize + size - 1
    BY <2>1
  <2>3. total \in Nat /\ total >= 1
    BY <2>1, <2>2
  <2>4. last \in 1 .. MaxSent
    <3>1. Len(sent) \in Nat
      BY DEF StreamInv, TypeOK
    <3> QED  BY <3>1
  <2> HIDE DEF total, last
  <2> QED  BY <2>1, <2>3, <2>4
<1>2. total + n = HeaderSize + size /\ wire' = [k \in 1 .. total |-> Word(last, k + n)]
  BY <1>1
<1> HIDE DEF total
<1>3. wire' \in [1 .. total -> Words] /\ \A k \in 1 .. total : wire'[k] = Word(last, k + n)
  <2>1. \A k \in 1 .. total : k + n \in Nat
    BY <1>1
  <2>2. \A k \in 1 .. total : Word(last, k + n) \in Words
    BY <1>1, <2>1 DEF Word, Words
  <2> QED  BY <1>2, <2>2
<1>4. wire' \in Seq(Words) /\ Len(wire') = total
  BY <1>1, <1>3, FunctionIsSeq
<1>5. Len(sent') = last /\ sent'[last] = size
  BY Growth
<1>6. ASSUME NEW k \in 1 .. Len(wire')  PROVE IsWord(sent', wire'[k])
  <2>1. k \in 1 .. total /\ k + n \in 1 .. HeaderSize + sent'[last]
    <3>1. k \in 1 .. total /\ k \in Nat
      BY <1>1, <1>4
    <3>2. k + n \in Nat /\ 1 <= k + n /\ k + n <= total + n
      BY <1>1, <3>1
    <3> QED  BY <1>1, <1>2, <1>5, <3>1, <3>2
  <2>2. wire'[k] = Word(last, k + n)
    BY <1>3, <2>1
  <2>3. last \in 1 .. Len(sent')
    BY <1>1, <1>5
  <2> QED  BY <2>1, <2>2, <2>3 DEF IsWord, Word
<1>7. ASSUME NEW k \in 1 .. Len(wire') - 1  PROVE Follows(sent', wire'[k], wire'[k + 1])
  <2>1. k \in 1 .. total /\ k + 1 \in 1 .. total /\ (k + 1) + n = (k + n) + 1
    <3>1. k \in 1 .. total - 1
      BY <1>4
    <3> QED  BY <1>1, <3>1
  <2>2. wire'[k] = Word(last, k + n) /\ wire'[k + 1] = Word(last, (k + n) + 1)
    BY <1>3, <2>1
  <2>3. k + n < HeaderSize + size
    <3>1. k <= total - 1
      BY <1>1, <1>4
    <3> QED  BY <1>1, <1>2, <3>1
  <2>4. Follows(sent', Word(last, k + n), Word(last, (k + n) + 1))
    BY <1>5, <2>3 DEF Follows, Word
  <2> QED  BY <2>2, <2>4
<1>8. IsEnd(sent', wire'[Len(wire')])
  <2>1. total \in 1 .. total
    BY <1>1
  <2>2. wire'[Len(wire')] = Word(last, total + n)
    BY <1>3, <1>4, <2>1
  <2>3. sent'[last] = size /\ Len(sent') = last /\ total + n = HeaderSize + size
    BY <1>2, <1>5
  <2> HIDE DEF last
  <2>4. Word(last, total + n).msg = last /\ Word(last, total + n).pos = total + n
    BY DEF Word
  <2> QED  BY <2>2, <2>3, <2>4 DEF IsEnd
<1> QED  BY <1>4, <1>6, <1>7, <1>8 DEF WireInv

(* A connection that is sound has one loop, which has read nothing; of one *)
(* that is not only types are claimed.                                     *)
LEMMA ReconnectStep ==
  ASSUME StreamInv, NEW l \in Loops, Reconnect(l)
  PROVE  StreamInv'
<1> USE Basics
<1>1. /\ up' = TRUE /\ connection < MaxConnections /\ connection' = connection + 1
      /\ l \notin Running /\ stale' = Running /\ Read(l, "header", HeaderSize)
      /\ UNCHANGED <<moved, header, data, handled>>
  BY DEF Reconnect, InitiateReceive
<1>2. /\ connection' \in 1 .. MaxConnections /\ stale' \subseteq Loops
      /\ reading' \in [Loops -> {"header", "payload", "none"}]
      /\ wanted' \in [Loops -> Nat] /\ got' \in [Loops -> Nat]
      /\ \A k \in Loops : /\ got'[k] <= wanted'[k]
                          /\ reading'[k] = "header" => wanted'[k] = HeaderSize
  BY <1>1, ReadType, BoundsAssumption DEF StreamInv, TypeOK, Running
<1>3. /\ reading'[l] = "header" /\ got'[l] = 0
      /\ \A k \in Loops \ {l} : reading'[k] = reading[k] /\ got'[k] = got[k]
  BY <1>1, ReadType
<1>4. Running' = Running \union {l}
  BY <1>3 DEF Running
<1>5. ASSUME sent' \in Seq(Sizes), Len(sent') <= MaxSent, wire' \in Seq(Words),
              first' \in 1 .. MaxSent + 1, due' \in 0 .. MaxSent + 1
       PROVE  TypeOK'
  <2>1. /\ moved' \subseteq Loops /\ header' \in [1 .. HeaderSize -> Words]
        /\ data' \in Seq(Words) /\ handled' \in Seq(0 .. MaxSent) /\ up' \in BOOLEAN
    BY <1>1 DEF StreamInv, TypeOK
  <2> QED  BY <1>2, <1>5, <2>1 DEF TypeOK
<1>6. ASSUME Len(sent') \in Nat, Len(sent') >= Len(sent)  PROVE SentInv'
  <2>1. \A i \in 1 .. Len(handled') : handled'[i] <= Len(sent')
    BY <1>1, <1>6 DEF StreamInv, SentInv
  <2>2. ASSUME NEW k \in Running', reading'[k] = "payload" \/ got'[k] > 0
        PROVE  header'[1].msg \in 1 .. Len(sent')
    <3>1. k \in Running /\ k # l /\ (reading[k] = "payload" \/ got[k] > 0)
      BY <1>3, <1>4, <2>2 DEF Running
    <3>2. header[1].msg \in 1 .. Len(sent)
      BY <3>1 DEF StreamInv, SentInv
    <3> QED  BY <1>1, <1>6, <3>2
  <2> QED  BY <2>1, <2>2 DEF SentInv
<1>7. CASE wire' = << >> /\ sent' = sent
             /\ IF Running = {} THEN first' = Len(sent) + 1 /\ due' = Len(sent) + 1
                                ELSE first' = MaxSent + 1 /\ due' = 0
  <2>1. first' \in 1 .. MaxSent + 1 /\ due' \in 0 .. MaxSent + 1 /\ FirstInv'
    BY <1>7 DEF FirstInv
  <2>2. TypeOK'
    <3>1. sent' \in Seq(Sizes) /\ Len(sent') <= MaxSent /\ wire' \in Seq(Words)
      BY <1>7
    <3> QED  BY <1>5, <2>1, <3>1
  <2>3. WireInv' /\ SentInv'
    BY <1>6, <1>7 DEF WireInv
  <2>4. SoundInv'
    <3> SUFFICES ASSUME Running = {}  PROVE SoundInv'
      BY <1>7 DEF SoundInv
    <3>1. due' = Len(sent') + 1 /\ Running' = {l} /\ stale' = {}
      BY <1>1, <1>4, <1>7
    <3>2. Position(l)' = 0
      BY <1>3 DEF Position
    <3>3. LoopInv(l)'
      BY <1>3, <1>7, <3>1, <3>2 DEF LoopInv, Joined
    <3>4. \A i \in 1 .. Len(handled') : handled'[i] < due'
      BY <1>1, <1>7, <3>1 DEF StreamInv, SentInv
    <3> QED  BY <1>7, <3>1, <3>3, <3>4 DEF SoundInv
  <2> QED  BY <2>1, <2>2, <2>3, <2>4 DEF StreamInv
<1>8. ASSUME NEW size \in Sizes, NEW n \in Offsets,
             Len(sent) < MaxSent, n \in 1 .. HeaderSize + size - 1, sent' = Append(sent, size),
             wire' = [k \in 1 .. HeaderSize + size - n |-> Word(Len(sent) + 1, k + n)],
             first' = MaxSent + 1, due' = 0
      PROVE  StreamInv'
  <2>1. sent' \in Seq(Sizes) /\ Len(sent') = Len(sent) + 1 /\ Len(sent') <= MaxSent
    BY <1>8, Growth
  <2>2. wire' \in Seq(Words) /\ WireInv'
    BY <1>8, JoinsWithin
  <2>3. TypeOK'
    <3>1. first' \in 1 .. MaxSent + 1 /\ due' \in 0 .. MaxSent + 1
      BY <1>8
    <3> QED  BY <1>5, <2>1, <2>2, <3>1
  <2>4. SentInv'
    BY <1>6, <2>1
  <2>5. SoundInv' /\ FirstInv'
    BY <1>8 DEF SoundInv, FirstInv
  <2> QED  BY <2>2, <2>3, <2>4, <2>5 DEF StreamInv
<1> QED  BY <1>7, <1>8 DEF Reconnect

(* What the arrival of a word does to the wire and the first word read.    *)
LEMMA WordArrives ==
  ASSUME StreamInv, NEW l \in Loops, Receive(l)
  PROVE  /\ l \in Running /\ l \notin stale /\ wire # << >> /\ got[l] < wanted[l]
         /\ reading[l] \in {"header", "payload"}
         /\ got' = [got EXCEPT ![l] = got[l] + 1] /\ got'[l] = got[l] + 1
         /\ UNCHANGED <<sent, up, connection, first, reading, wanted, stale, moved, handled, due>>
         /\ wire' \in Seq(Words) /\ Len(wire') = Len(wire) - 1
         /\ wire[1] \in Words /\ Head(wire) = wire[1]
         /\ \A k \in 1 .. Len(wire') : wire'[k] = wire[k + 1]
         /\ reading[l] = "header" => /\ got[l] + 1 \in 1 .. HeaderSize
                                     /\ header' = [header EXCEPT ![got[l] + 1] = wire[1]]
         /\ reading[l] = "payload" \/ got[l] > 0 => header'[1] = header[1]
         /\ reading[l] = "header" /\ got[l] = 0 => header'[1] = wire[1]
<1> USE Basics
<1>1. /\ l \in Running /\ l \notin stale /\ wire # << >> /\ got[l] < wanted[l]
      /\ got' = [got EXCEPT ![l] = got[l] + 1]
      /\ UNCHANGED <<sent, up, connection, first, reading, wanted, stale, moved, handled, due>>
  BY DEF Receive
<1>2. reading[l] \in {"header", "payload"} /\ got'[l] = got[l] + 1
  BY <1>1 DEF Running, StreamInv, TypeOK
<1>3. /\ wire' \in Seq(Words) /\ Len(wire') = Len(wire) - 1
      /\ wire[1] \in Words /\ Head(wire) = wire[1]
      /\ \A k \in 1 .. Len(wire') : wire'[k] = wire[k + 1]
  <2>1. wire' = Tail(wire)
    BY DEF Receive
  <2> QED  BY <1>1, <2>1, HeadTailProperties
<1>4. reading[l] = "header" => /\ got[l] + 1 \in 1 .. HeaderSize
                               /\ header' = [header EXCEPT ![got[l] + 1] = wire[1]]
  <2>1. reading[l] = "header" => wanted[l] = HeaderSize /\ header' = [header EXCEPT ![got[l] + 1] = wire[1]]
    BY <1>3 DEF Receive, StreamInv, TypeOK
  <2>2. got[l] \in Nat /\ wanted[l] \in Nat
    BY DEF StreamInv, TypeOK
  <2> QED  BY <1>1, <2>1, <2>2
<1>5. reading[l] = "payload" => header' = header
  BY DEF Receive
<1>6. header \in [1 .. HeaderSize -> Words] /\ 1 \in 1 .. HeaderSize /\ got[l] \in Nat
  BY DEF StreamInv, TypeOK
<1>7. reading[l] = "header" /\ got[l] = 0 => header'[1] = wire[1]
  <2>1. got[l] = 0 => got[l] + 1 = 1
    OBVIOUS
  <2> QED  BY <1>4, <1>6, <2>1
<1>8. reading[l] = "payload" \/ got[l] > 0 => header'[1] = header[1]
  <2>1. CASE reading[l] = "payload"
    BY <1>5, <2>1
  <2>2. CASE reading[l] = "header" /\ got[l] > 0
    <3>1. got[l] + 1 # 1
      BY <1>6, <2>2
    <3> QED  BY <1>4, <1>6, <2>2, <3>1
  <2> QED  BY <1>2, <2>1, <2>2
<1> QED  BY <1>1, <1>2, <1>3, <1>4, <1>7, <1>8

(* The words that are left continue after the one that has arrived.        *)
LEMMA StillJoined ==
  ASSUME StreamInv, NEW l \in Loops, Receive(l)
  PROVE  /\ WireInv'
         /\ \A m, p : wire[1] = Word(m, p) /\ p # 0 => Joined(sent', up', wire', m, p)
<1> USE Basics
<1>1. /\ wire # << >> /\ sent' = sent /\ up' = up /\ Len(wire') = Len(wire) - 1
      /\ Len(wire') \in Nat /\ Len(wire) >= 1
      /\ \A k \in 1 .. Len(wire') : wire'[k] = wire[k + 1]
      /\ IsWord(sent, wire[1]) /\ wire' \in Seq(Words)
  BY WordArrives
<1>2. WireInv'
  <2>1. ASSUME NEW k \in 1 .. Len(wire')  PROVE IsWord(sent', wire'[k])
    <3>1. k + 1 \in 1 .. Len(wire)
      BY <1>1
    <3> QED  BY <1>1, <3>1 DEF StreamInv, WireInv
  <2>2. ASSUME NEW k \in 1 .. Len(wire') - 1  PROVE Follows(sent', wire'[k], wire'[k + 1])
    <3>1. k \in 1 .. Len(wire') /\ k + 1 \in 1 .. Len(wire') /\ k + 1 \in 1 .. Len(wire) - 1
      BY <1>1
    <3>2. Follows(sent, wire[k + 1], wire[(k + 1) + 1])
      BY <3>1 DEF StreamInv, WireInv
    <3> QED  BY <1>1, <3>1, <3>2
  <2>3. wire' # << >> => wire'[Len(wire')] = wire[Len(wire)]
    BY <1>1
  <2> QED  BY <1>1, <2>1, <2>2, <2>3 DEF StreamInv, WireInv
<1>3. ASSUME NEW m, NEW p, wire[1] = Word(m, p), p # 0
      PROVE  Joined(sent', up', wire', m, p)
  <2>1. CASE wire' = << >>
    <3>1. Len(wire') = 0
      BY <2>1
    <3>2. Len(wire) = 1
      BY <1>1, <3>1
    <3>3. up => IsEnd(sent, wire[1])
      BY <1>1, <3>2 DEF StreamInv, WireInv
    <3> QED  BY <1>1, <1>3, <2>1, <3>3 DEF Joined
  <2>2. CASE wire' # << >>
    <3>1. Len(wire') >= 1 /\ wire'[1] = wire[2] /\ 1 \in 1 .. Len(wire) - 1
      BY <1>1, <2>2
    <3>2. Follows(sent, wire[1], wire[2])
      BY <3>1 DEF StreamInv, WireInv
    <3> QED  BY <1>1, <1>3, <2>2, <3>1, <3>2 DEF Joined
  <2> QED  BY <2>1, <2>2
<1> QED  BY <1>2, <1>3

(* On a sound connection the word that arrives is the next one of the      *)
(* message that is due.                                                    *)
LEMMA WordIsDue ==
  ASSUME StreamInv, due # 0, NEW l \in Loops, Receive(l)
  PROVE  /\ wire[1] = Word(due, Position(l) + 1) /\ Position(l) \in Nat /\ due \in Nat
         /\ due \in 1 .. Len(sent)
<1> USE Basics
<1>1. /\ LoopInv(l) /\ wire # << >> /\ got[l] < wanted[l] /\ reading[l] \in {"header", "payload"}
      /\ got[l] \in Nat /\ wanted[l] \in Nat
      /\ reading[l] = "header" => got[l] + 1 \in 1 .. HeaderSize
  BY WordArrives, Alone
<1>2. due \in Nat /\ Position(l) \in Nat
  BY <1>1 DEF StreamInv, SoundInv, Position
<1>3. Joined(sent, up, wire, due, Position(l))
  BY <1>1 DEF LoopInv
<1>4. Position(l) # 0 => due \in 1 .. Len(sent)
  BY <1>1, <1>2, <1>3, NextWord
<1>5. Position(l) = 0 \/ Position(l) < HeaderSize + sent[due]
  <2>1. CASE reading[l] = "header"
    <3>1. Position(l) = got[l] /\ got[l] < HeaderSize
      BY <1>1, <2>1 DEF Position
    <3>2. got[l] # 0 => sent[due] \in Nat
      BY <1>4, <3>1
    <3> QED  BY <1>1, <3>1, <3>2
  <2>2. CASE reading[l] = "payload"
    <3>1. Position(l) = HeaderSize + got[l] /\ Position(l) # 0
      BY <1>1, <2>2 DEF Position
    <3>2. sent[due] \in Nat /\ got[l] < sent[due]
      BY <1>1, <1>4, <2>2, <3>1 DEF LoopInv
    <3> QED  BY <1>1, <3>1, <3>2
  <2> QED  BY <1>1, <2>1, <2>2
<1>6. wire[1] = Word(due, Position(l) + 1)
  BY <1>1, <1>2, <1>3, <1>5, NextWord
<1>7. due \in 1 .. Len(sent)
  BY <1>1, <1>6 DEF IsWord, Word
<1> QED  BY <1>2, <1>6, <1>7

(* A payload that was not moved has room for its next word.                *)
LEMMA WordLands ==
  ASSUME StreamInv, NEW l \in Loops, Receive(l), reading[l] = "payload"
  PROVE  /\ header' = header /\ data' \in Seq(Words)
         /\ l \notin moved =>
              /\ Place(l) \in 1 .. Len(data) /\ Len(data') = Len(data)
              /\ \A j \in 1 .. Len(data) : data'[j] = IF j = Place(l) THEN wire[1] ELSE data[j]
<1> USE Basics
<1>1. /\ header' = header /\ (Lands(l) \/ (l \in moved /\ data' = data))
      /\ data \in Seq(Words) /\ wire[1] \in Words /\ Head(wire) = wire[1]
  BY WordArrives DEF Receive, StreamInv, TypeOK
<1>2. ASSUME Lands(l)
      PROVE  /\ Place(l) \in 1 .. Len(data) /\ Len(data') = Len(data) /\ data' \in Seq(Words)
             /\ \A j \in 1 .. Len(data) : data'[j] = IF j = Place(l) THEN wire[1] ELSE data[j]
  <2> DEFINE place == Place(l)
  <2>1. place \in 1 .. Len(data)
    <3>1. place \in Nat /\ place >= 1 /\ place <= Len(data) /\ Len(data) \in Nat
      BY <1>1, <1>2 DEF Lands, Place
    <3> QED  BY <3>1
  <2>2. data' = [data EXCEPT ![place] = wire[1]]
    BY <1>1, <1>2 DEF Lands
  <2> HIDE DEF place
  <2> DEFINE new == [data EXCEPT ![place] = wire[1]]
  <2>3. /\ new \in Seq(Words) /\ Len(new) = Len(data)
        /\ \A j \in 1 .. Len(data) : new[j] = IF j = place THEN wire[1] ELSE data[j]
    <3>1. data \in Seq(Words) /\ wire[1] \in Words
      BY <1>1
    <3> QED  BY <2>1, <3>1, ExceptSeq
  <2>4. data' = new
    BY <2>2
  <2> QED  BY <2>1, <2>3, <2>4 DEF place
<1> QED  BY <1>1, <1>2

LEMMA ReceiveType ==
  ASSUME StreamInv, NEW l \in Loops, Receive(l)
  PROVE  TypeOK'
<1> USE Basics
<1>1. /\ got[l] < wanted[l] /\ reading[l] \in {"header", "payload"}
      /\ got' = [got EXCEPT ![l] = got[l] + 1] /\ got'[l] = got[l] + 1
      /\ UNCHANGED <<sent, up, connection, first, reading, wanted, stale, moved, handled, due>>
      /\ wire' \in Seq(Words)
  BY WordArrives
<1>2. got' \in [Loops -> Nat] /\ \A k \in Loops : got'[k] <= wanted'[k]
  <2>1. got' \in [Loops -> Nat]
    <3>1. got \in [Loops -> Nat] /\ got[l] + 1 \in Nat
      BY DEF StreamInv, TypeOK
    <3> QED  BY <1>1, <3>1
  <2>2. ASSUME NEW k \in Loops  PROVE got'[k] <= wanted'[k]
    <3>1. CASE k = l
      BY <1>1, <3>1
    <3>2. CASE k # l
      <4>1. got'[k] = got[k]
        BY <1>1, <3>2 DEF StreamInv, TypeOK
      <4> QED  BY <1>1, <4>1
    <3> QED  BY <3>1, <3>2
  <2> QED  BY <2>1, <2>2
<1>3. header' \in [1 .. HeaderSize -> Words] /\ data' \in Seq(Words)
  <2>1. CASE reading[l] = "header"
    <3>1. /\ got[l] + 1 \in 1 .. HeaderSize /\ wire[1] \in Words
          /\ header' = [header EXCEPT ![got[l] + 1] = wire[1]]
      BY <2>1, WordArrives
    <3>2. data' = data
      BY <2>1 DEF Receive
    <3> QED  BY <3>1, <3>2 DEF StreamInv, TypeOK
  <2>2. CASE reading[l] = "payload"
    BY <2>2, WordLands DEF StreamInv, TypeOK
  <2> QED  BY <1>1, <2>1, <2>2
<1> QED  BY <1>1, <1>2, <1>3 DEF StreamInv, TypeOK

(* The next word continues the header, or the payload, of the message due. *)
LEMMA ReceiveSound ==
  ASSUME StreamInv, NEW l \in Loops, Receive(l)
  PROVE  SoundInv'
<1> USE Basics
<1>1. /\ l \in Running /\ l \notin stale /\ got[l] < wanted[l] /\ reading[l] \in {"header", "payload"}
      /\ got'[l] = got[l] + 1 /\ got[l] \in Nat
      /\ UNCHANGED <<sent, up, connection, first, reading, wanted, stale, moved, handled, due>>
  BY WordArrives
<1> SUFFICES ASSUME due # 0  PROVE SoundInv'
  BY <1>1 DEF SoundInv
<1>2. Running = {l} /\ LoopInv(l) /\ Running' = {l}
  BY <1>1, Alone DEF Running
<1>3. /\ wire[1] = Word(due, Position(l) + 1) /\ Position(l) \in Nat /\ due \in 1 .. Len(sent)
  BY WordIsDue
<1>4. Position(l)' = Position(l) + 1
  BY <1>1 DEF Position
<1>5. Joined(sent', up', wire', due, Position(l) + 1)
  <2>1. Position(l) + 1 # 0
    BY <1>3
  <2> QED  BY <1>3, <2>1, StillJoined
<1>6. CASE reading[l] = "header"
  <2>1. /\ Position(l) = got[l] /\ got[l] + 1 \in 1 .. HeaderSize
        /\ header' = [header EXCEPT ![got[l] + 1] = wire[1]]
        /\ header \in [1 .. HeaderSize -> Words]
    BY <1>6, WordArrives DEF Position, StreamInv, TypeOK
  <2>2. ASSUME NEW k \in 1 .. HeaderSize, k <= got[l] + 1
        PROVE  header'[k] = Word(due, k)
    <3>1. CASE k = got[l] + 1
      BY <1>3, <2>1, <3>1
    <3>2. CASE k # got[l] + 1
      <4>1. header'[k] = header[k]
        BY <2>1, <3>2
      <4>2. k <= got[l]
        BY <1>1, <2>2, <3>2
      <4> QED  BY <1>2, <2>1, <4>1, <4>2 DEF LoopInv
    <3> QED  BY <3>1, <3>2
  <2>3. LoopInv(l)'
    BY <1>1, <1>4, <1>5, <1>6, <2>1, <2>2 DEF LoopInv
  <2> QED  BY <1>1, <1>2, <2>3 DEF StreamInv, SoundInv
<1>7. CASE reading[l] = "payload"
  <2>1. /\ l \notin moved /\ wanted[l] = sent[due] /\ Len(data) = HeaderSize + sent[due]
        /\ sent[due] \in Nat
    BY <1>2, <1>3, <1>7 DEF LoopInv
  <2>2. /\ header' = header /\ Place(l) \in 1 .. Len(data) /\ Len(data') = Len(data)
        /\ \A j \in 1 .. Len(data) : data'[j] = IF j = Place(l) THEN wire[1] ELSE data[j]
    BY <1>7, <2>1, WordLands
  <2>3. /\ Position(l) = HeaderSize + got[l] /\ Place(l) = Position(l) + 1
        /\ HeaderSize + got'[l] = Position(l) + 1
    BY <1>1, <1>7 DEF Position, Place
  <2>4. ASSUME NEW k \in 1 .. Position(l) + 1  PROVE data'[k] = Word(due, k)
    <3>1. k \in 1 .. Len(data)
      BY <1>3, <2>2, <2>3
    <3>2. CASE k = Place(l)
      BY <1>3, <2>2, <2>3, <3>1, <3>2
    <3>3. CASE k # Place(l)
      <4>1. k \in 1 .. HeaderSize + got[l]
        BY <1>3, <2>3, <3>3
      <4>2. data[k] = Word(due, k)
        BY <1>2, <1>7, <4>1 DEF LoopInv
      <4> QED  BY <2>2, <3>1, <3>3, <4>2
    <3> QED  BY <3>2, <3>3
  <2>5. \A k \in 1 .. HeaderSize : header'[k] = Word(due, k)
    <3>1. \A k \in 1 .. HeaderSize : k <= Position(l)
      BY <1>1, <2>3
    <3> QED  BY <1>2, <2>2, <3>1 DEF LoopInv
  <2>6. LoopInv(l)'
    BY <1>1, <1>4, <1>5, <1>7, <2>1, <2>2, <2>3, <2>4, <2>5 DEF LoopInv
  <2> QED  BY <1>1, <1>2, <2>6 DEF StreamInv, SoundInv
<1> QED  BY <1>1, <1>6, <1>7

LEMMA ReceiveStep ==
  ASSUME StreamInv, NEW l \in Loops, Receive(l)
  PROVE  StreamInv'
<1> USE Basics
<1>1. /\ l \in Running /\ reading[l] \in {"header", "payload"} /\ IsWord(sent, wire[1])
      /\ got' = [got EXCEPT ![l] = got[l] + 1]
      /\ UNCHANGED <<sent, up, connection, first, reading, wanted, stale, moved, handled, due>>
      /\ reading[l] = "payload" \/ got[l] > 0 => header'[1] = header[1]
      /\ reading[l] = "header" /\ got[l] = 0 => header'[1] = wire[1]
  BY WordArrives
<1>2. SentInv'
  <2>1. ASSUME NEW k \in Running', reading'[k] = "payload" \/ got'[k] > 0
        PROVE  header'[1].msg \in 1 .. Len(sent')
    <3>1. k \in Running /\ reading[k] = reading'[k] /\ (k # l => got'[k] = got[k])
      BY <1>1, <2>1 DEF Running, StreamInv, TypeOK
    <3>2. CASE reading[l] = "header" /\ got[l] = 0
      BY <1>1, <3>2 DEF IsWord
    <3>3. CASE reading[l] = "payload" \/ got[l] > 0
      <4>1. header[1].msg \in 1 .. Len(sent)
        BY <1>1, <3>3 DEF StreamInv, SentInv
      <4> QED  BY <1>1, <3>3, <4>1
    <3>4. got[l] \in Nat
      BY DEF Running
    <3> QED  BY <1>1, <3>2, <3>3, <3>4
  <2> QED  BY <1>1, <2>1 DEF StreamInv, SentInv
<1>3. FirstInv'
  BY <1>1 DEF StreamInv, FirstInv
<1> QED  BY <1>2, <1>3, ReceiveType, ReceiveSound, StillJoined DEF StreamInv

(* update_from_header keeps the header in front of what it makes room for. *)
LEMMA ResizedIs ==
  ASSUME StreamInv, NEW n \in Nat
  PROVE  /\ Resized(n) \in Seq(Words) /\ Len(Resized(n)) = HeaderSize + n
         /\ \A k \in 1 .. HeaderSize : Resized(n)[k] = header[k]
<1> USE Basics
<1> DEFINE size == HeaderSize + n
           new == Resized(n)
<1>1. size \in Nat /\ size >= HeaderSize
  OBVIOUS
<1>2. new = [k \in 1 .. size |->
               IF k <= HeaderSize THEN header[k]
               ELSE IF k <= Len(data) THEN data[k] ELSE Zero]
  BY DEF Resized
<1> HIDE DEF size, new
<1>3. Zero \in Words /\ data \in Seq(Words) /\ header \in [1 .. HeaderSize -> Words]
  BY DEF Zero, Words, StreamInv, TypeOK
<1>4. new \in [1 .. size -> Words]
  <2>1. ASSUME NEW k \in 1 .. size
        PROVE  (IF k <= HeaderSize THEN header[k]
                ELSE IF k <= Len(data) THEN data[k] ELSE Zero) \in Words
    <3>1. Len(data) \in Nat /\ k \in Nat /\ k >= 1
      BY <1>1, <1>3
    <3>2. k <= HeaderSize => header[k] \in Words
      <4>1. HeaderSize \in Nat
        OBVIOUS
      <4>2. k <= HeaderSize => k \in 1 .. HeaderSize
        BY <3>1, <4>1
      <4> QED  BY <1>3, <4>2
    <3>3. k <= Len(data) => data[k] \in Words
      BY <1>3, <3>1
    <3> QED  BY <1>3, <3>2, <3>3
  <2> QED  BY <1>2, <2>1
<1>5. new \in Seq(Words) /\ Len(new) = size
  BY <1>1, <1>4, FunctionIsSeq
<1>6. \A k \in 1 .. HeaderSize : new[k] = header[k]
  BY <1>1, <1>2
<1> QED  BY <1>5, <1>6 DEF size, new

(* On a sound connection a header that is complete is the one of the       *)
(* message due, and announces its payload.                                 *)
LEMMA HeaderIsDue ==
  ASSUME StreamInv, due # 0, NEW l \in Running, HeaderSize <= Position(l)
  PROVE  /\ due \in 1 .. Len(sent) /\ header[1].msg = due /\ IsHeader
         /\ Announced = {sent[due]}
         /\ \A k \in 1 .. HeaderSize : header[k] = Word(due, k)
<1> USE Basics
<1>1. LoopInv(l) /\ l \in Loops
  BY Alone
<1>2. Position(l) \in Nat
  BY <1>1 DEF Position
<1>3. \A k \in 1 .. HeaderSize : header[k] = Word(due, k)
  <2>1. \A k \in 1 .. HeaderSize : k <= Position(l)
    BY <1>2
  <2> QED  BY <1>1, <2>1 DEF LoopInv
<1>4. header[1].msg = due
  <2>1. header[1] = Word(due, 1)
    BY <1>3
  <2> QED  BY <2>1 DEF Word
<1>5. IsHeader
  BY <1>3, <1>4 DEF IsHeader
<1>6. due \in 1 .. Len(sent)
  <2>1. Position(l) # 0 /\ Joined(sent, up, wire, due, Position(l))
    BY <1>1, <1>2 DEF LoopInv
  <2> QED  BY <2>1 DEF Joined, IsWord, Word
<1>7. Announced = {sent[due]}
  BY <1>4, <1>5, <1>6 DEF Announced
<1> QED  BY <1>3, <1>4, <1>5, <1>6, <1>7

LEMMA HeaderSound ==
  ASSUME StreamInv, NEW l \in Loops, HeaderReceived(l)
  PROVE  SoundInv'
<1> USE Basics
<1>1. /\ reading[l] = "header" /\ got[l] = wanted[l] /\ l \in Running
      /\ UNCHANGED <<sent, wire, up, header, handled, due>>
  BY DEF HeaderReceived, Complete, streamVars, Running
<1> SUFFICES ASSUME due # 0  PROVE SoundInv'
  BY <1>1 DEF SoundInv
<1>2. Position(l) = HeaderSize
  BY <1>1 DEF Position, StreamInv, TypeOK
<1>3. Running = {l} /\ LoopInv(l)
  BY <1>1, Alone
<1>4. /\ due \in 1 .. Len(sent) /\ IsHeader /\ Announced = {sent[due]}
      /\ \A k \in 1 .. HeaderSize : header[k] = Word(due, k)
  BY <1>1, <1>2, HeaderIsDue
<1>5. sent[due] \in Nat
  BY <1>4
<1>6. Read(l, "payload", sent[due]) /\ data' = Resized(sent[due]) /\ l \notin moved'
      /\ l \notin stale'
  BY <1>4 DEF HeaderReceived, IsValid
<1>7. reading'[l] = "payload" /\ wanted'[l] = sent[due] /\ got'[l] = 0
  BY <1>5, <1>6, ReadType
<1>8. Len(data') = HeaderSize + sent[due] /\ \A k \in 1 .. HeaderSize : data'[k] = Word(due, k)
  BY <1>4, <1>5, <1>6, ResizedIs
<1>9. Position(l)' = HeaderSize /\ HeaderSize + got'[l] = HeaderSize
  BY <1>7 DEF Position
<1>10. LoopInv(l)'
  <2>1. Joined(sent', up', wire', due', Position(l)')
    BY <1>1, <1>2, <1>3, <1>9 DEF LoopInv
  <2> QED  BY <1>1, <1>4, <1>6, <1>7, <1>8, <1>9, <2>1 DEF LoopInv
<1>11. Running' \subseteq {l}
  BY <1>1, <1>6, StaysAlone DEF Read
<1> QED  BY <1>1, <1>4, <1>10, <1>11 DEF StreamInv, SoundInv

LEMMA HeaderStep ==
  ASSUME StreamInv, NEW l \in Loops, HeaderReceived(l)
  PROVE  StreamInv'
<1> USE Basics
<1>1. /\ reading[l] = "header" /\ got[l] = wanted[l] /\ stale' = stale \ {l}
      /\ UNCHANGED <<sent, wire, up, connection, first, header, handled, due>>
  BY DEF HeaderReceived, Complete, streamVars
<1>2. header[1].msg \in 1 .. Len(sent)
  <2>1. got[l] > 0 /\ l \in Running
    BY <1>1 DEF StreamInv, TypeOK, Running
  <2> QED  BY <2>1 DEF StreamInv, SentInv
<1>3. PICK n \in Announced :
           \/ Read(l, "payload", n) /\ data' = Resized(n)
              /\ moved' = (moved \union {k \in Loops : reading[k] = "payload"}) \ {l}
           \/ Read(l, "header", HeaderSize) /\ UNCHANGED <<data, moved>>
  BY DEF HeaderReceived, InitiateReceive
<1>4. n \in Nat
  BY SizesAssumption DEF Announced
<1>5. /\ reading' \in [Loops -> {"header", "payload", "none"}]
      /\ wanted' \in [Loops -> Nat] /\ got' \in [Loops -> Nat]
      /\ \A k \in Loops : /\ got'[k] <= wanted'[k]
                          /\ reading'[k] = "header" => wanted'[k] = HeaderSize
  BY <1>3, <1>4, ReadType
<1>6. data' \in Seq(Words) /\ moved' \subseteq Loops /\ stale' \subseteq Loops
  BY <1>1, <1>3, <1>4, ResizedIs DEF StreamInv, TypeOK
<1>7. TypeOK'
  BY <1>1, <1>5, <1>6 DEF StreamInv, TypeOK
<1>8. WireInv' /\ SentInv' /\ FirstInv'
  BY <1>1, <1>2 DEF StreamInv, WireInv, SentInv, FirstInv
<1> QED  BY <1>7, <1>8, HeaderSound DEF StreamInv

(* On a sound connection what is in message_ when a payload is complete is *)
(* the message due.                                                        *)
LEMMA WholeMessage ==
  ASSUME StreamInv, due # 0, NEW l \in Loops, reading[l] = "payload", Complete(l)
  PROVE  /\ due \in 1 .. Len(sent) /\ Position(l) = HeaderSize + sent[due]
         /\ header[1].msg = due
         /\ data = WordsOf(due)
         /\ header = SubSeq(data, 1, HeaderSize)
<1> USE Basics
<1> DEFINE size == HeaderSize + sent[due]
<1>1. /\ l \in Running /\ got[l] = wanted[l] /\ got[l] \in Nat /\ Position(l) = HeaderSize + got[l]
      /\ HeaderSize <= Position(l)
  BY DEF Complete, Running, Position
<1>2. LoopInv(l)
  BY <1>1, Alone
<1>3. /\ due \in 1 .. Len(sent) /\ header[1].msg = due
      /\ \A k \in 1 .. HeaderSize : header[k] = Word(due, k)
  BY <1>1, HeaderIsDue
<1>4. /\ got[l] = sent[due] /\ sent[due] \in Nat /\ Len(data) = size
      /\ data \in Seq(Words) /\ header \in [1 .. HeaderSize -> Words]
  BY <1>1, <1>2, <1>3 DEF LoopInv, StreamInv, TypeOK
<1>5. size \in Nat /\ HeaderSize <= size /\ HeaderSize + got[l] = size
  BY <1>4
<1>6. WordsOf(due) = [k \in 1 .. size |-> Word(due, k)]
  BY DEF WordsOf
<1>7. \A k \in 1 .. size : data[k] = Word(due, k)
  BY <1>2, <1>5 DEF LoopInv
<1> HIDE DEF size
<1>8. data = WordsOf(due)
  <2>1. data \in [1 .. size -> Words]
    BY <1>4, LenProperties
  <2> QED  BY <1>6, <1>7, <2>1
<1>9. header = SubSeq(data, 1, HeaderSize)
  <2> DEFINE beginning == SubSeq(data, 1, HeaderSize)
  <2>1. \A i \in 1 .. HeaderSize : data[i] \in Words
    BY <1>4, <1>5
  <2>2. /\ beginning \in Seq(Words) /\ Len(beginning) = HeaderSize
        /\ \A i \in 1 .. HeaderSize : beginning[i] = data[i]
    BY <2>1, SubSeqProperties
  <2>3. beginning \in [1 .. HeaderSize -> Words]
    BY <2>2, LenProperties
  <2>4. ASSUME NEW i \in 1 .. HeaderSize  PROVE beginning[i] = header[i]
    <3>1. i \in 1 .. size
      BY <1>5
    <3> QED  BY <1>3, <1>7, <2>2, <3>1
  <2> HIDE DEF beginning
  <2>5. header = beginning
    BY <1>4, <2>3, <2>4
  <2> QED  BY <2>5 DEF beginning
<1> QED  BY <1>1, <1>3, <1>5, <1>8, <1>9 DEF size

(* What the callbacks are given: a message that was sent and, on a sound   *)
(* connection, the one that is due, whole.                                 *)
LEMMA Handles ==
  ASSUME StreamInv, NEW l \in Loops, DataReceived(l)
  PROVE  LET m == header[1].msg
         IN  /\ m \in 1 .. Len(sent) /\ m \in Nat
             /\ \/ handled' = handled /\ due' = due
                \/ /\ handled' = Append(handled, m)
                   /\ due' = IF due # 0 THEN m + 1 ELSE 0
                   /\ due # 0 => m = due /\ Complete(l)
             /\ due # 0 /\ handled' = handled => ~up /\ wire = << >>
             /\ due # 0 /\ up => handled' = Append(handled, m)
<1> USE Basics
<1> DEFINE m == header[1].msg
<1>1. /\ reading[l] = "payload" /\ (Complete(l) \/ Cut(l)) /\ l \in Running
  BY DEF DataReceived, Running
<1>2. m \in 1 .. Len(sent) /\ m \in Nat
  BY <1>1 DEF StreamInv, SentInv
<1>3. PICK n \in Announced :
        IF got[l] = n
        THEN handled' = Append(handled, m) /\ due' = (IF due # 0 THEN m + 1 ELSE 0)
        ELSE handled' = handled /\ due' = due
  BY DEF DataReceived, CountIsRight
<1>4. ASSUME due # 0
      PROVE  /\ m = due /\ n = wanted[l]
             /\ ~Complete(l) => ~up /\ wire = << >>
  <2>1. HeaderSize <= Position(l) /\ LoopInv(l)
    BY <1>1, <1>4, Alone DEF Position
  <2>2. m = due /\ n = sent[due]
    BY <1>1, <1>3, <1>4, <2>1, HeaderIsDue
  <2> QED  BY <1>1, <2>1, <2>2 DEF LoopInv, Cut
<1>5. handled' = handled => got[l] # n
  <2>1. Len(Append(handled, m)) = Len(handled) + 1
    BY <1>2
  <2>2. Append(handled, m) # handled
    BY <2>1
  <2> QED  BY <1>3, <2>2
<1> HIDE DEF m
<1>6. due # 0 /\ got[l] = n => m = due /\ Complete(l)
  BY <1>4 DEF Complete
<1>7. due # 0 /\ got[l] # n => ~up /\ wire = << >>
  BY <1>4 DEF Complete
<1> QED  BY <1>2, <1>3, <1>5, <1>6, <1>7 DEF m

LEMMA DataSound ==
  ASSUME StreamInv, NEW l \in Loops, DataReceived(l)
  PROVE  SoundInv'
<1> USE Basics
<1>1. /\ reading[l] = "payload" /\ l \in Running /\ Read(l, "header", HeaderSize)
      /\ stale' = stale \ {l}
      /\ UNCHANGED <<sent, wire, up, header, data>>
  BY DEF DataReceived, InitiateReceive, streamVars, Running
<1>2. reading'[l] = "header" /\ got'[l] = 0 /\ Position(l)' = 0
  <2>1. reading'[l] = "header" /\ got'[l] = 0
    BY <1>1, ReadType
  <2> QED  BY <2>1 DEF Position
<1> SUFFICES ASSUME due # 0  PROVE SoundInv'
  BY Handles DEF SoundInv
<1>3. Running' \subseteq {l} /\ LoopInv(l)
  BY <1>1, Alone, StaysAlone DEF Read
<1>4. due \in 1 .. Len(sent) + 1 /\ \A i \in 1 .. Len(handled) : handled[i] < due
  BY DEF StreamInv, SoundInv
<1>5. ASSUME Joined(sent, up, wire, due', 0)  PROVE LoopInv(l)'
  <2>1. \A k \in 1 .. HeaderSize : ~(k <= 0)
    OBVIOUS
  <2> QED  BY <1>1, <1>2, <1>5, <2>1 DEF LoopInv
<1>6. CASE handled' = handled
  <2>1. due' = due /\ ~up /\ wire = << >>
    <3>1. Append(handled, header[1].msg) # handled
      <4>1. header[1].msg \in Nat /\ Len(Append(handled, header[1].msg)) = Len(handled) + 1
        BY Handles
      <4> QED  BY <4>1
    <3> QED  BY <1>6, <3>1, Handles
  <2>2. LoopInv(l)'
    BY <1>5, <2>1 DEF Joined
  <2> QED  BY <1>1, <1>3, <1>4, <1>6, <2>1, <2>2 DEF SoundInv
<1>7. CASE handled' # handled
  <2>1. /\ handled' = Append(handled, due) /\ due' = due + 1 /\ Complete(l)
        /\ due \in 1 .. Len(sent)
    BY <1>7, Handles
  <2>2. due' \in 1 .. Len(sent') + 1
    BY <1>1, <2>1
  <2>3. Position(l) = HeaderSize + sent[due] /\ Position(l) # 0 /\ Position(l) \in Nat /\ due \in Nat
    <3>1. Position(l) = HeaderSize + sent[due]
      BY <1>1, <2>1, WholeMessage
    <3>2. sent[due] \in Nat /\ due \in Nat
      BY <2>1
    <3> QED  BY <3>1, <3>2
  <2>4. Joined(sent, up, wire, due, Position(l))
    BY <1>3 DEF LoopInv
  <2>5. Joined(sent, up, wire, due + 1, 0)
    <3>1. CASE wire = << >>
      BY <2>3, <2>4, <3>1 DEF Joined, IsEnd, Word
    <3>2. CASE wire # << >>
      BY <2>3, <2>4, <3>2, NextWord DEF Joined
    <3> QED  BY <3>1, <3>2
  <2>6. \A i \in 1 .. Len(handled') : handled'[i] < due'
    <3>1. due \in 0 .. MaxSent /\ handled \in Seq(0 .. MaxSent)
      BY <2>1
    <3>2. /\ Len(handled') = Len(handled) + 1
          /\ \A j \in 1 .. Len(handled) : handled'[j] = handled[j]
          /\ handled'[Len(handled) + 1] = due
      BY <2>1, <3>1
    <3>3. ASSUME NEW i \in 1 .. Len(handled')  PROVE handled'[i] < due'
      <4>1. i \in 1 .. Len(handled) \/ i = Len(handled) + 1
        BY <3>2
      <4>2. due < due' /\ (i \in 1 .. Len(handled) => handled[i] < due /\ handled[i] \in Nat)
        BY <1>4, <2>1, <2>3
      <4>3. i \in 1 .. Len(handled) => handled'[i] < due'
        BY <2>3, <2>1, <3>2, <4>2
      <4> QED  BY <3>2, <4>1, <4>2, <4>3
    <3> QED  BY <3>3
  <2>7. LoopInv(l)'
    BY <1>5, <2>1, <2>5
  <2> QED  BY <1>3, <2>2, <2>6, <2>7 DEF SoundInv
<1> QED  BY <1>6, <1>7

LEMMA DataStep ==
  ASSUME StreamInv, NEW l \in Loops, DataReceived(l)
  PROVE  StreamInv'
<1> USE Basics
<1> DEFINE m == header[1].msg
<1>1. /\ Read(l, "header", HeaderSize) /\ stale' = stale \ {l} /\ moved' = moved \ {l}
      /\ UNCHANGED <<sent, wire, up, connection, first, header, data>>
  BY DEF DataReceived, InitiateReceive, streamVars
<1>2. /\ m \in 1 .. Len(sent) /\ m \in Nat
      /\ \/ handled' = handled /\ due' = due
         \/ handled' = Append(handled, m) /\ due' = IF due # 0 THEN m + 1 ELSE 0
  BY Handles
<1> HIDE DEF m
<1>3. /\ reading' \in [Loops -> {"header", "payload", "none"}]
      /\ wanted' \in [Loops -> Nat] /\ got' \in [Loops -> Nat]
      /\ \A k \in Loops : /\ got'[k] <= wanted'[k]
                          /\ reading'[k] = "header" => wanted'[k] = HeaderSize
  BY <1>1, ReadType
<1>4. reading'[l] = "header" /\ got'[l] = 0
      /\ \A k \in Loops \ {l} : reading'[k] = reading[k] /\ got'[k] = got[k]
  BY <1>1, ReadType
<1>5. m \in 0 .. MaxSent /\ m + 1 \in 1 .. MaxSent + 1
  BY <1>2
<1>6. handled' \in Seq(0 .. MaxSent) /\ \A i \in 1 .. Len(handled') : handled'[i] <= Len(sent)
  <2>1. \A i \in 1 .. Len(handled) : handled[i] <= Len(sent)
    BY DEF StreamInv, SentInv
  <2>2. CASE handled' = handled
    BY <2>1, <2>2
  <2>3. CASE handled' = Append(handled, m)
    <3>1. /\ handled' \in Seq(0 .. MaxSent) /\ Len(handled') = Len(handled) + 1
          /\ \A i \in 1 .. Len(handled) : handled'[i] = handled[i]
          /\ handled'[Len(handled) + 1] = m
      BY <1>5, <2>3
    <3>2. ASSUME NEW i \in 1 .. Len(handled')  PROVE handled'[i] <= Len(sent)
      <4>1. i \in 1 .. Len(handled) \/ i = Len(handled) + 1
        BY <3>1
      <4>2. m <= Len(sent)
        BY <1>2
      <4> QED  BY <2>1, <3>1, <4>1, <4>2
    <3> QED  BY <3>1, <3>2
  <2> QED  BY <1>2, <2>2, <2>3
<1>7. due' \in 0 .. MaxSent + 1 /\ (due # 0 => due' # 0)
  <2>1. m + 1 \in 0 .. MaxSent + 1 /\ m + 1 # 0
    BY <1>5
  <2>2. due \in 0 .. MaxSent + 1 /\ 0 \in 0 .. MaxSent + 1
    BY DEF StreamInv, TypeOK
  <2> QED  BY <1>2, <2>1, <2>2
<1>8. TypeOK'
  BY <1>1, <1>3, <1>6, <1>7 DEF StreamInv, TypeOK
<1>9. WireInv' /\ FirstInv'
  BY <1>1, <1>7 DEF StreamInv, WireInv, FirstInv
<1>10. SentInv'
  <2>1. ASSUME NEW k \in Running', reading'[k] = "payload" \/ got'[k] > 0
        PROVE  header'[1].msg \in 1 .. Len(sent')
    BY <1>1, <1>2 DEF m
  <2> QED  BY <1>1, <1>6, <2>1 DEF SentInv
<1> QED  BY <1>8, <1>9, <1>10, DataSound DEF StreamInv

(* Of a sound connection no loop is left once its words are gone.          *)
LEMMA FailStep ==
  ASSUME StreamInv, NEW l \in Loops, HeaderFails(l)
  PROVE  StreamInv' /\ (due # 0 => ~up)
<1> USE Basics
<1>1. /\ reading[l] = "header" /\ got[l] # wanted[l] /\ Cut(l) /\ l \in Running
      /\ stale' = stale \ {l}
      /\ UNCHANGED <<sent, wire, up, connection, first, moved, header, data, handled, due>>
  BY DEF HeaderFails, Complete, streamVars, Running
<1>2. /\ due # 0 => ~up /\ Running = {l}
  BY <1>1, Alone DEF LoopInv, Cut
<1>3. PICK what \in {"header", "none"} : Read(l, what, HeaderSize) /\ (~up => what = "none")
  BY DEF HeaderFails, InitiateReceive
<1>4. /\ reading' \in [Loops -> {"header", "payload", "none"}]
      /\ wanted' \in [Loops -> Nat] /\ got' \in [Loops -> Nat]
      /\ \A k \in Loops : /\ got'[k] <= wanted'[k]
                          /\ reading'[k] = "header" => wanted'[k] = HeaderSize
      /\ reading'[l] = what /\ got'[l] = 0
      /\ \A k \in Loops \ {l} : reading'[k] = reading[k] /\ got'[k] = got[k]
  BY <1>3, ReadType
<1>5. TypeOK'
  BY <1>1, <1>4 DEF StreamInv, TypeOK
<1>6. SentInv'
  <2>1. ASSUME NEW k \in Running', reading'[k] = "payload" \/ got'[k] > 0
        PROVE  header'[1].msg \in 1 .. Len(sent')
    <3>1. k # l
      BY <1>3, <1>4, <2>1
    <3>2. k \in Running /\ (reading[k] = "payload" \/ got[k] > 0)
      BY <1>4, <2>1, <3>1 DEF Running
    <3> QED  BY <1>1, <3>2 DEF StreamInv, SentInv
  <2> QED  BY <1>1, <2>1 DEF StreamInv, SentInv
<1>7. WireInv' /\ FirstInv'
  BY <1>1 DEF StreamInv, WireInv, FirstInv
<1>8. SoundInv'
  <2> SUFFICES ASSUME due # 0  PROVE SoundInv'
    BY <1>1 DEF SoundInv
  <2>1. Running' = {}
    BY <1>2, <1>3, <1>4 DEF Running
  <2> QED  BY <1>1, <2>1 DEF StreamInv, SoundInv
<1> QED  BY <1>2, <1>5, <1>6, <1>7, <1>8 DEF StreamInv

LEMMA StillInv ==
  ASSUME StreamInv, UNCHANGED vars
  PROVE  StreamInv'
<1>1. UNCHANGED <<sent, wire, up, connection, first, reading, wanted, got, stale, moved,
                  header, data, handled, due>>
  BY DEF vars, streamVars, clientVars, loopVars
<1>2. TypeOK' /\ WireInv' /\ FirstInv'
  BY <1>1 DEF StreamInv, TypeOK, WireInv, FirstInv
<1>3. SentInv'
  BY <1>1 DEF StreamInv, SentInv, Running
<1>4. SoundInv'
  BY <1>1 DEF StreamInv, SoundInv, LoopInv, Position, Running
<1> QED  BY <1>2, <1>3, <1>4 DEF StreamInv

LEMMA StreamInvAlways == Spec => []StreamInv
<1>1. Init => StreamInv
  BY StartInv
<1>2. StreamInv /\ [Next]_vars => StreamInv'
  BY SendsStep, BreakStep, ReconnectStep, ReceiveStep, HeaderStep, DataStep, FailStep, StillInv
     DEF Next, Handle
<1> QED  BY <1>1, <1>2, PTL DEF Spec

-------------------------------------------------------------------------------
(* The reception is well typed: no read has more than it was asked for.    *)
THEOREM TypeCorrect == Spec => []TypeOK
<1>1. StreamInv => TypeOK
  BY DEF StreamInv
<1> QED  BY <1>1, StreamInvAlways, PTL

(* On a sound connection the callbacks are given whole messages, each with *)
(* its own header and later than all those before, wherever the stream was *)
(* cut and whatever unsound connections left in message_.                  *)
THEOREM DeliveryCorrect == Spec => HandledWhole
<1> DEFINE Whole ==
      \A n \in 1 .. Len(handled') : n > Len(handled) /\ due # 0 =>
        /\ data = WordsOf(handled'[n])
        /\ header = SubSeq(data, 1, HeaderSize)
        /\ \A i \in 1 .. n - 1 : handled'[i] < handled'[n]
<1>1. ASSUME StreamInv, handled' = handled  PROVE Whole
  BY <1>1, Basics
<1>2. ASSUME StreamInv, NEW l \in Loops, DataReceived(l), handled' # handled, due # 0
      PROVE  Whole
  <2>1. /\ handled' = Append(handled, due) /\ Complete(l) /\ reading[l] = "payload"
        /\ due \in 1 .. Len(sent)
    BY <1>2, Handles DEF DataReceived
  <2>2. data = WordsOf(due) /\ header = SubSeq(data, 1, HeaderSize)
    BY <1>2, <2>1, WholeMessage
  <2>3. due \in 0 .. MaxSent /\ handled \in Seq(0 .. MaxSent)
    BY <1>2, <2>1, Basics
  <2>4. /\ Len(handled') = Len(handled) + 1 /\ Len(handled) \in Nat
        /\ \A j \in 1 .. Len(handled) : handled'[j] = handled[j]
        /\ handled'[Len(handled) + 1] = due
    BY <2>1, <2>3
  <2>5. \A i \in 1 .. Len(handled) : handled[i] < due
    BY <1>2 DEF StreamInv, SoundInv
  <2>6. ASSUME NEW n \in 1 .. Len(handled'), n > Len(handled)
        PROVE  /\ data = WordsOf(handled'[n])
               /\ header = SubSeq(data, 1, HeaderSize)
               /\ \A i \in 1 .. n - 1 : handled'[i] < handled'[n]
    <3>1. n = Len(handled) + 1
      BY <2>4, <2>6
    <3>2. handled'[n] = due
      BY <2>4, <3>1
    <3>3. ASSUME NEW i \in 1 .. n - 1  PROVE handled'[i] < handled'[n]
      <4>1. i \in 1 .. Len(handled)
        BY <2>4, <3>1
      <4> QED  BY <2>4, <2>5, <3>2, <4>1
    <3> QED  BY <2>2, <3>2, <3>3
  <2> QED  BY <2>6
<1>3. StreamInv /\ [Next]_vars => [Whole]_vars
  <2>1. ASSUME StreamInv, Next  PROVE Whole
    <3>1. (\E l \in Loops : DataReceived(l)) \/ handled' = handled
      BY <2>1 DEF Next, Handle, SonarSends, Break, Reconnect, Receive, HeaderReceived,
                  HeaderFails, clientVars
    <3>2. CASE due = 0
      BY <3>2
    <3> QED  BY <1>1, <1>2, <2>1, <3>1, <3>2
  <2> QED  BY <2>1
<1> QED  BY <1>3, StreamInvAlways, PTL DEF Spec, HandledWhole

-------------------------------------------------------------------------------
(* Nothing is passed over.  While a sound connection holds, a message      *)
(* leaves the wire only for message_, and message_ only for the callbacks. *)
LEMMA SendsKeeps ==
  ASSUME StreamInv, NothingIsSkipped, NEW size \in Sizes, SonarSends(size)
  PROVE  NothingIsSkipped'
<1> USE Basics
<1> DEFINE n == Len(sent) + 1
           total == HeaderSize + size
<1>1. /\ up /\ Len(sent') = n /\ total \in Nat /\ total >= 1
      /\ Len(wire') = Len(wire) + total /\ Len(wire') \in Nat
      /\ \A k \in 1 .. Len(wire) : wire'[k] = wire[k]
      /\ \A k \in 1 .. total : wire'[Len(wire) + k] = Word(n, k)
  BY WireGrows
<1>2. UNCHANGED <<first, reading, got, header, handled>>
  BY DEF SonarSends, clientVars, loopVars
<1>3. ASSUME NEW m \in first' .. Len(sent')  PROVE m \in Range(handled') \/ IsAhead(m)'
  <2>1. CASE m = n
    <3>1. 1 \in 1 .. total /\ Len(wire) + 1 \in 1 .. Len(wire')
      BY <1>1
    <3>2. wire'[Len(wire) + 1] = Word(n, 1)
      BY <1>1, <3>1
    <3>3. wire'[Len(wire) + 1].msg = m
      BY <2>1, <3>2 DEF Word
    <3> QED  BY <3>1, <3>3 DEF IsAhead
  <2>2. CASE m # n
    <3>1. m \in first .. Len(sent)
      BY <1>1, <1>2, <2>2
    <3>2. m \in Range(handled) \/ IsAhead(m)
      BY <1>1, <3>1 DEF NothingIsSkipped
    <3>3. ASSUME NEW k \in 1 .. Len(wire), wire[k].msg = m
          PROVE  \E j \in 1 .. Len(wire') : wire'[j].msg = m
      <4>1. k \in 1 .. Len(wire') /\ wire'[k].msg = m
        BY <1>1, <3>3
      <4> QED  BY <4>1
    <3> QED  BY <1>2, <3>2, <3>3 DEF IsAhead, Running
  <2> QED  BY <2>1, <2>2
<1> QED  BY <1>3 DEF NothingIsSkipped

LEMMA ReconnectKeeps ==
  ASSUME StreamInv, NEW l \in Loops, Reconnect(l)
  PROVE  NothingIsSkipped'
<1> USE Basics
<1>1. first' > Len(sent')
  <2>1. CASE sent' = sent /\ first' \in {Len(sent) + 1, MaxSent + 1}
    BY <2>1
  <2>2. ASSUME NEW size \in Sizes, Len(sent) < MaxSent, sent' = Append(sent, size),
               first' = MaxSent + 1
        PROVE  first' > Len(sent')
    BY <2>2, Growth
  <2> QED  BY <2>1, <2>2 DEF Reconnect
<1>2. first' \in Nat /\ Len(sent') \in Nat
  <2>1. TypeOK'
    BY ReconnectStep DEF StreamInv
  <2>2. first' \in 1 .. MaxSent + 1 /\ sent' \in Seq(Sizes)
    BY <2>1 DEF TypeOK
  <2> QED  BY <2>2
<1>3. \A m \in first' .. Len(sent') : FALSE
  BY <1>1, <1>2
<1> QED  BY <1>3 DEF NothingIsSkipped

(* The connection that a message is claimed of is sound. *)
LEMMA ClaimedIsSound ==
  ASSUME StreamInv, NEW m \in first .. Len(sent)
  PROVE  due # 0
<1>1. first \in Nat /\ first <= MaxSent
  BY Basics DEF StreamInv, TypeOK
<1> QED  BY <1>1 DEF StreamInv, FirstInv

LEMMA ReceiveKeeps ==
  ASSUME StreamInv, NothingIsSkipped, NEW l \in Loops, Receive(l)
  PROVE  NothingIsSkipped'
<1> USE Basics
<1>1. /\ l \in Running /\ got'[l] = got[l] + 1 /\ got[l] \in Nat
      /\ UNCHANGED <<sent, up, first, reading, handled>>
      /\ Len(wire') = Len(wire) - 1 /\ Len(wire') \in Nat
      /\ \A k \in 1 .. Len(wire') : wire'[k] = wire[k + 1]
      /\ reading[l] \in {"header", "payload"}
      /\ reading[l] = "payload" \/ got[l] > 0 => header'[1] = header[1]
      /\ reading[l] = "header" /\ got[l] = 0 => header'[1] = wire[1]
  BY WordArrives
<1>2. ASSUME up', NEW m \in first' .. Len(sent')
      PROVE  m \in Range(handled') \/ IsAhead(m)'
  <2>1. m \in first .. Len(sent) /\ up
    BY <1>1, <1>2
  <2>2. due # 0
    BY <2>1, ClaimedIsSound
  <2>3. wire[1] = Word(due, Position(l) + 1) /\ Running = {l} /\ LoopInv(l)
    BY <1>1, <2>2, WordIsDue, Alone
  <2>4. header'[1].msg = due /\ l \in Running' /\ got'[l] > 0
    <3>1. l \in Running' /\ got'[l] > 0
      BY <1>1 DEF Running
    <3>2. CASE reading[l] = "header" /\ got[l] = 0
      BY <1>1, <2>3, <3>1, <3>2 DEF Word
    <3>3. CASE reading[l] = "payload" \/ got[l] > 0
      <4>1. Position(l) >= 1 /\ 1 \in 1 .. HeaderSize
        BY <1>1, <3>3 DEF Position
      <4>2. header[1] = Word(due, 1)
        BY <2>3, <4>1 DEF LoopInv
      <4> QED  BY <1>1, <3>1, <3>3, <4>2 DEF Word
    <3> QED  BY <1>1, <3>2, <3>3
  <2>5. CASE m = due
    BY <2>4, <2>5 DEF IsAhead
  <2>6. CASE m # due
    <3>1. m \in Range(handled) \/ IsAhead(m)
      BY <2>1 DEF NothingIsSkipped
    <3>2. ASSUME NEW k \in 1 .. Len(wire), wire[k].msg = m
          PROVE  \E j \in 1 .. Len(wire') : wire'[j].msg = m
      <4>1. k # 1
        BY <2>3, <2>6, <3>2 DEF Word
      <4>2. k - 1 \in 1 .. Len(wire') /\ (k - 1) + 1 = k
        BY <1>1, <4>1
      <4>3. wire'[k - 1] = wire[(k - 1) + 1]
        BY <1>1, <4>2
      <4>4. wire'[k - 1].msg = m
        BY <3>2, <4>2, <4>3
      <4> QED  BY <4>2, <4>4
    <3>3. ASSUME header[1].msg = m, NEW j \in Running, reading[j] = "payload" \/ got[j] > 0
          PROVE  FALSE
      <4>1. j = l
        BY <2>3
      <4>2. Position(l) >= 1 /\ 1 \in 1 .. HeaderSize
        BY <1>1, <3>3, <4>1 DEF Position
      <4>3. header[1] = Word(due, 1)
        BY <2>3, <4>2 DEF LoopInv
      <4> QED  BY <2>6, <3>3, <4>3 DEF Word
    <3> QED  BY <1>1, <3>1, <3>2, <3>3 DEF IsAhead
  <2> QED  BY <2>5, <2>6
<1> QED  BY <1>2 DEF NothingIsSkipped

LEMMA HeaderKeeps ==
  ASSUME StreamInv, NothingIsSkipped, NEW l \in Loops, HeaderReceived(l)
  PROVE  NothingIsSkipped'
<1> USE Basics
<1>1. /\ reading[l] = "header" /\ got[l] = wanted[l] /\ l \in Running
      /\ UNCHANGED <<sent, wire, up, first, header, handled>>
  BY DEF HeaderReceived, Complete, streamVars, Running
<1>2. Position(l) = HeaderSize
  BY <1>1 DEF Position, StreamInv, TypeOK
<1>3. ASSUME up', NEW m \in first' .. Len(sent')
      PROVE  m \in Range(handled') \/ IsAhead(m)'
  <2>1. m \in first .. Len(sent) /\ up
    BY <1>1, <1>3
  <2>2. due # 0
    BY <2>1, ClaimedIsSound
  <2>3. IsHeader /\ Announced = {sent[due]} /\ due \in 1 .. Len(sent)
    BY <1>1, <1>2, <2>2, HeaderIsDue
  <2>4. Read(l, "payload", sent[due])
    BY <2>3 DEF HeaderReceived, IsValid
  <2>5. reading'[l] = "payload"
    <3>1. sent[due] \in Nat
      BY <2>3
    <3> QED  BY <2>4, <3>1, ReadType
  <2>6. l \in Running'
    BY <2>5 DEF Running
  <2>7. m \in Range(handled) \/ IsAhead(m)
    BY <2>1 DEF NothingIsSkipped
  <2> QED  BY <1>1, <2>5, <2>6, <2>7 DEF IsAhead
<1> QED  BY <1>3 DEF NothingIsSkipped

LEMMA DataKeeps ==
  ASSUME StreamInv, NothingIsSkipped, NEW l \in Loops, DataReceived(l)
  PROVE  NothingIsSkipped'
<1> USE Basics
<1>1. UNCHANGED <<sent, wire, up, first, header>>
  BY DEF DataReceived, streamVars
<1>2. ASSUME up', NEW m \in first' .. Len(sent')
      PROVE  m \in Range(handled') \/ IsAhead(m)'
  <2>1. m \in first .. Len(sent) /\ up
    BY <1>1, <1>2
  <2>2. due # 0
    BY <2>1, ClaimedIsSound
  <2>3. handled' = Append(handled, header[1].msg) /\ header[1].msg \in 0 .. MaxSent
    BY <2>1, <2>2, Handles
  <2>4. /\ Len(handled') = Len(handled) + 1 /\ handled'[Len(handled) + 1] = header[1].msg
        /\ \A j \in 1 .. Len(handled) : handled'[j] = handled[j]
    BY <2>3
  <2>5. DOMAIN handled' = 1 .. Len(handled') /\ DOMAIN handled = 1 .. Len(handled)
    <3>1. handled' \in Seq(0 .. MaxSent)
      BY <2>3
    <3> QED  BY <3>1
  <2>6. header[1].msg \in Range(handled')
    <3>1. Len(handled) + 1 \in DOMAIN handled'
      BY <2>4, <2>5
    <3> QED  BY <2>4, <3>1 DEF Range
  <2>7. m \in Range(handled) => m \in Range(handled')
    <3>1. ASSUME NEW j \in DOMAIN handled  PROVE j \in DOMAIN handled' /\ handled'[j] = handled[j]
      BY <2>4, <2>5
    <3> QED  BY <3>1 DEF Range
  <2>8. m \in Range(handled) \/ IsAhead(m)
    BY <2>1 DEF NothingIsSkipped
  <2> QED  BY <1>1, <2>6, <2>7, <2>8 DEF IsAhead
<1> QED  BY <1>2 DEF NothingIsSkipped

LEMMA FailKeeps ==
  ASSUME StreamInv, NothingIsSkipped, NEW l \in Loops, HeaderFails(l)
  PROVE  NothingIsSkipped'
<1>1. UNCHANGED <<sent, up, first>> /\ (due # 0 => ~up)
  BY FailStep DEF HeaderFails, streamVars
<1>2. ASSUME up', NEW m \in first' .. Len(sent')  PROVE FALSE
  <2>1. m \in first .. Len(sent)
    BY <1>1
  <2> QED  BY <1>1, <1>2, <2>1, ClaimedIsSound
<1> QED  BY <1>2 DEF NothingIsSkipped

(* Every message sent on a sound connection that holds was handled or is   *)
(* still to be, for any sizes and wherever the connections before broke.   *)
THEOREM NothingSkipped == Spec => []NothingIsSkipped
<1>1. Init => NothingIsSkipped
  <2>1. Init => first = 1 /\ Len(sent) = 0
    BY DEF Init
  <2> QED  BY <2>1 DEF NothingIsSkipped
<1>2. ASSUME StreamInv, NothingIsSkipped, [Next]_vars  PROVE NothingIsSkipped'
  <2>1. CASE Break
    BY <1>2, <2>1, WireIsCut DEF NothingIsSkipped
  <2>2. CASE UNCHANGED vars
    BY <1>2, <2>2 DEF vars, streamVars, clientVars, loopVars, NothingIsSkipped, IsAhead, Running
  <2> QED
    BY <1>2, <2>1, <2>2, SendsKeeps, ReconnectKeeps, ReceiveKeeps, HeaderKeeps, DataKeeps, FailKeeps
       DEF Next, Handle
<1>3. StreamInv /\ NothingIsSkipped /\ [Next]_vars => NothingIsSkipped'
  BY <1>2
<1> QED  BY <1>1, <1>3, StreamInvAlways, PTL DEF Spec

-------------------------------------------------------------------------------
(* Each step of the reception is a step of the channel, or leaves what the *)
(* channel sees unchanged.                                                 *)
LEMMA ChannelDelivers ==
  ASSUME StreamInv, NEW l \in Loops, DataReceived(l)
  PROVE  \/ \E m \in 1 .. Len(sent) : Channel!Deliver(m)
         \/ UNCHANGED Channel!vars
<1> DEFINE m == header[1].msg
<1>1. UNCHANGED <<sent, up>>
  BY DEF DataReceived, streamVars
<1>2. /\ m \in 1 .. Len(sent)
      /\ \/ handled' = handled /\ due' = due
         \/ /\ handled' = Append(handled, m)
            /\ due' = IF due # 0 THEN m + 1 ELSE 0
            /\ due # 0 => m = due
  BY Handles
<1>3. CASE handled' = handled /\ due' = due
  BY <1>1, <1>3 DEF Channel!vars
<1>4. CASE /\ handled' = Append(handled, m)
           /\ due' = IF due # 0 THEN m + 1 ELSE 0
           /\ due # 0 => m = due
  <2>1. due # 0 => \A i \in 1 .. Len(handled) : handled[i] < due
    BY DEF StreamInv, SoundInv
  <2> HIDE DEF m
  <2>2. Channel!Deliver(m)
    BY <1>1, <1>4, <2>1 DEF Channel!Deliver
  <2> QED  BY <1>2, <2>2
<1> QED  BY <1>2, <1>3, <1>4

LEMMA ChannelStep ==
  ASSUME StreamInv, [Next]_vars
  PROVE  [Channel!Next]_(Channel!vars)
<1>1. ASSUME NEW size \in Sizes, SonarSends(size)
      PROVE  Channel!Send
  BY <1>1, WireGrows DEF SonarSends, clientVars, Channel!Send
<1>2. ASSUME Break
      PROVE  Channel!Break
  BY <1>2, WireIsCut DEF Channel!Break
<1>3. ASSUME NEW l \in Loops, Reconnect(l)
      PROVE  Channel!Reconnect
  <2>1. ~up /\ up' = TRUE /\ UNCHANGED handled
    BY <1>3 DEF Reconnect
  <2>2. ASSUME sent' = sent, due' \in {0, Len(sent) + 1}
        PROVE  Channel!Reconnect
    BY <2>1, <2>2 DEF Channel!Reconnect
  <2>3. ASSUME NEW size \in Sizes, Len(sent) < MaxSent, sent' = Append(sent, size), due' = 0
        PROVE  Channel!Reconnect
    BY <2>1, <2>3, Growth DEF Channel!Reconnect
  <2> QED  BY <1>3, <2>2, <2>3 DEF Reconnect
<1>4. ASSUME NEW l \in Loops, Receive(l) \/ HeaderReceived(l) \/ HeaderFails(l)
      PROVE  UNCHANGED Channel!vars
  BY <1>4 DEF Receive, HeaderReceived, HeaderFails, streamVars, Channel!vars
<1>5. CASE UNCHANGED vars
  BY <1>5 DEF vars, streamVars, clientVars, Channel!vars
<1> QED
  BY <1>1, <1>2, <1>3, <1>4, <1>5, ChannelDelivers DEF Next, Handle, Channel!Next

(* The reception implements the channel: on sound connections in order,    *)
(* once, and without gaps but where a connection ends; on others messages  *)
(* that were sent; for every size of header and of payloads, every number  *)
(* of loops and every way the stream is cut.                               *)
THEOREM ReceptionImplementsChannel == Spec => ImplementsChannel
<1>1. Init => Channel!Init
  BY DEF Init, Channel!Init
<1>2. StreamInv /\ [Next]_vars => [Channel!Next]_(Channel!vars)
  BY ChannelStep
<1> QED
  BY <1>1, <1>2, StreamInvAlways, PTL DEF Spec, ImplementsChannel, Channel!Spec

===============================================================================
