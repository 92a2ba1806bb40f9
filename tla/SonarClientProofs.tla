--------------------------- MODULE SonarClientProofs ---------------------------
(***************************************************************************)
(* Proofs about SonarClient, for any senders and any number of             *)
(* connections.                                                            *)
(*                                                                         *)
(* ReconnectToken is inductive with the type invariant.  It says that a    *)
(* socket is created or connected only in the state Attempt and not while  *)
(* the watchdog still waits for socketMutex_; SendInv, inductive with it,  *)
(* says that a writer is there only before that.                           *)
(***************************************************************************)
EXTENDS SonarClient, TLAPS

(* The bound on connections is only ever tested by the watchdog: there is  *)
(* room for the connection of a current attempt.                           *)
RoomInv == connState = "Attempt" => connects < MaxConnects

ClientInv == TypeOK /\ RoomInv /\ ReconnectToken /\ SendInv /\ ConnectionIsRead

-------------------------------------------------------------------------------
LEMMA TypeStep ==
  ASSUME TypeOK, RoomInv, ReconnectToken, [Next]_vars
  PROVE  TypeOK'
<1> USE DEF TypeOK, Dead
<1>1. CASE UNCHANGED vars
  BY <1>1 DEF vars, linkVars, loopVars, ctrlVars, ageVars
<1>2. CASE StatusMessage
  BY <1>2 DEF StatusMessage, OnFirstStatus, DestroySocket, StillListening, loopVars, Reading
<1>3. CASE ConnectCallback
  <2>1. connects + 1 \in Loops
    BY <1>3, MaxConnectsAssumption
       DEF ConnectCallback, ReconnectToken, Connecting, RoomInv, Loops
  <2>2. connects + 1 \in 0 .. MaxConnects
    BY <2>1, MaxConnectsAssumption DEF Loops
  <2> QED  BY <1>3, <2>1, <2>2 DEF ConnectCallback
<1>4. CASE ConnectFails
  BY <1>4 DEF ConnectFails, linkVars, loopVars, ageVars
<1>5. CASE OnConnect
  BY <1>5 DEF OnConnect, linkVars, loopVars, ageVars
<1>6. ASSUME NEW k \in Loops, HeaderReceivedCallback(k)
      PROVE  TypeOK'
  BY <1>6 DEF HeaderReceivedCallback, InitiateReceive, ReadAgain, linkVars, loopVars, ageVars
<1>7. ASSUME NEW k \in Loops, DataReceivedCallback(k)
      PROVE  TypeOK'
  BY <1>7 DEF DataReceivedCallback, InitiateReceive, ReadAgain, linkVars, ctrlVars
<1>8. CASE CheckStatus
  BY <1>8 DEF CheckStatus, linkVars, loopVars, ageVars
<1>9. CASE CheckMessages
  BY <1>9 DEF CheckMessages, StateInReset, linkVars, loopVars, ageVars
<1>10. CASE CloseConnection
  BY <1>10 DEF CloseConnection, DestroySocket, ListenAfterClose, Reading, loopVars, ageVars
<1>11. ASSUME NEW s \in Senders, SendLock(s) \/ SendCheck(s) \/ SendReturns(s)
       PROVE  TypeOK'
  BY <1>11 DEF SendLock, SendCheck, SendReturns, linkVars, loopVars, ctrlVars, ageVars
<1>12. ASSUME NEW k \in Loops, NEW outcome \in {"ok", "fail"}, ReadCompletes(k, outcome)
       PROVE  TypeOK'
  BY <1>12 DEF ReadCompletes, linkVars, ctrlVars, ageVars
<1>13. CASE StatusAges \/ MessageAges
  <2>1. UNCHANGED <<linkVars, loopVars, ctrlVars, sender>>
    BY <1>13 DEF StatusAges, MessageAges
  <2>2. statusOld' \in BOOLEAN /\ messageOld' \in BOOLEAN
    BY <1>13 DEF StatusAges, MessageAges
  <2> QED  BY <2>1, <2>2 DEF linkVars, loopVars, ctrlVars
<1>14. ASSUME NEW d \in Dead, PeerDrops(d)
       PROVE  TypeOK'
  <2>1. link' = d
    BY <1>14 DEF PeerDrops
  <2>2. link' \in {"none", "connecting", "up"} \union Dead
    BY <1>14, <2>1
  <2>3. UNCHANGED <<connState, connects, sender, listening, ioPc, fate>>
    BY <1>14 DEF PeerDrops, ctrlVars
  <2>4. UNCHANGED <<phase, op, stale, statusOld, messageOld>>
    BY <1>14 DEF PeerDrops, loopVars, ageVars
  <2> QED  BY <2>2, <2>3, <2>4
<1> QED
  BY <1>1, <1>2, <1>3, <1>4, <1>5, <1>6, <1>7, <1>8, <1>9, <1>10, <1>11, <1>12,
     <1>13, <1>14 DEF Next, Io, Users, Environment

(* Steps that leave the state of the connection, the socket, the listening *)
(* and the io thread alone keep the token.                                 *)
LEMMA TokenStep ==
  ASSUME TypeOK, RoomInv, ReconnectToken, [Next]_vars
  PROVE  RoomInv' /\ ReconnectToken'
<1> USE DEF RoomInv, ReconnectToken, Closing, Connecting, IoIdle
<1> DEFINE Kept == UNCHANGED <<connState, listening, ioPc, link, connects>>
<1>1. Kept => RoomInv' /\ ReconnectToken'
  OBVIOUS
<1>2. CASE UNCHANGED vars
  BY <1>1, <1>2 DEF vars, linkVars, ctrlVars
<1>3. CASE StatusMessage
  BY <1>3 DEF StatusMessage, OnFirstStatus, StillListening
<1>4. CASE ConnectCallback
  BY <1>4 DEF ConnectCallback
<1>5. CASE ConnectFails
  BY <1>1, <1>5 DEF ConnectFails, linkVars
<1>6. CASE OnConnect
  BY <1>6 DEF OnConnect, linkVars
<1>7. ASSUME NEW k \in Loops, HeaderReceivedCallback(k) \/ DataReceivedCallback(k)
      PROVE  Kept
  BY <1>7 DEF HeaderReceivedCallback, DataReceivedCallback, linkVars, ctrlVars
<1>8. CASE CheckStatus
  BY <1>8 DEF CheckStatus, Watched, linkVars
<1>9. CASE CheckMessages
  BY <1>9 DEF CheckMessages, Watched, StateInReset, linkVars
<1>10. CASE CloseConnection
  BY <1>10 DEF CloseConnection, ListenAfterClose
<1>11. ASSUME NEW s \in Senders, SendLock(s) \/ SendCheck(s) \/ SendReturns(s)
       PROVE  Kept
  BY <1>11 DEF SendLock, SendCheck, SendReturns, linkVars, ctrlVars
<1>12. ASSUME NEW k \in Loops, NEW outcome \in {"ok", "fail"}, ReadCompletes(k, outcome)
       PROVE  Kept
  BY <1>12 DEF ReadCompletes, linkVars, ctrlVars
<1>13. CASE StatusAges \/ MessageAges
  BY <1>1, <1>13 DEF StatusAges, MessageAges, linkVars, ctrlVars
<1>14. ASSUME NEW d \in Dead, PeerDrops(d)
       PROVE  RoomInv' /\ ReconnectToken'
  BY <1>14 DEF PeerDrops, ctrlVars, Dead
<1> QED
  BY <1>1, <1>2, <1>3, <1>4, <1>5, <1>6, <1>7, <1>8, <1>9, <1>10, <1>11, <1>12,
     <1>13, <1>14 DEF Next, Io, Users, Environment

(* A writer keeps the connection it checked. *)
LEMMA SendStep ==
  ASSUME TypeOK, ReconnectToken, SendInv, [Next]_vars
  PROVE  SendInv'
<1> USE DEF SendInv, Dead
<1> DEFINE Kept == UNCHANGED <<connState, ioPc, link, sender>>
<1>1. Kept => SendInv'
  OBVIOUS
<1>2. MutexFree /\ UNCHANGED sender => SendInv'
  BY DEF MutexFree
<1>3. CASE UNCHANGED vars
  BY <1>1, <1>3 DEF vars, linkVars, ctrlVars
<1>4. CASE StatusMessage
  <2>1. CASE listening
    <3>1. connState = "Attempt" /\ ioPc # "closing"
      BY <2>1 DEF ReconnectToken, Closing
    <3>2. \A s \in Senders : sender[s] # "writing"
      BY <3>1
    <3> QED  BY <1>4, <3>2 DEF StatusMessage
  <2>2. CASE ~listening
    BY <1>1, <1>4, <2>2 DEF StatusMessage
  <2> QED  BY <2>1, <2>2
<1>5. CASE ConnectCallback
  BY <1>5 DEF ConnectCallback
<1>6. CASE ConnectFails
  BY <1>1, <1>6 DEF ConnectFails, linkVars
<1>7. CASE OnConnect
  BY <1>2, <1>7 DEF OnConnect
<1>8. ASSUME NEW k \in Loops, HeaderReceivedCallback(k) \/ DataReceivedCallback(k)
      PROVE  Kept
  BY <1>8 DEF HeaderReceivedCallback, DataReceivedCallback, linkVars, ctrlVars
<1>9. CASE CheckStatus
  BY <1>9 DEF CheckStatus, linkVars
<1>10. CASE CheckMessages
  BY <1>10 DEF CheckMessages, Watched, IoIdle, linkVars
<1>11. CASE CloseConnection
  BY <1>2, <1>11 DEF CloseConnection
<1>12. ASSUME NEW s \in Senders, SendCheck(s)
       PROVE  SendInv'
  <2>1. /\ UNCHANGED <<connState, ioPc, link>>
        /\ \A r \in Senders \ {s} : sender'[r] = sender[r]
        /\ sender'[s] = "writing" => link # "none" /\ connState = "Connected"
    BY <1>12 DEF SendCheck, ctrlVars, linkVars, TypeOK
  <2>2. connState = "Connected" => link # "connecting"
    BY DEF ReconnectToken, Connecting
  <2> QED  BY <2>1, <2>2 DEF TypeOK
<1>13. ASSUME NEW s \in Senders, SendLock(s) \/ SendReturns(s)
       PROVE  SendInv'
  BY <1>13 DEF SendLock, SendReturns, ctrlVars, linkVars, TypeOK
<1>14. ASSUME NEW k \in Loops, NEW outcome \in {"ok", "fail"}, ReadCompletes(k, outcome)
       PROVE  Kept
  BY <1>14 DEF ReadCompletes, linkVars, ctrlVars
<1>15. CASE StatusAges \/ MessageAges
  BY <1>1, <1>15 DEF StatusAges, MessageAges, linkVars, ctrlVars
<1>16. ASSUME NEW d \in Dead, PeerDrops(d)
       PROVE  SendInv'
  BY <1>16 DEF PeerDrops, ctrlVars
<1> QED
  BY <1>1, <1>3, <1>4, <1>5, <1>6, <1>7, <1>8, <1>9, <1>10, <1>11, <1>12, <1>13,
     <1>14, <1>15, <1>16 DEF Next, Io, Users, Environment

(* The loop started last goes on reading until its connection is closed. *)
LEMMA ReadStep ==
  ASSUME TypeOK, RoomInv, ReconnectToken, ConnectionIsRead, [Next]_vars
  PROVE  ConnectionIsRead'
<1> USE DEF ConnectionIsRead, Reading
<1> DEFINE Kept == UNCHANGED <<connState, link, connects, phase>>
<1>1. Kept => ConnectionIsRead'
  OBVIOUS
<1>2. connState' = "Attempt" => ConnectionIsRead'
  OBVIOUS
<1>3. CASE UNCHANGED vars
  BY <1>1, <1>3 DEF vars, linkVars, ctrlVars, loopVars
<1>4. CASE StatusMessage
  <2>1. CASE listening
    BY <1>2, <1>4, <2>1 DEF StatusMessage, OnFirstStatus, ReconnectToken
  <2>2. CASE ~listening
    BY <1>1, <1>4, <2>2 DEF StatusMessage, loopVars
  <2> QED  BY <2>1, <2>2
<1>5. CASE ConnectCallback
  <2>1. connects + 1 \in Loops
    BY <1>5, MaxConnectsAssumption
       DEF ConnectCallback, ReconnectToken, Connecting, RoomInv, Loops, TypeOK
  <2> QED  BY <1>5, <2>1 DEF ConnectCallback, TypeOK
<1>6. CASE ConnectFails
  BY <1>1, <1>6 DEF ConnectFails, linkVars, loopVars
<1>7. CASE OnConnect
  BY <1>1, <1>7 DEF OnConnect, linkVars, loopVars
<1>8. ASSUME NEW k \in Loops, HeaderReceivedCallback(k)
      PROVE  ConnectionIsRead'
  <2>1. UNCHANGED <<connState, link, connects>>
    BY <1>8 DEF HeaderReceivedCallback, linkVars
  <2>2. link # "none" => phase'[k] # "off"
    BY <1>8 DEF HeaderReceivedCallback, InitiateReceive, ReadAgain, TypeOK
  <2>3. \A j \in Loops \ {k} : phase'[j] = phase[j]
    BY <1>8 DEF HeaderReceivedCallback, InitiateReceive, loopVars, TypeOK
  <2> QED  BY <2>1, <2>2, <2>3
<1>9. ASSUME NEW k \in Loops, DataReceivedCallback(k)
      PROVE  ConnectionIsRead'
  <2>1. UNCHANGED <<connState, link, connects>>
    BY <1>9 DEF DataReceivedCallback, linkVars, ctrlVars
  <2>2. link # "none" => phase'[k] # "off"
    BY <1>9 DEF DataReceivedCallback, InitiateReceive, ReadAgain, TypeOK
  <2>3. \A j \in Loops \ {k} : phase'[j] = phase[j]
    BY <1>9 DEF DataReceivedCallback, InitiateReceive, TypeOK
  <2> QED  BY <2>1, <2>2, <2>3
<1>10. CASE CheckStatus
  BY <1>10 DEF CheckStatus, Watched, linkVars, loopVars
<1>11. CASE CheckMessages
  BY <1>2, <1>11 DEF CheckMessages, StateInReset
<1>12. CASE CloseConnection
  BY <1>2, <1>12 DEF CloseConnection, ReconnectToken, Closing
<1>13. ASSUME NEW s \in Senders, SendLock(s) \/ SendCheck(s) \/ SendReturns(s)
       PROVE  Kept
  BY <1>13 DEF SendLock, SendCheck, SendReturns, linkVars, ctrlVars, loopVars
<1>14. ASSUME NEW k \in Loops, NEW outcome \in {"ok", "fail"}, ReadCompletes(k, outcome)
       PROVE  Kept
  BY <1>14 DEF ReadCompletes, linkVars, ctrlVars
<1>15. CASE StatusAges \/ MessageAges
  BY <1>1, <1>15 DEF StatusAges, MessageAges, linkVars, ctrlVars, loopVars
<1>16. ASSUME NEW d \in Dead, PeerDrops(d)
       PROVE  ConnectionIsRead'
  BY <1>16 DEF PeerDrops, Dead, ctrlVars, loopVars
<1> QED
  BY <1>1, <1>3, <1>4, <1>5, <1>6, <1>7, <1>8, <1>9, <1>10, <1>11, <1>12, <1>13,
     <1>14, <1>15, <1>16 DEF Next, Io, Users, Environment

-------------------------------------------------------------------------------
LEMMA ClientInvAlways == Spec => []ClientInv
<1>1. ASSUME Init  PROVE ClientInv
  <2>1. TypeOK /\ RoomInv
    <3>1. MaxConnects \in Nat /\ 0 < MaxConnects
      BY MaxConnectsAssumption
    <3>2. RoomInv
      BY <1>1, <3>1 DEF Init, RoomInv
    <3>3. listening \in BOOLEAN /\ statusOld \in BOOLEAN /\ messageOld \in BOOLEAN
      BY <1>1, Zenon DEF Init
    <3>4. connects \in 0 .. MaxConnects
      BY <1>1, <3>1 DEF Init
    <3>5. /\ phase \in [Loops -> {"off", "header", "payload"}]
          /\ op \in [Loops -> {"pending", "ok", "fail"}]
          /\ stale \subseteq Loops
          /\ sender \in [Senders -> {"out", "locked", "writing"}]
      BY <1>1 DEF Init
    <3>6. TypeOK
      BY <1>1, <3>3, <3>4, <3>5 DEF Init, TypeOK
    <3> QED  BY <3>2, <3>6
  <2>2. ReconnectToken
    BY <1>1 DEF Init, ReconnectToken, Closing, Connecting
  <2>3. SendInv /\ ConnectionIsRead
    BY <1>1 DEF Init, SendInv, ConnectionIsRead
  <2> QED  BY <2>1, <2>2, <2>3 DEF ClientInv
<1>2. ClientInv /\ [Next]_vars => ClientInv'
  BY TypeStep, TokenStep, SendStep, ReadStep DEF ClientInv
<1> QED  BY <1>1, <1>2, PTL DEF Spec

(* Every reachable state of the client is well typed; in particular the    *)
(* state Initializing is never seen again.                                 *)
THEOREM TypeCorrect == Spec => []TypeOK
<1>1. ClientInv => TypeOK
  BY DEF ClientInv
<1> QED  BY <1>1, ClientInvAlways, PTL

(* In the state Attempt exactly one activity leads to the next connection, *)
(* and in no other state is there one.                                     *)
THEOREM TokenCorrect == Spec => []ReconnectToken
<1>1. ClientInv => ReconnectToken
  BY DEF ClientInv
<1> QED  BY <1>1, ClientInvAlways, PTL

(* No socket is destroyed or replaced under a thread that writes to it.    *)
THEOREM WritersAreSafe == Spec => []SendSafe
<1>1. ClientInv => SendSafe
  BY DEF ClientInv, SendInv, SendSafe
<1> QED  BY <1>1, ClientInvAlways, PTL

(* The inductive form of the above. *)
THEOREM WritersDelayTheReset == Spec => []SendInv
<1>1. ClientInv => SendInv
  BY DEF ClientInv
<1> QED  BY <1>1, ClientInvAlways, PTL

(* A connected client always has a loop that reads its connection.         *)
THEOREM ConnectionAlwaysRead == Spec => []ConnectionIsRead
<1>1. ClientInv => ConnectionIsRead
  BY DEF ClientInv
<1> QED  BY <1>1, ClientInvAlways, PTL
===============================================================================
