------------------------------ MODULE SonarClient ------------------------------
(***************************************************************************)
(* oculus::SonarClient (src/SonarClient.cpp): the TCP connection to the    *)
(* sonar.  All handlers run on the thread of the io_service, one at a      *)
(* time; send() runs on user threads.  socketMutex_ is taken by send(),    *)
(* over several steps, and by close_connection(), which may have to wait   *)
(* for it in the middle of the watchdog's handler (ioPc = "closing").      *)
(* on_connect() is SonarDriver's, which sends a fire message and waits for *)
(* the same mutex (ioPc = "greeting").                                     *)
(*                                                                         *)
(* Time is abstracted to what the watchdog tests: statusOld (no status for *)
(* more than 5 s) and messageOld (no message for more than 10 s).          *)
(* A reception loop is a chain of async_read calls, each made by the       *)
(* handler of the one before; loop k is started by the k-th connection.    *)
(***************************************************************************)
EXTENDS Naturals, FiniteSets

CONSTANTS Senders,      \* the user threads that call send
          MaxConnects   \* bound: connections made in a behaviour

ASSUME MaxConnectsAssumption == MaxConnects \in Nat \ {0}

VARIABLES
  connState,     \* connectionState_; Initializing ends in the constructor
  link,          \* the object socket_ owns and the state of its connection
  listening,     \* on_first_status is registered with the status listener
  ioPc,          \* where the io thread is
  fate,          \* whether the io thread still runs, or what ended it
  statusOld,     \* time_since_last_status() > 5
  messageOld,    \* time_since_last_message() > 10
  connects,      \* connections made so far, hence loops started
  phase,         \* what loop k is reading
  op,            \* its async_read: pending, or completed and its handler queued
  stale,         \* loops whose queued handler is older than the socket
  sender         \* where a user thread is in send

linkVars == <<link, connects>>
loopVars == <<phase, op, stale>>
ctrlVars == <<connState, listening, ioPc, fate>>
ageVars  == <<statusOld, messageOld>>
vars == <<linkVars, loopVars, ctrlVars, ageVars, sender>>

Loops == 1 .. MaxConnects
Reading == {k \in Loops : phase[k] # "off"}
Dead == {"finished", "reset"}      \* closed by the peer: orderly, or by a reset

TypeOK ==
  /\ connState \in {"Attempt", "Connected", "Lost"}
  /\ link \in {"none", "connecting", "up"} \union Dead
  /\ listening \in BOOLEAN
  /\ ioPc \in {"idle", "closing", "greeting"}
  /\ fate \in {"running", "connectFailure", "sendFailure", "nullSocket"}
  /\ statusOld \in BOOLEAN /\ messageOld \in BOOLEAN
  /\ connects \in 0 .. MaxConnects
  /\ phase \in [Loops -> {"off", "header", "payload"}]
  /\ op \in [Loops -> {"pending", "ok", "fail"}]
  /\ stale \subseteq Loops
  /\ sender \in [Senders -> {"out", "locked", "writing"}]

(* The constructor arms the watchdog and ends in reset_connection().       *)
Init ==
  /\ connState = "Attempt"
  /\ link = "none"
  /\ listening = TRUE
  /\ ioPc = "idle"
  /\ fate = "running"
  /\ statusOld = FALSE /\ messageOld = FALSE
  /\ connects = 0
  /\ phase = [k \in Loops |-> "off"]
  /\ op = [k \in Loops |-> "pending"]
  /\ stale = {}
  /\ sender = [s \in Senders |-> "out"]

IoIdle == fate = "running" /\ ioPc = "idle"

(* Mutant: a socket used without socketMutex_. *)
NoMutex == TRUE
MutexFree == \A s \in Senders : sender[s] = "out"

-------------------------------------------------------------------------------
(* The socket object is destroyed: pending reads are aborted, and the      *)
(* handlers of all reads are in the queue before any later event.          *)
DestroySocket ==
  /\ op' = [k \in Loops |-> IF k \in Reading /\ op[k] = "pending" THEN "fail" ELSE op[k]]
  /\ stale' = Reading
  /\ UNCHANGED phase

(* Mutant: a loop that stops at the first error of its connection. *)
ReadWhileUp == IF link = "up" THEN "header" ELSE "off"

(* initiate_receive() of loop k, on the socket there is now, if any.       *)
ReadAgain == IF link = "none" THEN "off" ELSE "header"

InitiateReceive(k) ==
  /\ phase' = [phase EXCEPT ![k] = ReadAgain]
  /\ op' = [op EXCEPT ![k] = "pending"]
  /\ stale' = stale \ {k}

-------------------------------------------------------------------------------
(* Mutant: on_first_status that stays registered. *)
NeverRemoved == TRUE
StillListening == FALSE

(* on_first_status: stops listening and creates the socket, without the    *)
(* mutex, in place of whatever socket_ still holds.                        *)
OnFirstStatus ==
  /\ listening' = StillListening
  /\ link' = "connecting"
  /\ DestroySocket

(* A status datagram: message_callback of the StatusListener, which resets *)
(* its clock and calls on_first_status if it is registered.                *)
StatusMessage ==
  /\ IoIdle
  /\ statusOld' = FALSE
  /\ \/ listening /\ OnFirstStatus
     \/ ~listening /\ UNCHANGED <<listening, link, loopVars>>
  /\ UNCHANGED <<connState, ioPc, fate, connects, messageOld, sender>>

(* connect_callback without error.  Its completion was queued after those  *)
(* of the reads of the previous socket.                                    *)
ConnectCallback ==
  /\ IoIdle
  /\ link = "connecting"
  /\ stale = {}
  /\ link' = "up"
  /\ messageOld' = FALSE
  /\ connState' = "Connected"
  /\ connects' = connects + 1
  /\ phase' = [phase EXCEPT ![connects + 1] = "header"]
  /\ ioPc' = "greeting"
  /\ UNCHANGED <<listening, fate, statusOld, op, stale, sender>>

(* connect_callback with an error throws through io_service::run.          *)
ConnectFails ==
  /\ IoIdle
  /\ link = "connecting"
  /\ stale = {}
  /\ fate' = "connectFailure"
  /\ UNCHANGED <<connState, listening, ioPc, linkVars, loopVars, ageVars, sender>>

(* The rest of connect_callback: on_connect() sends under the mutex.  A    *)
(* connection the peer has reset makes the send throw, as above.           *)
OnConnect ==
  /\ fate = "running"
  /\ ioPc = "greeting"
  /\ MutexFree
  /\ ioPc' = "idle"
  /\ \/ UNCHANGED fate
     \/ link = "reset" /\ fate' = "sendFailure"
  /\ UNCHANGED <<connState, listening, linkVars, loopVars, ageVars, sender>>

-------------------------------------------------------------------------------
(* An async_read completes: in full with the expected content, or not (an  *)
(* error, fewer bytes, an invalid header; for a payload also a header that *)
(* another loop has overwritten).                                          *)
ReadCompletes(k, outcome) ==
  /\ IoIdle
  /\ k \in Reading
  /\ op[k] = "pending"
  /\ \/ outcome = "ok" /\ link = "up"
     \/ outcome = "fail" /\ (link # "up" \/ phase[k] = "header" \/ Reading # {k})
  /\ op' = [op EXCEPT ![k] = outcome]
  /\ UNCHANGED <<ctrlVars, linkVars, phase, stale, ageVars, sender>>

HeaderReceivedCallback(k) ==
  /\ IoIdle
  /\ phase[k] = "header"
  /\ \/ /\ op[k] = "fail"
        /\ InitiateReceive(k)
        /\ UNCHANGED fate
     \/ /\ op[k] = "ok"
        /\ link # "none"
        /\ phase' = [phase EXCEPT ![k] = "payload"]
        /\ op' = [op EXCEPT ![k] = "pending"]
        /\ stale' = stale \ {k}
        /\ UNCHANGED fate
     \/ /\ op[k] = "ok"                    \* async_read(*socket_) of a null pointer
        /\ link = "none"
        /\ fate' = "nullSocket"
        /\ UNCHANGED loopVars
  /\ UNCHANGED <<connState, listening, ioPc, linkVars, ageVars, sender>>

DataReceivedCallback(k) ==
  /\ IoIdle
  /\ phase[k] = "payload"
  /\ op[k] # "pending"
  /\ messageOld' = IF op[k] = "ok" THEN FALSE ELSE messageOld
  /\ InitiateReceive(k)
  /\ UNCHANGED <<ctrlVars, linkVars, statusOld, sender>>

-------------------------------------------------------------------------------
(* Mutant: a watchdog that gives up once the connection is lost. *)
WatchedIfConnected == connState = "Connected"

(* The watchdog, once a period.  It does nothing in Attempt.               *)
Watched == connState # "Attempt"

CheckStatus ==
  /\ IoIdle
  /\ Watched
  /\ statusOld
  /\ connState' = "Lost"
  /\ UNCHANGED <<listening, ioPc, fate, linkVars, loopVars, ageVars, sender>>

(* Mutant: a reset that goes back to the state before the constructor. *)
BackToInitializing == "Initializing"

(* The beginning of reset_connection(): with a socket, close_connection()  *)
(* goes for the mutex; without one it returns and the client listens.      *)
StateInReset == "Attempt"

CheckMessages ==
  /\ IoIdle
  /\ Watched
  /\ ~statusOld /\ messageOld
  /\ connects < MaxConnects
  /\ connState' = StateInReset
  /\ IF link = "none"
     THEN listening' = TRUE /\ UNCHANGED ioPc
     ELSE ioPc' = "closing" /\ UNCHANGED listening
  /\ UNCHANGED <<fate, linkVars, loopVars, ageVars, sender>>

(* shutdown() reports an error once the peer has reset the connection, and *)
(* close_connection() then returns without closing or releasing socket_.   *)
ShutdownFails == link = "reset"

(* Mutant: a reset that gives up when the old connection is not closed. *)
ListenIfClosed == ~ShutdownFails
ListenAfterClose == TRUE

CloseConnection ==
  /\ fate = "running"
  /\ ioPc = "closing"
  /\ MutexFree
  /\ IF ShutdownFails
     THEN UNCHANGED <<link, loopVars>>
     ELSE link' = "none" /\ DestroySocket
  /\ listening' = ListenAfterClose
  /\ ioPc' = "idle"
  /\ UNCHANGED <<connState, fate, connects, ageVars, sender>>

-------------------------------------------------------------------------------
(* send() on a user thread: lock, test socket_ and the state, write.       *)

SendLock(s) ==
  /\ sender[s] = "out"
  /\ MutexFree
  /\ sender' = [sender EXCEPT ![s] = "locked"]
  /\ UNCHANGED <<ctrlVars, linkVars, loopVars, ageVars>>

SendCheck(s) ==
  /\ sender[s] = "locked"
  /\ sender' = [sender EXCEPT ![s] =
        IF link # "none" /\ connState = "Connected" THEN "writing" ELSE "out"]
  /\ UNCHANGED <<ctrlVars, linkVars, loopVars, ageVars>>

SendReturns(s) ==
  /\ sender[s] = "writing"
  /\ sender' = [sender EXCEPT ![s] = "out"]
  /\ UNCHANGED <<ctrlVars, linkVars, loopVars, ageVars>>

-------------------------------------------------------------------------------
(* The clocks and the peer. *)

StatusAges ==
  /\ ~statusOld
  /\ statusOld' = TRUE
  /\ UNCHANGED <<ctrlVars, linkVars, loopVars, messageOld, sender>>

MessageAges ==
  /\ ~messageOld
  /\ messageOld' = TRUE
  /\ UNCHANGED <<ctrlVars, linkVars, loopVars, statusOld, sender>>

PeerDrops(d) ==
  /\ link \in {"up", "finished"}
  /\ d \in Dead
  /\ link # d
  /\ link' = d
  /\ UNCHANGED <<ctrlVars, connects, loopVars, ageVars, sender>>

-------------------------------------------------------------------------------
Io ==
  \/ StatusMessage \/ ConnectCallback \/ ConnectFails \/ OnConnect
  \/ \E k \in Loops : HeaderReceivedCallback(k) \/ DataReceivedCallback(k)
  \/ CheckStatus \/ CheckMessages \/ CloseConnection

Users == \E s \in Senders : SendLock(s) \/ SendCheck(s) \/ SendReturns(s)

Environment ==
  \/ \E k \in Loops, outcome \in {"ok", "fail"} : ReadCompletes(k, outcome)
  \/ StatusAges \/ MessageAges
  \/ \E d \in Dead : PeerDrops(d)

Next == Io \/ Users \/ Environment

Spec == Init /\ [][Next]_vars

(* The sonar broadcasts its status, an attempted connection succeeds or    *)
(* fails, handlers run, a send returns, and a mutex that is free again and *)
(* again is obtained.  A dead link brings no message.  The watchdog period *)
(* (1 s) is shorter than the 5 s a status stays fresh, so the watchdog     *)
(* runs after a status and before it ages: strong fairness.                *)
Fairness ==
  /\ WF_vars(StatusMessage)
  /\ WF_vars(ConnectCallback \/ ConnectFails)
  /\ \A k \in Loops : WF_vars(HeaderReceivedCallback(k) \/ DataReceivedCallback(k))
  /\ WF_vars(CheckStatus) /\ SF_vars(CheckMessages)
  /\ SF_vars(CloseConnection) /\ SF_vars(OnConnect)
  /\ \A s \in Senders : WF_vars(SendCheck(s)) /\ WF_vars(SendReturns(s))
  /\ WF_vars(link # "up" /\ MessageAges)

FairSpec == Spec /\ Fairness

-------------------------------------------------------------------------------
(* A user thread that writes to the socket does so on the connection it    *)
(* checked: the io thread neither destroys nor replaces the socket under   *)
(* it.  on_first_status creates without the mutex (159); what protects the *)
(* writer is the order state, mutex, socket in reset_connection (118-127). *)
SendSafe ==
  \A s \in Senders : sender[s] = "writing" => link \in {"up"} \union Dead

(* While the state is Attempt the watchdog does nothing (78-81), so the    *)
(* next connection depends on exactly one pending activity: closing the    *)
(* old one, listening for a status, or connecting.  In the other states    *)
(* there is none of them.                                                  *)
Closing == ioPc = "closing"
Connecting == link = "connecting"

ReconnectToken ==
  /\ connState = "Attempt" <=> Closing \/ listening \/ Connecting
  /\ ~(Closing /\ listening) /\ ~(Closing /\ Connecting) /\ ~(listening /\ Connecting)

(* Why SendSafe holds: a writer saw the state Connected, and the io thread *)
(* cannot leave that state further than the wait for the writer's mutex.   *)
SendInv ==
  \A s \in Senders : sender[s] = "writing" =>
     /\ link \in {"up"} \union Dead
     /\ connState # "Attempt" \/ ioPc = "closing"

(* A client that is not attempting to connect has a socket and a loop      *)
(* reading from it, so that data, if any comes, is heard (175, 188, 217).  *)
ConnectionIsRead ==
  connState # "Attempt" => link # "none" /\ connects \in Reading

(* An attempt does not last: the client connects again, whatever the state *)
(* of the old connection and whoever holds the mutex, or ends with an      *)
(* error (116-122, 145-179).                                               *)
AttemptsEnd == connState = "Attempt" ~> connState # "Attempt" \/ fate # "running"

(* A connection the peer has dropped is replaced as long as the sonar      *)
(* broadcasts its status (95-102), even from the state Lost.               *)
DeadLinksAreReplaced ==
  link \in Dead ~> link \notin Dead \/ fate # "running" \/ connects = MaxConnects

-------------------------------------------------------------------------------
(* SonarClient.cpp:175 and 248 speak of the reception loop a connection    *)
(* enters: a connected client has one.                                     *)
SingleReceptionLoop == connState = "Connected" => Cardinality(Reading) <= 1

(* SonarClient.h:49-52 says creation, destruction and read of the socket   *)
(* need no protection because they happen in the same thread: no handler   *)
(* reads from a socket that is gone.                                       *)
NoReadOfANullSocket == fate # "nullSocket"

(* SonarClient.cpp:86-88 does nothing without status because the loss      *)
(* might be recoverable: if statuses and messages are fresh from some      *)
(* point on, and messages keep coming, the client is connected again.      *)
MessageArrived == \E k \in Loops : phase[k] = "payload" /\ op[k] = "ok"

LossIsRecoverable ==
  <>[](~statusOld /\ ~messageOld /\ fate = "running") /\ []<>MessageArrived
    => []<>(connState = "Connected")
===============================================================================
