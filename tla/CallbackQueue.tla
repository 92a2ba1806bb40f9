----------------------------- MODULE CallbackQueue -----------------------------
(***************************************************************************)
(* oculus::CallbackQueue (include/oculus_driver/CallbackQueue.h): the      *)
(* thread-safe list of callbacks every other component is built on.        *)
(*                                                                         *)
(* The io_service thread, Io, calls the queue with each message; the       *)
(* Waiters are user threads.  mutex_ is only ever held for one step, so    *)
(* add_callback, remove_callback and the copy made by call are atomic.     *)
(* sShotsMutex_ is held by call over several steps (pc = "shots"); every   *)
(* other holder releases it within one step.                               *)
(*                                                                         *)
(* A regular callback may itself use the queue: while pc = "inside" the    *)
(* thread Io is running user code and may start a timed wait of its own.   *)
(***************************************************************************)
EXTENDS Integers, FiniteSets, FiniteSetsExt

CONSTANTS Waiters,          \* user threads that wait for messages
          Io,               \* the thread of the io_service
          InfiniteWaiters,  \* the Waiters that pass timeoutMillis < 0
          Clients,          \* owners of regular callbacks
          MaxWaits          \* bound: waits started by one thread

Threads == Waiters \union {Io}
Tickets == 1 .. MaxWaits

ASSUME IoAssumption == Io \notin Waiters
ASSUME InfiniteAssumption == InfiniteWaiters \subseteq Waiters
ASSUME FiniteAssumption == IsFiniteSet(Threads) /\ IsFiniteSet(Clients)
ASSUME MaxWaitsAssumption == MaxWaits \in Nat

VARIABLES
  callbacks,     \* callbacks_: id -> client
  handle,        \* the id a client keeps from add_callback, or NoId
  snapshot,      \* the local copy of call, less what it has already run
  pc,            \* where Io is in call
  singleShots,   \* singleShots_: id -> <<thread, ticket>>
  shotsLeft,     \* ids of singleShots_ the loop of call has not run yet
  sShotsCalled,  \* sShotsCalled_
  state,         \* where a thread is in add_single_shot
  ticket,        \* how many waits a thread has started
  expired,       \* whether the timeout of its current wait has elapsed
  result,        \* what its last add_single_shot returned
  runs,          \* history: how often the callback of a wait has run
  due,           \* history: clients registered when call took its copy
  served         \* history: clients this call has run

queueVars == <<callbacks, handle>>
callVars  == <<snapshot, pc, shotsLeft, due, served>>
waitVars  == <<state, ticket, expired, result>>
vars == <<queueVars, callVars, waitVars, singleShots, sShotsCalled, runs>>

NoId == -1
Waits == Threads \X Tickets

(* The function f extended, or overridden, with i -> v. *)
Put(f, i, v) == [j \in DOMAIN f \union {i} |-> IF j = i THEN v ELSE f[j]]
Without(f, i) == [j \in DOMAIN f \ {i} |-> f[j]]

(* Mutant of FreshId: does not look whether the id is taken. *)
SizeAsId(ids) == Cardinality(ids)

(* The first id from size() on that is not taken; among size()+1 ids one is free. *)
FreshId(ids) ==
  Min((Cardinality(ids) .. 2 * Cardinality(ids)) \ ids)

TypeOK ==
  /\ callbacks \in [DOMAIN callbacks -> Clients]
  /\ DOMAIN callbacks \subseteq Nat /\ IsFiniteSet(DOMAIN callbacks)
  /\ handle \in [Clients -> Nat \union {NoId}]
  /\ snapshot \in [DOMAIN snapshot -> Clients]
  /\ pc \in {"idle", "callbacks", "inside", "shots", "notify"}
  /\ singleShots \in [DOMAIN singleShots -> Waits]
  /\ DOMAIN singleShots \subseteq Nat /\ IsFiniteSet(DOMAIN singleShots)
  /\ shotsLeft \subseteq DOMAIN singleShots
  /\ sShotsCalled \in BOOLEAN
  /\ state \in [Threads -> {"out", "waiting", "woken"}]
  /\ ticket \in [Threads -> 0 .. MaxWaits]
  /\ expired \in [Threads -> BOOLEAN]
  /\ result \in [Threads -> {"none", "called", "timeout"}]
  /\ runs \in [Waits -> Nat]
  /\ due \subseteq Clients
  /\ served \subseteq Clients

(* sShotsCalled_ is not initialised by the constructor: either value. *)
Init ==
  /\ callbacks = << >>
  /\ handle = [c \in Clients |-> NoId]
  /\ snapshot = << >>
  /\ pc = "idle"
  /\ singleShots = << >>
  /\ shotsLeft = {}
  /\ sShotsCalled \in BOOLEAN
  /\ state = [t \in Threads |-> "out"]
  /\ ticket = [t \in Threads |-> 0]
  /\ expired = [t \in Threads |-> FALSE]
  /\ result = [t \in Threads |-> "none"]
  /\ runs = [w \in Waits |-> 0]
  /\ due = {}
  /\ served = {}

-------------------------------------------------------------------------------
(* Regular callbacks, from any thread, callbacks included. *)

AddCallback(c) ==
  /\ handle[c] = NoId
  /\ LET newId == FreshId(DOMAIN callbacks)
     IN  /\ callbacks' = Put(callbacks, newId, c)
         /\ handle' = [handle EXCEPT ![c] = newId]
  /\ UNCHANGED <<callVars, waitVars, singleShots, sShotsCalled, runs>>

RemoveCallback(c) ==
  /\ handle[c] # NoId
  /\ callbacks' = Without(callbacks, handle[c])
  /\ handle' = [handle EXCEPT ![c] = NoId]
  /\ UNCHANGED <<callVars, waitVars, singleShots, sShotsCalled, runs>>

-------------------------------------------------------------------------------
(* call, on the io thread. *)

(* Mutants: a loop that skips callbacks removed meanwhile, a call that does *)
(* not lock sShotsMutex_, one that stops early, one that does not clear.    *)
StillRegistered == DOMAIN snapshot \intersect DOMAIN callbacks
NoShotsMutex == TRUE
ShotsNotAwaited == TRUE
NotCleared == singleShots

(* Ids of the copy that the loop of call has not reached yet. *)
Pending == DOMAIN snapshot

ShotsMutexFree == pc # "shots"
ShotsAllRun == shotsLeft = {}

(* singleShots_ after clear(). *)
Cleared == << >>

BeginCall ==
  /\ pc = "idle"
  /\ snapshot' = callbacks
  /\ due' = {callbacks[i] : i \in DOMAIN callbacks}
  /\ served' = {}
  /\ pc' = "callbacks"
  /\ UNCHANGED <<queueVars, waitVars, singleShots, shotsLeft, sShotsCalled, runs>>

RunCallback(i) ==
  /\ pc = "callbacks"
  /\ i \in Pending
  /\ snapshot' = Without(snapshot, i)
  /\ served' = served \union {snapshot[i]}
  /\ pc' = "inside"
  /\ UNCHANGED <<queueVars, waitVars, singleShots, shotsLeft, sShotsCalled, runs, due>>

CallbackReturns ==
  /\ pc = "inside"
  /\ state[Io] = "out"
  /\ pc' = "callbacks"
  /\ UNCHANGED <<queueVars, waitVars, singleShots, snapshot, shotsLeft,
                 sShotsCalled, runs, due, served>>

LockShots ==
  /\ pc = "callbacks"
  /\ Pending = {}
  /\ shotsLeft' = DOMAIN singleShots
  /\ pc' = "shots"
  /\ UNCHANGED <<queueVars, waitVars, singleShots, snapshot, sShotsCalled,
                 runs, due, served>>

RunShot(i) ==
  /\ pc = "shots"
  /\ i \in shotsLeft
  /\ shotsLeft' = shotsLeft \ {i}
  /\ runs' = [runs EXCEPT ![singleShots[i]] = @ + 1]
  /\ UNCHANGED <<queueVars, waitVars, singleShots, snapshot, pc, sShotsCalled, due, served>>

ClearShots ==
  /\ pc = "shots"
  /\ ShotsAllRun
  /\ singleShots' = Cleared
  /\ sShotsCalled' = TRUE
  /\ pc' = "notify"
  /\ UNCHANGED <<queueVars, waitVars, snapshot, shotsLeft, runs, due, served>>

NotifyAll ==
  /\ pc = "notify"
  /\ state' = [t \in Threads |-> IF state[t] = "waiting" THEN "woken" ELSE state[t]]
  /\ pc' = "idle"
  /\ UNCHANGED <<queueVars, ticket, expired, result, singleShots, snapshot,
                 shotsLeft, sShotsCalled, runs, due, served>>

-------------------------------------------------------------------------------
(* add_single_shot. *)

(* Mutants: a registration that leaves the flag alone, a wait without its  *)
(* predicate, one without its timeout.                                     *)
FlagLeftAlone == sShotsCalled
WokenIsAnswered == TRUE
NoTimeout(t) == FALSE

(* The flag as a registration leaves it. *)
FlagOnRegister == FALSE

(* The predicate of the wait, and whether its deadline ended it. *)
Answered == sShotsCalled
TimedOut(t) == expired[t]

(* Locks, clears the flag, stores the callback and starts to wait, which   *)
(* releases the mutex.                                                     *)
Register(t) ==
  /\ state[t] = "out"
  /\ t = Io => pc = "inside"
  /\ ShotsMutexFree
  /\ ticket[t] < MaxWaits
  /\ ticket' = [ticket EXCEPT ![t] = @ + 1]
  /\ sShotsCalled' = FlagOnRegister
  /\ singleShots' = Put(singleShots, FreshId(DOMAIN singleShots), <<t, ticket[t] + 1>>)
  /\ state' = [state EXCEPT ![t] = "waiting"]
  /\ expired' = [expired EXCEPT ![t] = FALSE]
  /\ result' = [result EXCEPT ![t] = "none"]
  /\ UNCHANGED <<queueVars, callVars, runs>>

Expire(t) ==
  /\ t \notin InfiniteWaiters
  /\ state[t] # "out"
  /\ ~expired[t]
  /\ expired' = [expired EXCEPT ![t] = TRUE]
  /\ UNCHANGED <<queueVars, callVars, singleShots, sShotsCalled, state, ticket,
                 result, runs>>

(* The wait ends at its deadline, or spuriously. *)
WakeUp(t) ==
  /\ state[t] = "waiting"
  /\ state' = [state EXCEPT ![t] = "woken"]
  /\ UNCHANGED <<queueVars, callVars, singleShots, sShotsCalled, ticket, expired,
                 result, runs>>

(* The woken thread has the mutex again and evaluates the predicate. *)
Reacquire(t) ==
  /\ state[t] = "woken"
  /\ ShotsMutexFree
  /\ \/ /\ Answered
        /\ state' = [state EXCEPT ![t] = "out"]
        /\ result' = [result EXCEPT ![t] = "called"]
     \/ /\ ~Answered /\ TimedOut(t)
        /\ state' = [state EXCEPT ![t] = "out"]
        /\ result' = [result EXCEPT ![t] = "timeout"]
     \/ /\ ~Answered /\ ~TimedOut(t)
        /\ state' = [state EXCEPT ![t] = "waiting"]
        /\ UNCHANGED result
  /\ UNCHANGED <<queueVars, callVars, singleShots, sShotsCalled, ticket, expired, runs>>

-------------------------------------------------------------------------------
CallStep ==
  \/ \E i \in Pending : RunCallback(i)
  \/ CallbackReturns
  \/ LockShots
  \/ \E i \in shotsLeft : RunShot(i)
  \/ ClearShots
  \/ NotifyAll

Next ==
  \/ \E c \in Clients : AddCallback(c) \/ RemoveCallback(c)
  \/ BeginCall
  \/ CallStep
  \/ \E t \in Threads : Register(t) \/ Expire(t) \/ WakeUp(t) \/ Reacquire(t)

Spec == Init /\ [][Next]_vars

(* A call that has begun proceeds and user callbacks return; a deadline    *)
(* passes and ends its wait; a thread that keeps finding sShotsMutex_ free *)
(* gets it in the end.  Messages, hence calls, may stop coming.            *)
Fairness ==
  /\ WF_vars(CallStep)
  /\ \A t \in Threads : /\ WF_vars(Expire(t))
                        /\ WF_vars(expired[t] /\ WakeUp(t))
                        /\ SF_vars(Reacquire(t))

FairSpec == Spec /\ Fairness

-------------------------------------------------------------------------------
(* Every client that holds an id from add_callback is found at that id and *)
(* nowhere else, whatever ids were freed and reused in between             *)
(* (add_callback 82-87, remove_callback 94).                               *)
HandlesAreOwned ==
  /\ \A c \in Clients : handle[c] # NoId => /\ handle[c] \in DOMAIN callbacks
                                          /\ callbacks[handle[c]] = c
  /\ \A i \in DOMAIN callbacks : handle[callbacks[i]] = i

(* A message reaches exactly the clients registered when call copied the   *)
(* list, even if callbacks add or remove callbacks meanwhile (132-142).    *)
MessageReachesTheCopy ==
  /\ served \subseteq due
  /\ pc \in {"shots", "notify"} => served = due

(* The callback of a single shot runs at most once, and a registered one   *)
(* is either still stored or has run: no interleaving of registrations and *)
(* calls loses or repeats it (146-151).                                    *)
RunsAtMostOnce == \A w \in Waits : runs[w] <= 1

NoShotIsLost ==
  \A t \in Threads : \A n \in 1 .. ticket[t] :
     \/ runs[<<t, n>>] = 1
     \/ \E i \in DOMAIN singleShots : singleShots[i] = <<t, n>>

(* add_single_shot returns true only if the callback of this very wait has *)
(* run, though one boolean serves every waiting thread (107, 115-123).     *)
CalledMeansRan ==
  \A t \in Threads :
     state[t] = "out" /\ result[t] = "called" => runs[<<t, ticket[t]>>] = 1

(* Why the two hold.  While the flag is up nothing is stored, so a thread  *)
(* that finds it up cannot be taking the answer meant for a later          *)
(* registration; and a stored callback has not run, unless the loop of     *)
(* call, which holds the mutex until it clears the list, has passed it.    *)
ShotsInv ==
  /\ sShotsCalled => DOMAIN singleShots = {}
  /\ pc # "shots" => shotsLeft = {}
  /\ \A i \in DOMAIN singleShots :
       /\ singleShots[i][2] <= ticket[singleShots[i][1]]
       /\ runs[singleShots[i]] = IF pc = "shots" /\ i \notin shotsLeft THEN 1 ELSE 0
       /\ \A j \in DOMAIN singleShots : singleShots[i] = singleShots[j] => i = j
  /\ \A t \in Threads : /\ state[t] # "out" => ticket[t] > 0
                        /\ \A n \in Tickets : n > ticket[t] => runs[<<t, n>>] = 0

(* Every timed wait returns, in whatever thread, also from inside a        *)
(* callback, where no message can come (118-121).                          *)
TimedWaitsReturn ==
  \A t \in Threads \ InfiniteWaiters : state[t] # "out" ~> state[t] = "out"

(* The promise of add_single_shot, as the abstract specification says it.  *)
Ran == {w \in Waits : runs[w] > 0}

Promise == INSTANCE SingleShot WITH
  queued  <- {w \in Waits : w[2] <= ticket[w[1]]} \ Ran,
  ran     <- Ran,
  current <- ticket,
  blocked <- {t \in Threads : state[t] # "out"},
  answer  <- result

ImplementsPromise == Promise!Spec

-------------------------------------------------------------------------------
(* CallbackQueue.h:102-106 says sShotsCalled_ keeps its value until all    *)
(* registered single shots have returned: the flag is not lowered while a  *)
(* thread whose callback has run is still inside add_single_shot.          *)
FlagRetained ==
  [][ sShotsCalled /\ ~sShotsCalled' =>
        \A t \in Threads : state[t] # "out" => runs[<<t, ticket[t]>>] = 0 ]_vars

(* SonarDriver.h:95 calls on_next_message and its kin synchronous          *)
(* functions that wait for the next message: the callback, which captures  *)
(* locals of its caller (SonarDriver.cpp:77-84), only runs while that call *)
(* is still in progress.                                                   *)
ShotsRunWithinTheWait ==
  [][ \A t \in Threads, n \in Tickets :
        runs'[<<t, n>>] > runs[<<t, n>>] => state[t] # "out" /\ ticket[t] = n ]_vars
===============================================================================
