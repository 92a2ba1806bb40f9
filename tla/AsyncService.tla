------------------------------ MODULE AsyncService ------------------------------
(***************************************************************************)
(* oculus::AsyncService (src/AsyncService.cpp): the thread that runs the   *)
(* io_service, started and stopped by user threads, or by a handler on the *)
(* io thread itself.  isRunning_ and thread_ have no lock, so each test    *)
(* and each assignment is a step (a test that only throws goes with what   *)
(* it guards).                                                             *)
(*                                                                         *)
(* When the service belongs to an OculusPythonHandle (python), start and   *)
(* stop are called with the GIL and keep it until they return, and the     *)
(* callbacks take it (python/src/oculus_python.cpp).                       *)
(***************************************************************************)
EXTENDS Integers

CONSTANTS Users,      \* the threads that start and stop the service
          NoOne,
          MaxStarts   \* bound: threads created

Runners == 1 .. MaxStarts
Callers == Users \union Runners      \* a runner calls from a handler
None == 0

ASSUME CallersAssumption == Users \intersect Runners = {} /\ NoOne \notin Callers
ASSUME MaxStartsAssumption == MaxStarts \in Nat

VARIABLES
  python,      \* whether callers and callbacks need the GIL
  gil,         \* who has it
  isRunning,   \* isRunning_
  stopped,     \* service_->stopped()
  thread,      \* thread_: the runner it is, or None when not joinable
  runner,      \* the threads created: what each of them does
  created,     \* how many there are
  pc,          \* where a caller is in start or stop
  fresh,       \* the temporary std::thread of a caller in start: its runner
  terminated,  \* std::terminate was called
  overlapped   \* history: whether two calls were ever under way together

serviceVars == <<isRunning, stopped, thread>>
runnerVars == <<runner, created>>
vars == <<serviceVars, runnerVars, python, gil, pc, fresh, terminated, overlapped>>

Starting == {"reset", "spawn", "assign", "mark"}
Stopping == {"halt", "join", "unmark"}

Live(r) == runner[r] \in {"polling", "wantsGil", "handler"}

TypeOK ==
  /\ python \in BOOLEAN /\ gil \in Callers \union {NoOne}
  /\ isRunning \in BOOLEAN /\ stopped \in BOOLEAN
  /\ thread \in {None} \union Runners
  /\ runner \in [Runners -> {"unborn", "polling", "wantsGil", "handler", "ended"}]
  /\ created \in 0 .. MaxStarts
  /\ pc \in [Callers -> {"out"} \union Starting \union Stopping]
  /\ fresh \in [Callers -> {None} \union Runners]
  /\ terminated \in BOOLEAN /\ overlapped \in BOOLEAN
  /\ gil \in Runners => runner[gil] = "handler"

Init ==
  /\ python \in BOOLEAN /\ gil = NoOne
  /\ isRunning = FALSE /\ stopped = FALSE /\ thread = None
  /\ runner = [r \in Runners |-> "unborn"] /\ created = 0
  /\ pc = [c \in Callers |-> "out"] /\ fresh = [c \in Callers |-> None]
  /\ terminated = FALSE /\ overlapped = FALSE

-------------------------------------------------------------------------------
(* start and stop. *)

(* A call begins: in Python the caller has the GIL, in a callback already. *)
Enter(c, to) ==
  /\ pc[c] = "out"
  /\ IF c \in Runners THEN runner[c] = "handler" /\ UNCHANGED gil
     ELSE IF python THEN gil = NoOne /\ gil' = c
     ELSE UNCHANGED gil
  /\ pc' = [pc EXCEPT ![c] = to]
  /\ overlapped' = (overlapped \/ \E d \in Callers \ {c} : pc[d] # "out")
  /\ UNCHANGED <<serviceVars, runnerVars, python, fresh, terminated>>

Return(c) ==
  /\ pc' = [pc EXCEPT ![c] = "out"]
  /\ gil' = IF gil = c /\ c \in Users THEN NoOne ELSE gil

MayStart == ~isRunning

BeginStart(c) ==
  /\ MayStart
  /\ created < MaxStarts
  /\ Enter(c, "reset")

Reset(c) ==
  /\ pc[c] = "reset"
  /\ stopped' = FALSE
  /\ pc' = [pc EXCEPT ![c] = "spawn"]
  /\ UNCHANGED <<isRunning, thread, runnerVars, python, gil, fresh, terminated, overlapped>>

(* thread_ = std::thread(...): the right side starts a thread, which is in *)
(* io_service::run from now on, and then the assignment looks at thread_.  *)
Create(c) ==
  /\ pc[c] = "spawn"
  /\ created < MaxStarts
  /\ created' = created + 1
  /\ runner' = [runner EXCEPT ![created + 1] = "polling"]
  /\ fresh' = [fresh EXCEPT ![c] = created + 1]
  /\ pc' = [pc EXCEPT ![c] = "assign"]
  /\ UNCHANGED <<serviceVars, python, gil, terminated, overlapped>>

(* Mutant: the old thread is let go of. *)
LetGo == FALSE

(* Assigning to a std::thread that is joinable terminates the program.     *)
StillJoinable == thread # None

Assign(c) ==
  /\ pc[c] = "assign"
  /\ IF StillJoinable
       THEN terminated' = TRUE /\ UNCHANGED <<thread, fresh, pc>>
       ELSE /\ thread' = fresh[c]
            /\ fresh' = [fresh EXCEPT ![c] = None]
            /\ pc' = [pc EXCEPT ![c] = "mark"]
            /\ UNCHANGED terminated
  /\ UNCHANGED <<isRunning, stopped, runnerVars, python, gil, overlapped>>

(* start throws if its thread has been joined meanwhile. *)
Mark(c) ==
  /\ pc[c] = "mark"
  /\ isRunning' = (isRunning \/ thread # None)
  /\ Return(c)
  /\ UNCHANGED <<stopped, thread, runnerVars, python, fresh, terminated, overlapped>>

BeginStop(c) ==
  /\ isRunning
  /\ Enter(c, "halt")

(* Mutant: stop joins a service that goes on. *)
NotHalted == stopped

Halted == TRUE

Halt(c) ==
  /\ pc[c] = "halt"
  /\ stopped' = Halted
  /\ pc' = [pc EXCEPT ![c] = "join"]
  /\ UNCHANGED <<isRunning, thread, runnerVars, python, gil, fresh, terminated, overlapped>>

(* join throws if there is nothing to join or the thread would join        *)
(* itself; stop is left with isRunning_ still up.                          *)
JoinFails(c) == thread = None \/ c = thread

(* Mutant: a thread is taken for ended once the service is stopped. *)
StoppedIsEnded == stopped

ThreadEnded == runner[thread] = "ended"

Join(c) ==
  /\ pc[c] = "join"
  /\ \/ /\ JoinFails(c)
        /\ Return(c)
        /\ UNCHANGED thread
     \/ /\ ~JoinFails(c)
        /\ ThreadEnded
        /\ thread' = None
        /\ pc' = [pc EXCEPT ![c] = "unmark"]
        /\ UNCHANGED gil
  /\ UNCHANGED <<isRunning, stopped, runnerVars, python, fresh, terminated, overlapped>>

(* stop throws if a thread has been assigned meanwhile. *)
Unmark(c) ==
  /\ pc[c] = "unmark"
  /\ isRunning' = (isRunning /\ thread # None)
  /\ Return(c)
  /\ UNCHANGED <<stopped, thread, runnerVars, python, fresh, terminated, overlapped>>

-------------------------------------------------------------------------------
(* io_service::run on the threads created. *)

Becomes(r, from, to) == runner[r] = from /\ runner' = [runner EXCEPT ![r] = to]

TakeHandler(r) ==
  /\ ~stopped
  /\ Becomes(r, "polling", IF python THEN "wantsGil" ELSE "handler")
  /\ UNCHANGED <<serviceVars, created, python, gil, pc, fresh, terminated, overlapped>>

(* PyGILState_Ensure in the wrapper of a Python callback. *)
TakeGil(r) ==
  /\ gil = NoOne
  /\ gil' = r
  /\ Becomes(r, "wantsGil", "handler")
  /\ UNCHANGED <<serviceVars, created, python, pc, fresh, terminated, overlapped>>

(* Mutant: the wrapper returns without PyGILState_Release.                 *)
NotReleased(r) == gil

Released(r) == IF gil = r THEN NoOne ELSE gil

HandlerReturns(r) ==
  /\ pc[r] = "out"
  /\ Becomes(r, "handler", "polling")
  /\ gil' = Released(r)
  /\ UNCHANGED <<serviceVars, created, python, pc, fresh, terminated, overlapped>>

(* What a handler throws leaves the thread's function. *)
HandlerThrows(r) ==
  /\ pc[r] = "out"
  /\ runner[r] = "handler"
  /\ terminated' = TRUE
  /\ UNCHANGED <<serviceVars, runnerVars, python, gil, pc, fresh, overlapped>>

(* run returns: the service was stopped, or has no work left. *)
RunReturns(r) ==
  /\ Becomes(r, "polling", "ended")
  /\ stopped' = TRUE
  /\ UNCHANGED <<isRunning, thread, created, python, gil, pc, fresh, terminated, overlapped>>

-------------------------------------------------------------------------------
CallStep(c) ==
  Reset(c) \/ Create(c) \/ Assign(c) \/ Mark(c) \/ Halt(c) \/ Join(c) \/ Unmark(c)
RunStep(r) == (stopped /\ RunReturns(r)) \/ TakeGil(r) \/ HandlerReturns(r)

Next ==
  /\ ~terminated
  /\ \/ \E c \in Callers : BeginStart(c) \/ BeginStop(c) \/ CallStep(c)
     \/ \E r \in Runners : TakeHandler(r) \/ HandlerThrows(r) \/ RunReturns(r) \/ RunStep(r)

(* The threads run, callbacks return, and the GIL is given in turn.        *)
Spec == Init /\ [][Next]_vars
Fairness ==
  /\ \A c \in Callers : WF_vars(~terminated /\ CallStep(c))
  /\ \A r \in Runners : SF_vars(~terminated /\ RunStep(r))

FairSpec == Spec /\ Fairness

-------------------------------------------------------------------------------
(* The handlers of the library run on two threads only while calls of      *)
(* start and stop overlap, and only until one of these starts assigns its  *)
(* thread, which ends the program unless the other thread was joined: the  *)
(* client has no lock between its handlers (SonarClient.h:49-52).          *)
OneRunner ==
  \A r, s \in Runners :
     Live(r) /\ Live(s) /\ r # s =>
       overlapped /\ \E c \in Callers : pc[c] = "assign" /\ fresh[c] \in {r, s}

(* If no two calls ever overlap, isRunning_ tells whether there is a       *)
(* thread to join, and once stop has returned no handler runs, also after  *)
(* stops that failed because a handler made them (45-74).                  *)
ApartIsConsistent ==
  ~overlapped /\ ~terminated /\ (\A c \in Callers : pc[c] = "out") =>
     /\ isRunning <=> thread # None
     /\ ~isRunning => \A r \in Runners : ~Live(r)

(* Without Python a stop that overlaps no other call ends, whether run is  *)
(* in a handler, has ended by itself, or has not begun (66-71).            *)
StopReturns ==
  \A c \in Callers :
     ~python /\ pc[c] \in Stopping ~> pc[c] = "out" \/ overlapped \/ terminated

-------------------------------------------------------------------------------
(* examples/record_sonar.py:47-48 calls stop with callbacks registered and *)
(* goes on: stop returns in Python too.                                    *)
PythonStopReturns ==
  \A c \in Callers :
     python /\ pc[c] \in Stopping ~> pc[c] = "out" \/ overlapped \/ terminated
===============================================================================
