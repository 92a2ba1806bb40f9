--------------------------- MODULE AsyncServiceProofs ---------------------------
(***************************************************************************)
(* Proofs about AsyncService, for any threads and any number of starts.    *)
(* The argument: a thread that is not over is thread_, or the temporary of *)
(* a start that has not assigned it yet, since only a thread that is over  *)
(* is let go of and only std::thread() is assigned to.  And while no calls *)
(* overlap, a start that has a temporary finds no thread_.                 *)
(***************************************************************************)
EXTENDS AsyncService, TLAPS

(* The inductive strengthening of OneRunner: who runs is thread_, or is    *)
(* about to be assigned to it.                                             *)
Unassigned(r) == \E c \in Callers : pc[c] = "assign" /\ fresh[c] = r
RunnerIsKnown == \A r \in Runners : Live(r) => r = thread \/ Unassigned(r)

LaterUnborn == \A r \in Runners : r > created => runner[r] = "unborn"

Inv == TypeOK /\ LaterUnborn /\ RunnerIsKnown

LEMMA InitInv == Init => Inv
<1> SUFFICES ASSUME Init PROVE Inv
  OBVIOUS
<1> USE DEF Init
<1>1. gil \notin Runners /\ fresh \in [Callers -> {None} \union Runners]
  BY CallersAssumption DEF Callers
<1>2. TypeOK
  <2>1. pc \in [Callers -> {"out"} \union Starting \union Stopping]
    OBVIOUS
  <2>2. runner \in [Runners -> {"unborn", "polling", "wantsGil", "handler", "ended"}]
    OBVIOUS
  <2>3. created \in 0 .. MaxStarts
    BY MaxStartsAssumption
  <2>4. python \in BOOLEAN /\ isRunning \in BOOLEAN /\ stopped \in BOOLEAN
        /\ terminated \in BOOLEAN /\ overlapped \in BOOLEAN
    OBVIOUS
  <2> QED
    BY <1>1, <2>1, <2>2, <2>3, <2>4 DEF TypeOK
<1>3. LaterUnborn /\ RunnerIsKnown
  BY DEF LaterUnborn, RunnerIsKnown, Live
<1> QED
  BY <1>2, <1>3 DEF Inv

(* Type correctness, one action at a time.                                 *)
LEMMA StepType == Inv /\ [Next]_vars => TypeOK'
<1> SUFFICES ASSUME Inv, [Next]_vars PROVE TypeOK'
  OBVIOUS
<1> USE CallersAssumption, MaxStartsAssumption
    DEF Inv, TypeOK, Callers, Runners, None, Starting, Stopping
<1>1. ASSUME NEW c \in Callers, BeginStart(c) PROVE TypeOK'
  BY <1>1 DEF BeginStart, MayStart, Enter, serviceVars, runnerVars
<1>2. ASSUME NEW c \in Callers, BeginStop(c) PROVE TypeOK'
  BY <1>2 DEF BeginStop, Enter, serviceVars, runnerVars
<1>3. ASSUME NEW c \in Callers, Reset(c) PROVE TypeOK'
  BY <1>3 DEF Reset, runnerVars
<1>4. ASSUME NEW c \in Callers, Create(c) PROVE TypeOK'
  <2>1. created + 1 \in Runners /\ created' \in 0 .. MaxStarts
    BY <1>4 DEF Create
  <2>2. /\ runner' = [runner EXCEPT ![created + 1] = "polling"]
        /\ fresh' = [fresh EXCEPT ![c] = created + 1]
        /\ pc' = [pc EXCEPT ![c] = "assign"]
        /\ UNCHANGED <<isRunning, stopped, thread, python, gil, terminated, overlapped>>
    BY <1>4 DEF Create, serviceVars
  <2>3. gil' \in Runners => runner'[gil'] = "handler"
    BY <1>4, <2>1, <2>2 DEF LaterUnborn
  <2> QED
    BY <2>1, <2>2, <2>3
<1>15. ASSUME NEW c \in Callers, Assign(c) PROVE TypeOK'
  <2>1. thread' \in {None} \union Runners
    BY <1>15 DEF Assign
  <2>2. /\ fresh' \in [Callers -> {None} \union Runners]
        /\ pc' \in [Callers -> {"out"} \union Starting \union Stopping]
    BY <1>15 DEF Assign
  <2>3. terminated' \in BOOLEAN
    BY <1>15 DEF Assign
  <2>4. UNCHANGED <<isRunning, stopped, runner, created, python, gil, overlapped>>
    BY <1>15 DEF Assign, runnerVars
  <2> QED
    BY <2>1, <2>2, <2>3, <2>4
<1>5. ASSUME NEW c \in Callers, Mark(c) PROVE TypeOK'
  BY <1>5 DEF Mark, Return, runnerVars
<1>6. ASSUME NEW c \in Callers, Halt(c) PROVE TypeOK'
  BY <1>6 DEF Halt, Halted, runnerVars
<1>7. ASSUME NEW c \in Callers, Join(c) PROVE TypeOK'
  BY <1>7 DEF Join, JoinFails, Return, runnerVars
<1>8. ASSUME NEW c \in Callers, Unmark(c) PROVE TypeOK'
  BY <1>8 DEF Unmark, Return, runnerVars
<1>9. ASSUME NEW r \in Runners, TakeHandler(r) PROVE TypeOK'
  BY <1>9 DEF TakeHandler, Becomes, serviceVars
<1>10. ASSUME NEW r \in Runners, TakeGil(r) PROVE TypeOK'
  BY <1>10 DEF TakeGil, Becomes, serviceVars
<1>11. ASSUME NEW r \in Runners, HandlerReturns(r) PROVE TypeOK'
  BY <1>11 DEF HandlerReturns, Becomes, Released, serviceVars
<1>12. ASSUME NEW r \in Runners, HandlerThrows(r) PROVE TypeOK'
  BY <1>12 DEF HandlerThrows, serviceVars, runnerVars
<1>13. ASSUME NEW r \in Runners, RunReturns(r) PROVE TypeOK'
  BY <1>13 DEF RunReturns, Becomes
<1>14. CASE UNCHANGED vars
  BY <1>14 DEF vars, serviceVars, runnerVars
<1> QED
  BY <1>1, <1>2, <1>3, <1>4, <1>5, <1>6, <1>7, <1>8, <1>9, <1>10, <1>11, <1>12,
     <1>13, <1>14, <1>15 DEF Next, CallStep, RunStep

(* A thread starts as a temporary, is assigned where there was none, only  *)
(* one that has ended is let go of, and every other step leaves thread_,   *)
(* the temporaries and who lives alone.                                    *)
LEMMA StepRunner == Inv /\ [Next]_vars => RunnerIsKnown'
<1> SUFFICES ASSUME Inv, [Next]_vars, NEW r \in Runners, Live(r)'
             PROVE  (r = thread \/ Unassigned(r))'
  BY DEF RunnerIsKnown, Runners
<1>0. /\ pc \in [Callers -> {"out"} \union Starting \union Stopping]
      /\ fresh \in [Callers -> {None} \union Runners]
      /\ runner \in [Runners -> {"unborn", "polling", "wantsGil", "handler", "ended"}]
      /\ None \notin Runners
  BY DEF Inv, TypeOK, None, Runners
<1>1. Live(r) => r = thread \/ Unassigned(r)
  BY DEF Inv, RunnerIsKnown
<1>2. ASSUME NEW c \in Callers, Create(c) PROVE (r = thread \/ Unassigned(r))'
  <2>1. /\ pc[c] = "spawn" /\ thread' = thread
        /\ pc' = [pc EXCEPT ![c] = "assign"] /\ fresh' = [fresh EXCEPT ![c] = created + 1]
        /\ runner' = [runner EXCEPT ![created + 1] = "polling"]
    BY <1>2 DEF Create, serviceVars
  <2>2. CASE r = created + 1
    BY <1>0, <2>1, <2>2 DEF Unassigned
  <2>3. CASE r # created + 1
    BY <1>0, <1>1, <2>1, <2>3 DEF Live, Unassigned
  <2> QED
    BY <2>2, <2>3
<1>3. ASSUME NEW c \in Callers, Assign(c) PROVE (r = thread \/ Unassigned(r))'
  <2>1. Live(r)
    BY <1>3 DEF Assign, runnerVars, Live
  <2>2. CASE StillJoinable
    BY <1>1, <1>3, <2>1, <2>2 DEF Assign, Unassigned
  <2>3. CASE ~StillJoinable
    <3>1. PICK d \in Callers : pc[d] = "assign" /\ fresh[d] = r
      BY <1>0, <1>1, <2>1, <2>3 DEF StillJoinable, Unassigned
    <3>2. CASE d = c
      BY <1>3, <2>3, <3>1, <3>2 DEF Assign
    <3>3. CASE d # c
      BY <1>0, <1>3, <2>3, <3>1, <3>3 DEF Assign, Unassigned
    <3> QED
      BY <3>2, <3>3
  <2> QED
    BY <2>2, <2>3
<1>4. ASSUME NEW c \in Callers, Join(c) PROVE (r = thread \/ Unassigned(r))'
  <2>1. Live(r) /\ fresh' = fresh
    BY <1>4 DEF Join, runnerVars, Live
  <2>2. Unassigned(r) => Unassigned(r)'
    BY <1>0, <1>4, <2>1 DEF Join, Return, Unassigned
  <2>3. r = thread => thread' = thread
    BY <1>4, <2>1 DEF Join, ThreadEnded, Live
  <2> QED
    BY <1>1, <2>1, <2>2, <2>3
<1>5. ASSUME NEW q \in Runners,
             TakeHandler(q) \/ TakeGil(q) \/ HandlerReturns(q) \/ RunReturns(q)
      PROVE  (r = thread \/ Unassigned(r))'
  <2>1. UNCHANGED <<thread, pc, fresh>>
    BY <1>5 DEF TakeHandler, TakeGil, HandlerReturns, RunReturns, serviceVars
  <2>2. Live(r)
    BY <1>0, <1>5 DEF TakeHandler, TakeGil, HandlerReturns, RunReturns, Becomes, Live
  <2> QED
    BY <1>1, <2>1, <2>2 DEF Unassigned
<1>6. ASSUME NEW c \in Callers,
             BeginStart(c) \/ BeginStop(c) \/ Reset(c) \/ Mark(c) \/ Halt(c) \/ Unmark(c)
      PROVE  (r = thread \/ Unassigned(r))'
  <2>1. UNCHANGED <<thread, runner, fresh>> /\ pc[c] # "assign"
        /\ \A d \in Callers \ {c} : pc'[d] = pc[d]
    BY <1>0, <1>6 DEF BeginStart, BeginStop, Enter, Reset, Mark, Halt, Unmark, Return,
         serviceVars, runnerVars
  <2> QED
    BY <1>1, <2>1 DEF Live, Unassigned
<1>7. CASE UNCHANGED vars \/ \E q \in Runners : HandlerThrows(q)
  <2>1. UNCHANGED <<thread, runner, fresh, pc>>
    BY <1>7 DEF vars, HandlerThrows, serviceVars, runnerVars
  <2> QED
    BY <1>1, <2>1 DEF Live, Unassigned
<1> QED
  BY <1>2, <1>3, <1>4, <1>5, <1>6, <1>7 DEF Next, CallStep, RunStep

LEMMA StepUnborn == Inv /\ [Next]_vars => LaterUnborn'
<1> SUFFICES ASSUME Inv, [Next]_vars PROVE LaterUnborn'
  OBVIOUS
<1> USE DEF Inv, TypeOK, LaterUnborn, Runners
<1>1. ASSUME NEW c \in Callers, Create(c) PROVE LaterUnborn'
  BY <1>1, MaxStartsAssumption DEF Create
<1>2. ASSUME NEW c \in Callers, BeginStart(c) \/ BeginStop(c) PROVE LaterUnborn'
  BY <1>2 DEF BeginStart, BeginStop, Enter, runnerVars
<1>3. ASSUME NEW c \in Callers,
             Reset(c) \/ Assign(c) \/ Mark(c) \/ Halt(c) \/ Join(c) \/ Unmark(c)
      PROVE  LaterUnborn'
  BY <1>3 DEF Reset, Assign, Mark, Halt, Join, Unmark, runnerVars
<1>4. ASSUME NEW r \in Runners,
             TakeHandler(r) \/ TakeGil(r) \/ HandlerReturns(r) \/ RunReturns(r)
      PROVE  LaterUnborn'
  BY <1>4 DEF TakeHandler, TakeGil, HandlerReturns, RunReturns, Becomes
<1>5. CASE UNCHANGED vars \/ \E r \in Runners : HandlerThrows(r)
  BY <1>5 DEF vars, HandlerThrows, runnerVars
<1> QED
  BY <1>1, <1>2, <1>3, <1>4, <1>5 DEF Next, CallStep, RunStep

LEMMA Invariance == Spec => []Inv
<1>1. Inv /\ [Next]_vars => Inv'
  BY StepType, StepUnborn, StepRunner DEF Inv
<1> QED
  BY InitInv, <1>1, PTL DEF Spec

(* Type correctness of the service, for any threads and number of starts.  *)
THEOREM TypeCorrect == Spec => []TypeOK
<1>1. Inv => TypeOK
  BY DEF Inv
<1> QED
  BY Invariance, <1>1, PTL

(* While no two calls have overlapped: where the one under way is, and     *)
(* what isRunning_ and thread_ are there.                                  *)
AtMostOneCall == \A c, d \in Callers : pc[c] # "out" /\ pc[d] # "out" => c = d
FieldsFollow ==
  /\ \A c \in Callers :
       /\ pc[c] \in {"reset", "spawn", "assign"} => ~isRunning /\ thread = None
       /\ pc[c] = "assign" => fresh[c] # None
       /\ pc[c] = "mark" => ~isRunning /\ thread # None
       /\ pc[c] \in {"halt", "join"} => isRunning /\ thread # None
       /\ pc[c] = "unmark" => isRunning /\ thread = None
  /\ (\A c \in Callers : pc[c] = "out") => (isRunning <=> thread # None)

ApartInv == ~overlapped => AtMostOneCall /\ FieldsFollow

LEMMA StepApart == Inv /\ ApartInv /\ [Next]_vars => ApartInv'
<1> SUFFICES ASSUME Inv, ApartInv, [Next]_vars, ~overlapped'
             PROVE  AtMostOneCall' /\ FieldsFollow'
  BY DEF ApartInv
<1> USE DEF ApartInv, AtMostOneCall, FieldsFollow, None
<1>0. pc \in [Callers -> {"out"} \union Starting \union Stopping]
  BY DEF Inv, TypeOK
<1>1. ASSUME NEW c \in Callers, BeginStart(c) \/ BeginStop(c)
      PROVE  AtMostOneCall' /\ FieldsFollow'
  <2>1. \A d \in Callers : pc[d] = "out"
    BY <1>0, <1>1 DEF BeginStart, BeginStop, Enter
  <2>2. isRunning <=> thread # None
    BY <1>1, <2>1 DEF BeginStart, BeginStop, Enter
  <2>3. isRunning' = isRunning /\ thread' = thread
    BY <1>1 DEF BeginStart, BeginStop, Enter, serviceVars
  <2>4. CASE BeginStart(c)
    <3>1. ~isRunning /\ pc' = [pc EXCEPT ![c] = "reset"]
      BY <2>4 DEF BeginStart, MayStart, Enter
    <3> QED
      BY <1>0, <2>1, <2>2, <2>3, <3>1
  <2>5. CASE BeginStop(c)
    <3>1. isRunning /\ pc' = [pc EXCEPT ![c] = "halt"]
      BY <2>5 DEF BeginStop, Enter
    <3> QED
      BY <1>0, <2>1, <2>2, <2>3, <3>1
  <2> QED
    BY <1>1, <2>4, <2>5
<1>2. ASSUME NEW c \in Callers, CallStep(c) PROVE AtMostOneCall' /\ FieldsFollow'
  <2>1. ~overlapped
    BY <1>2 DEF CallStep, Reset, Create, Assign, Mark, Halt, Join, Unmark
  <2>2. \A d \in Callers \ {c} : pc[d] = "out" /\ pc'[d] = "out"
    BY <1>0, <1>2, <2>1 DEF CallStep, Reset, Create, Assign, Mark, Halt, Join, Unmark, Return
  <2>3. CASE Reset(c)
    BY <1>0, <2>1, <2>2, <2>3 DEF Reset
  <2>4. CASE Create(c)
    <3>1. fresh'[c] # None
      BY <2>4 DEF Create, Inv, TypeOK
    <3> QED
      BY <1>0, <2>1, <2>2, <2>4, <3>1 DEF Create, serviceVars
  <2>9. CASE Assign(c)
    BY <1>0, <2>1, <2>2, <2>9 DEF Assign, StillJoinable
  <2>5. CASE Mark(c)
    BY <1>0, <2>1, <2>2, <2>5 DEF Mark, Return
  <2>6. CASE Halt(c)
    BY <1>0, <2>1, <2>2, <2>6 DEF Halt
  <2>7. CASE Join(c)
    BY <1>0, <2>1, <2>2, <2>7 DEF Join, JoinFails, Return
  <2>8. CASE Unmark(c)
    BY <1>0, <2>1, <2>2, <2>8 DEF Unmark, Return
  <2> QED
    BY <1>2, <2>3, <2>4, <2>5, <2>6, <2>7, <2>8, <2>9 DEF CallStep
<1>3. ASSUME NEW r \in Runners,
             TakeHandler(r) \/ HandlerThrows(r) \/ RunReturns(r) \/ RunStep(r)
      PROVE  AtMostOneCall' /\ FieldsFollow'
  BY <1>3 DEF TakeHandler, HandlerThrows, RunReturns, RunStep, TakeGil, HandlerReturns,
              serviceVars, runnerVars
<1>4. CASE UNCHANGED vars
  BY <1>4 DEF vars, serviceVars, runnerVars
<1> QED
  BY <1>1, <1>2, <1>3, <1>4 DEF Next

LEMMA ApartAlways == Spec => []ApartInv
<1>1. Init => ApartInv
  BY DEF Init, ApartInv, AtMostOneCall, FieldsFollow, None
<1> QED
  BY Invariance, <1>1, StepApart, PTL DEF Spec

(* Two threads run handlers only while calls overlap and one of them has   *)
(* started a thread that it has not assigned yet.                          *)
THEOREM RunnersAreKnown == Spec => []OneRunner
<1>1. Inv /\ ApartInv => OneRunner
  <2> SUFFICES ASSUME Inv, ApartInv, NEW r \in Runners, NEW s \in Runners,
                      Live(r), Live(s), r # s
               PROVE  overlapped /\ \E c \in Callers : pc[c] = "assign" /\ fresh[c] \in {r, s}
    BY DEF OneRunner
  <2>1. (r = thread \/ Unassigned(r)) /\ (s = thread \/ Unassigned(s))
    BY DEF Inv, RunnerIsKnown
  <2>2. PICK c \in Callers : pc[c] = "assign" /\ fresh[c] \in {r, s}
    BY <2>1 DEF Unassigned
  <2>3. ASSUME ~overlapped PROVE FALSE
    <3>1. thread = None /\ \A d \in Callers : pc[d] = "assign" => d = c
      BY <2>2, <2>3 DEF ApartInv, AtMostOneCall, FieldsFollow
    <3>2. r = fresh[c] /\ s = fresh[c]
      BY <2>1, <3>1 DEF Unassigned, None, Runners
    <3> QED
      BY <3>2
  <2> QED
    BY <2>2, <2>3 DEF Inv, TypeOK
<1> QED
  BY Invariance, ApartAlways, <1>1, PTL

(* If calls do not overlap, isRunning_ tells whether there is a thread to  *)
(* join, and after a stop no handler runs.                                 *)
THEOREM ApartCorrect == Spec => []ApartIsConsistent
<1>1. Inv /\ ApartInv => ApartIsConsistent
  <2> SUFFICES ASSUME Inv, ApartInv, ~overlapped,
                      \A c \in Callers : pc[c] = "out"
               PROVE  /\ isRunning <=> thread # None
                      /\ ~isRunning => \A r \in Runners : ~Live(r)
    BY DEF ApartIsConsistent
  <2>1. isRunning <=> thread # None
    BY DEF ApartInv, FieldsFollow
  <2>2. None \notin Runners
    BY DEF None, Runners
  <2> QED
    BY <2>1, <2>2 DEF Inv, RunnerIsKnown, Unassigned
<1> QED
  BY Invariance, ApartAlways, <1>1, PTL
===============================================================================
