------------------------------ MODULE SingleShot ------------------------------
(***************************************************************************)
(* What CallbackQueue::add_single_shot promises its caller, with no mutex, *)
(* no condition variable and no flag: a wait is queued, its callback runs  *)
(* at most once, and the caller is answered "called" only after that run.  *)
(* The callback of a wait answered "timeout" may run before or after the   *)
(* answer.  CallbackQueue implements this specification.                   *)
(***************************************************************************)
EXTENDS Naturals

CONSTANTS Threads,   \* the threads that wait
          Tickets    \* the numbers of a thread's successive waits

VARIABLES queued,   \* the waits <<t, n>> whose callback has not run
          ran,      \* the waits whose callback has run
          current,  \* current[t] is the last wait of t, 0 before the first
          blocked,  \* the threads inside add_single_shot
          answer    \* what the last completed wait of a thread returned

vars == <<queued, ran, current, blocked, answer>>

Init ==
  /\ queued = {}
  /\ ran = {}
  /\ current = [t \in Threads |-> 0]
  /\ blocked = {}
  /\ answer = [t \in Threads |-> "none"]

Register(t) ==
  /\ t \notin blocked
  /\ current[t] + 1 \in Tickets
  /\ current' = [current EXCEPT ![t] = @ + 1]
  /\ queued' = queued \union {<<t, current[t] + 1>>}
  /\ blocked' = blocked \union {t}
  /\ answer' = [answer EXCEPT ![t] = "none"]
  /\ UNCHANGED ran

Run(w) ==
  /\ w \in queued
  /\ queued' = queued \ {w}
  /\ ran' = ran \union {w}
  /\ UNCHANGED <<current, blocked, answer>>

Answer(t, a) ==
  /\ t \in blocked
  /\ a = "called" => <<t, current[t]>> \in ran
  /\ blocked' = blocked \ {t}
  /\ answer' = [answer EXCEPT ![t] = a]
  /\ UNCHANGED <<queued, ran, current>>

Next ==
  \/ \E t \in Threads : Register(t)
  \/ \E w \in Threads \X Tickets : Run(w)
  \/ \E t \in Threads, a \in {"called", "timeout"} : Answer(t, a)

Spec == Init /\ [][Next]_vars
===============================================================================
