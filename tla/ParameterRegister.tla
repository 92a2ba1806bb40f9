--------------------------- MODULE ParameterRegister ---------------------------
(***************************************************************************)
(* What lastConfig_ is to the users of the driver, in its parameters: one  *)
(* register, which only the pings of the sonar write, though every thread  *)
(* stores into lastConfig_ with no lock.  The configuration callbacks, a   *)
(* user that waits for the next message, and the sonar at a reconnection   *)
(* are each given the value that the last ping left, never one that a ping *)
(* being handled is about to replace.  SonarDriver implements this         *)
(* specification; nothing of the kind holds of the ping rate.              *)
(*                                                                         *)
(* The callbacks need not be told of a value near the one it replaces, and *)
(* so may be left behind by any distance, in small steps; whatever they    *)
(* are told is the register, when they are told.                           *)
(*                                                                         *)
(* A set of at most one element stands for a value that may be missing.    *)
(***************************************************************************)
CONSTANTS Params,     \* values of the parameters
          DefaultPar, \* the first of them
          Near,       \* pairs that pass for equal
          Users       \* those that wait for messages

VARIABLES value,     \* the register
          told,      \* what the configuration callbacks were last told
          reported,  \* what the ping that is being handled reports
          greeting,  \* what the sonar is about to be sent at a reconnection
          waiting,   \* the users that wait for the next message
          given      \* given[t] is what t has been given in its current wait

vars == <<value, told, reported, greeting, waiting, given>>

Init ==
  /\ value = DefaultPar /\ told = DefaultPar
  /\ reported = {} /\ greeting = {} /\ waiting = {}
  /\ given = [t \in Users |-> {}]

(* A ping is received, and then written. *)
Receive(p) ==
  /\ reported = {} /\ greeting = {}
  /\ reported' = {p}
  /\ UNCHANGED <<value, told, greeting, waiting, given>>

Write(p) ==
  /\ reported = {p}
  /\ value' = p
  /\ told' = p \/ (<<value, p>> \in Near /\ told' = told)
  /\ reported' = {}
  /\ UNCHANGED <<greeting, waiting, given>>

(* A message that is no ping, and a change that is none of the parameters. *)
Tell ==
  /\ reported = {} /\ greeting = {}
  /\ told' = value
  /\ UNCHANGED <<value, reported, greeting, waiting, given>>

Wait(t) ==
  /\ t \notin waiting
  /\ waiting' = waiting \union {t}
  /\ UNCHANGED <<value, told, reported, greeting, given>>

(* A message of any kind gives the register to all those that wait for it. *)
Give ==
  /\ reported = {} /\ greeting = {}
  /\ given' = [t \in Users |-> IF t \in waiting /\ given[t] = {} THEN {value} ELSE given[t]]
  /\ UNCHANGED <<value, told, reported, greeting, waiting>>

Leave(t) ==
  /\ t \in waiting
  /\ waiting' = waiting \ {t}
  /\ given' = [given EXCEPT ![t] = {}]
  /\ UNCHANGED <<value, told, reported, greeting>>

(* The connection is back; the greeting is sent, or cannot be.             *)
Greet ==
  /\ reported = {} /\ greeting = {}
  /\ greeting' = {value}
  /\ UNCHANGED <<value, told, reported, waiting, given>>

Greeted ==
  /\ greeting # {}
  /\ greeting' = {}
  /\ UNCHANGED <<value, told, reported, waiting, given>>

Next ==
  \/ \E p \in Params : Receive(p) \/ Write(p)
  \/ \E t \in Users : Wait(t) \/ Leave(t)
  \/ Tell \/ Give \/ Greet \/ Greeted

Spec == Init /\ [][Next]_vars
===============================================================================
