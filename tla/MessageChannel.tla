---------------------------- MODULE MessageChannel ----------------------------
(***************************************************************************)
(* What the reception promises the callbacks, with no stream, no header    *)
(* and no buffer.  A connection is sound if it begins at the start of a    *)
(* message and no reception loop of an earlier one is left.  A sound       *)
(* connection gives every message it carries, in order and once, after all *)
(* those given before; one that is not may give any message that was sent. *)
(* Messages are missed, on a sound connection, only where it ends.         *)
(* Reception implements this specification.                                *)
(***************************************************************************)
EXTENDS Naturals, Sequences

VARIABLES sent,       \* the messages sent so far are 1 .. sent
          up,         \* whether the connection holds
          due,        \* the message to be delivered next, 0 if it may be any
          delivered   \* the messages delivered so far

vars == <<sent, up, due, delivered>>

Init == sent = 0 /\ up = TRUE /\ due = 1 /\ delivered = << >>

Send ==
  /\ up
  /\ sent' = sent + 1
  /\ UNCHANGED <<up, due, delivered>>

(* Also a message whose last words come after the connection is lost.      *)
Deliver(m) ==
  /\ due # 0 => m = due /\ \A i \in 1 .. Len(delivered) : delivered[i] < m
  /\ delivered' = Append(delivered, m)
  /\ due' = IF due # 0 THEN m + 1 ELSE 0
  /\ UNCHANGED <<sent, up>>

Break ==
  /\ up
  /\ up' = FALSE
  /\ UNCHANGED <<sent, due, delivered>>

(* A connection begins between two messages, or within one.                *)
Reconnect ==
  /\ ~up
  /\ up' = TRUE
  /\ \/ sent' = sent /\ due' \in {0, sent + 1}
     \/ sent' = sent + 1 /\ due' = 0
  /\ UNCHANGED delivered

Next ==
  \/ Send \/ Break \/ Reconnect
  \/ \E m \in 1 .. sent : Deliver(m)

Spec == Init /\ [][Next]_vars
===============================================================================
