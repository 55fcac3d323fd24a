----------------------------- MODULE OnceEffect -----------------------------
(***************************************************************************)
(* What the inbox promises of at-least-once delivery (ADR-0012): copies of *)
(* an event come and go, its effect is recorded once and never changes,    *)
(* and a copy is confirmed only when the effect is there.                  *)
(***************************************************************************)
CONSTANTS Message, Event, EventOf

VARIABLES
  copy,    \* of a message: unsent, pending, confirmed or buried
  effect   \* of an event: none, RECEIVED or POISON

Init ==
  /\ copy = [m \in Message |-> "unsent"]
  /\ effect = [e \in Event |-> "none"]

Send(m) ==
  /\ copy[m] = "unsent"
  /\ copy' = [copy EXCEPT ![m] = "pending"]
  /\ UNCHANGED effect

Record(e) ==
  /\ effect[e] = "none"
  /\ \E status \in {"RECEIVED", "POISON"} :
       effect' = [effect EXCEPT ![e] = status]

Bury(m) ==
  /\ copy[m] = "pending"
  /\ copy' = [copy EXCEPT ![m] = "buried"]

\* An attempt at a copy may record the effect, bury the copy, or both.
Attempt(m) ==
  /\ copy[m] # "unsent"
  /\ Record(EventOf[m]) \/ UNCHANGED effect
  /\ Bury(m) \/ UNCHANGED copy

Confirm(m) ==
  /\ copy[m] = "pending" /\ effect[EventOf[m]] = "RECEIVED"
  /\ copy' = [copy EXCEPT ![m] = "confirmed"]
  /\ UNCHANGED effect

Next == \E m \in Message : Send(m) \/ Attempt(m) \/ Confirm(m)

Spec == Init /\ [][Next]_<<copy, effect>>
=============================================================================
