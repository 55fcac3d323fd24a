----------------------------- MODULE RunService -----------------------------
(***************************************************************************)
(* What the pipeline worker promises, without its queue, events, locks and *)
(* threads: one run at a time, a run is for everything requested before it *)
(* began, and no request is run twice.                                     *)
(***************************************************************************)
EXTENDS Naturals

CONSTANTS Process, NoProcess

VARIABLES
  requested,  \* of a process: runs asked for
  covered,    \* of a process: requests answered by the runs that ended
  current,    \* the process whose run is in progress, or NoProcess
  upTo        \* the requests that run answers

vars == <<requested, covered, current, upTo>>

Init ==
  /\ requested = [p \in Process |-> 0]
  /\ covered = [p \in Process |-> 0]
  /\ current = NoProcess /\ upTo = 0

Request(p) ==
  /\ requested' = [requested EXCEPT ![p] = @ + 1]
  /\ UNCHANGED <<covered, current, upTo>>

Begin(p) ==
  /\ current = NoProcess
  /\ covered[p] < requested[p]
  /\ current' = p /\ upTo' = requested[p]
  /\ UNCHANGED <<requested, covered>>

End ==
  /\ current # NoProcess
  /\ covered' = [covered EXCEPT ![current] = upTo]
  /\ current' = NoProcess /\ upTo' = 0
  /\ UNCHANGED requested

Next == End \/ \E p \in Process : Request(p) \/ Begin(p)

Spec == Init /\ [][Next]_vars

=============================================================================
