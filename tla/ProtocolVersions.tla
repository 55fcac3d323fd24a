-------------------------- MODULE ProtocolVersions --------------------------
(***************************************************************************)
(* What the protocols of a building object are to everybody who reads      *)
(* them: a series of versions 1, 2, 3 ... that only grows at its end.  No  *)
(* version is skipped, given twice, changed or withdrawn; a cancelled      *)
(* protocol stays in the series and the next one supersedes it.            *)
(***************************************************************************)
EXTENDS Naturals

CONSTANTS Object, Process, Content

VARIABLE published   \* rows of the series

Versions(o) == {r.version : r \in {q \in published : q.object = o}}

\* v is the version after the last one of the object.
Follows(o, v) ==
  /\ v - 1 \in Versions(o) \cup {0}
  /\ \A w \in Versions(o) : w < v

Init == published = {}

Publish(o, p, v, x) ==
  /\ Follows(o, v)
  /\ published' = published \cup
       {[object |-> o, process |-> p, version |-> v, content |-> x]}

Next ==
  \E o \in Object, p \in Process, x \in Content :
    \E v \in {w + 1 : w \in Versions(o) \cup {0}} : Publish(o, p, v, x)

Spec == Init /\ [][Next]_published

=============================================================================
