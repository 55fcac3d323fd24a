---------------------------- MODULE MCProtocols ----------------------------
(* Model values for the run of Protocols: two processes of one object.     *)
EXTENDS Protocols

CONSTANTS p1, p2, o

SameObject == [p \in Process |-> o]
=============================================================================
