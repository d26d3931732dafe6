----------------------------- MODULE MCEventQueue -----------------------------
(* Instances of EventQueue for TLC. *)
EXTENDS EventQueue

CONSTANTS n1, n2, tA, tB

\* The first two events share a type, so that their order matters.
MCTypeOf == [e \in EventId |-> IF e <= 2 THEN tA ELSE tB]

=============================================================================
