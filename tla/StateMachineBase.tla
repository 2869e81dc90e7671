-------------------------- MODULE StateMachineBase --------------------------
(***************************************************************************)
(* core/modbus/session/StateMachineBase.h: the CRTP base of the two core   *)
(* state machines.  A machine is its table of valid transitions; a request *)
(* for an edge that the table lacks is logged and otherwise ignored, and a *)
(* request for the current state succeeds without doing anything.          *)
(***************************************************************************)
CONSTANT ValidTransitions     \* kValidTransitions, a set of pairs <<from, to>>

\* tryTransition() returns TRUE.
Allowed(from, to) == from = to \/ <<from, to>> \in ValidTransitions

\* The machine's state after tryTransition(to) in state from.
TryTransition(from, to) == IF Allowed(from, to) THEN to ELSE from
=============================================================================
