---------------------------- MODULE SessionStates ----------------------------
(***************************************************************************)
(* The tables of the two core state machines (RequestStateMachine.h and    *)
(* ConnectionStateMachine.h) and the two instances of their common base.   *)
(***************************************************************************)
RequestStates ==
  {"Idle", "Sending", "Waiting", "Completed", "Failed", "Aborted"}

RequestTransitions ==
  ({"Idle"}      \X {"Sending", "Failed", "Aborted"}) \cup
  ({"Sending"}   \X {"Waiting", "Completed", "Failed", "Aborted"}) \cup
  ({"Waiting"}   \X {"Completed", "Failed", "Aborted"}) \cup
  ({"Failed"}    \X {"Sending", "Aborted", "Idle"}) \cup
  ({"Completed", "Aborted"} \X {"Idle"})

ConnectionStates ==
  {"Disconnected", "Connecting", "Connected", "Disconnecting", "Failed"}

ConnectionTransitions ==
  ({"Disconnected"}  \X {"Connecting", "Disconnecting"}) \cup
  ({"Connecting"}    \X {"Connected", "Failed", "Disconnecting"}) \cup
  ({"Connected"}     \X {"Disconnecting", "Failed"}) \cup
  ({"Disconnecting"} \X {"Disconnected"}) \cup
  ({"Failed"}        \X {"Connecting", "Disconnecting", "Disconnected"})

Req  == INSTANCE StateMachineBase WITH ValidTransitions <- RequestTransitions
Conn == INSTANCE StateMachineBase WITH ValidTransitions <- ConnectionTransitions
=============================================================================
