--------------------------- MODULE MCModbusSession ---------------------------
(* Requests for the model-checking runs of ModbusSession. *)
EXTENDS ModbusSession

Read         == [fc |-> "read", slave |-> 1, valid |-> TRUE]
Write        == [fc |-> "write", slave |-> 1, valid |-> TRUE]
Broadcast    == [fc |-> "write", slave |-> 0, valid |-> TRUE]
BadBroadcast == [fc |-> "read", slave |-> 0, valid |-> TRUE]
Malformed    == [fc |-> "read", slave |-> 1, valid |-> FALSE]

OnlyWrites     == {Write}
ReadsAndWrites == {Read, Write}
WritesAndBroadcasts == {Write, Broadcast}
WithMalformed  == {Write, Malformed}
WithBroadcasts == {Write, Broadcast, BadBroadcast}
=============================================================================
