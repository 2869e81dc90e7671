SPECIFICATION Spec
CONSTANT WorkThreads = {"io"}
INVARIANTS
  ThreadOutlivesSocket
CHECK_DEADLOCK FALSE
