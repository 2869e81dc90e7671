SPECIFICATION FairSpec
CONSTANT WorkThreads = {"io", "work"}
INVARIANTS ReleaseSafe
PROPERTIES ReleaseCompletes
CHECK_DEADLOCK FALSE
