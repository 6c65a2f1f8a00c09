SPECIFICATION FairSpec
CONSTANTS
 main = main
 Callers = {main}
 MaxDials = 2
 MaxCalls = 3
 Questions = {"keep alive", "position"}
 MaxInbox = 1
 WriteCap = 2
 ReadCap = 2
 Hasty = FALSE
INVARIANTS TypeOK OneReader Served NoConfusion KickIsNoError EndIsReported
PROPERTIES SuccessorKept ClosedThreadEnds
CHECK_DEADLOCK FALSE
