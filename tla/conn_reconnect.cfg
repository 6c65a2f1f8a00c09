SPECIFICATION FairSpec
CONSTANTS
 main = main
 Callers = {main}
 MaxDials = 3
 MaxCalls = 3
 Questions = {"keep alive"}
 MaxInbox = 1
 WriteCap = 2
 ReadCap = 2
 Hasty = TRUE

PROPERTIES SuccessorKept
CHECK_DEADLOCK FALSE
