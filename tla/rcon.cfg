SPECIFICATION FairSpec
CONSTANTS
  MaxRetry = 1
  Calls = 2
  MaxFrag = 2
  Faults = TRUE
INVARIANTS TypeOK ExecutionBound AnswerComplete FirstRunsInOrder NothingUnread
PROPERTY HandlerEnds
\* The process may die or hang, and events are bounded.
CHECK_DEADLOCK FALSE
