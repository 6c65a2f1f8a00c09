SPECIFICATION FairSpec
CONSTANTS
  r2 = r2
  r1 = r1
  s2 = s2
  s1 = s1
  Senders = {s1, s2}
  Relays = {r1, r2}
  Guarded = FALSE
  Faults = TRUE
  MaxActive = 2
  MaxSessions = 1
  NoLine = NoLine
  Blank = Blank
  Error1 = Error1
  Error3 = Error3
  NoReply = NoReply
PROPERTY EveryCallEnds
\* Scripts run once: the system stops when every call has ended.
CHECK_DEADLOCK FALSE
