SPECIFICATION BotSpec
CONSTANTS
 main = main
 Callers = {main}
 MaxDials = 2
 MaxCalls = 2
 Questions = {}
 MaxInbox = 1
 WriteCap = 1
 ReadCap = 1
 Hasty = FALSE
 Accounts = {"a","b"}
 MaxRequests = 2
INVARIANTS TrustedIsLive JoinedFirst
CHECK_DEADLOCK FALSE
