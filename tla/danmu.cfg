SPECIFICATION FairSpec
CONSTANTS
  a = a
  b = b
  Sessions <- MCSessions
  Capacity = 1
  MaxRepeats = 2
  MaxRetries = 1
  MaxSaid = 2
  MaxWire = 2
  Budgets <- MCBudgets
INVARIANT ToldInOrder
PROPERTIES WrittenIsRead HeardIsPrinted LostIsReplaced
\* A session whose receiver and send.py hang stays so.
CHECK_DEADLOCK FALSE
