SPECIFICATION Spec
CONSTANTS
  d2 = d2
  d1 = d1
  o1 = o1
  l2 = l2
  l1 = l1
  Loops = {l1, l2}
  Scripts = {o1}
  Kinds <- StopAndRestart
  Dogs = {d1, d2}
  HelperOrder <- JustRelay
  Target = 2
  NoLoop = NoLoop
  Faults <- AllFaults
  MaxCrash = 1
  Fixes = 1
SYMMETRY Symmetry
INVARIANTS HelpersBounded LifecycleInv FixesRunOnce
\* Loops and scripts run once, and .STOP keeps the watchdog from starting.
CHECK_DEADLOCK FALSE
