SPECIFICATION FairSpec
CONSTANTS
  d2 = d2
  d1 = d1
  o1 = o1
  l1 = l1
  Loops = {l1}
  Scripts = {o1}
  Kinds <- StopAndRestart
  Dogs = {d1, d2}
  HelperOrder <- TwoHelpers
  Target = 2
  NoLoop = NoLoop
  Faults <- MildFaults
  MaxCrash = 1
  Fixes = 0
PROPERTIES HelpersHeal StopCompletes RestartCompletes
\* Loops and scripts run once, and .STOP keeps the watchdog from starting.
CHECK_DEADLOCK FALSE
