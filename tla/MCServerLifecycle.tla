--------------------------- MODULE MCServerLifecycle ---------------------------
(***************************************************************************)
(* Instances of ServerLifecycle for TLC.                                   *)
(***************************************************************************)
EXTENDS ServerLifecycle, TLC

\* Just the relay, or one of the three helpers that only run beside it as well.
TwoHelpers == <<"DAEMON", "RCON">>
JustRelay == <<"RCON">>
StopAndRestart == {"stop", "restart"}

\* All faults, or those that leave the server's session alone.
AllFaults == {"crash", "hang", "killserver"}
MildFaults == {"crash", "hang"}

Symmetry == Permutations(Loops) \cup Permutations(Dogs)

===============================================================================
