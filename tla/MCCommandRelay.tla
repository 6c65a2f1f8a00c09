---------------------------- MODULE MCCommandRelay ----------------------------
(***************************************************************************)
(* Instances of CommandRelay for TLC.  The configurations give the senders *)
(* and relays as model values; within each set they are interchangeable.   *)
(***************************************************************************)
EXTENDS CommandRelay, TLC

Symmetry == Permutations(Senders) \cup Permutations(Relays)

===============================================================================
