---------------------------- MODULE CommandChannel ----------------------------
(***************************************************************************)
(* What the root script `send` promises its callers about one command      *)
(* line: it is handed to the RCON client of a relay only once the script   *)
(* has been called, and at most twice by one relay process.  The calls and *)
(* the deliveries of different callers interleave freely, and a call may   *)
(* return before, between or after its deliveries, or never.               *)
(*                                                                         *)
(* CommandRelay implements this module; the two deliveries (and not one)   *)
(* come from the two IN_MODIFY events of one `echo > input.txt`.           *)
(***************************************************************************)
EXTENDS Naturals

CONSTANTS
  Senders,     \* the invocations of `send`, each with its own command line
  Relays       \* the relay processes that may serve them

VARIABLES
  phase,       \* phase[s]: "new", "called" or "returned"
  delivered    \* delivered[r][s]: times relay r handed s's line to RCON

vars == <<phase, delivered>>

Phases == {"new", "called", "returned"}

Init ==
  /\ phase = [s \in Senders |-> "new"]
  /\ delivered = [r \in Relays |-> [s \in Senders |-> 0]]

Call(s) ==
  /\ phase[s] = "new"
  /\ phase' = [phase EXCEPT ![s] = "called"]
  /\ UNCHANGED delivered

Return(s) ==
  /\ phase[s] = "called"
  /\ phase' = [phase EXCEPT ![s] = "returned"]
  /\ UNCHANGED delivered

\* The `echo` that writes the line runs in the background, so a delivery can
\* come after the call has returned.
Deliver(r, s) ==
  /\ phase[s] # "new"
  /\ delivered[r][s] < 2
  /\ delivered' = [delivered EXCEPT ![r][s] = @ + 1]
  /\ UNCHANGED phase

Next ==
  \/ \E s \in Senders : Call(s) \/ Return(s)
  \/ \E r \in Relays, s \in Senders : Deliver(r, s)

Spec == Init /\ [][Next]_vars

===============================================================================
