----------------------------- MODULE ServerLifecycle -----------------------------
(***************************************************************************)
(* Starting, stopping, restarting and watching over the Minecraft server.  *)
(*                                                                         *)
(* startserver opens a screen session that runs serverloop.sh: run the     *)
(* server, run and clear stopevent.sh, leave if the file .STOP is there,   *)
(* count down and start again.  stopserver and restartserver announce,     *)
(* send `stop` through the relay and quit the relay's session.  Cron runs  *)
(* watchdog.sh every minute, and every applied vote and testtps.sh run it  *)
(* too, whatever else runs: it takes one `screen -ls`, kills every session *)
(* when the server has none, and otherwise starts what is missing.         *)
(*                                                                         *)
(* `send` is abstracted to what CommandRelay shows of it: without a relay  *)
(* session it returns at once and nothing happens; with one, the command   *)
(* arrives, unless the server is down, which ends the relay and leaves the *)
(* caller waiting.  MBS_STATUS, which stopserver and restartserver turn    *)
(* off and nothing here reads, is a variable of MobSwitch.                 *)
(***************************************************************************)
EXTENDS Naturals, Sequences, FiniteSets

CONSTANTS
  Loops,        \* runs of serverloop.sh, each started at most once
  Scripts,      \* runs of stopserver and restartserver
  Kinds,        \* which of "stop", "restart" the scripts are
  Dogs,         \* runs of watchdog.sh that can overlap: cron's, those of votes
  HelperOrder,  \* the sessions the watchdog starts, in its order, relay last
  Target,       \* TARGET: `ps | grep` lines above which the relays are killed
  NoLoop,       \* no server process runs
  Faults,       \* of "crash" (helpers), "hang" (`send`) and "killserver"
  MaxCrash,     \* bound: crashes of the server and of helpers
  Fixes         \* bound: fixes written to stopevent.sh

Helpers == {HelperOrder[i] : i \in 1..Len(HelperOrder)}
RCON == HelperOrder[Len(HelperOrder)]

ASSUME LifecycleAssumption ==
  /\ NoLoop \notin Loops
  /\ Kinds \subseteq {"stop", "restart"}
  /\ HelperOrder \in Seq(STRING) \ {<<>>}
  /\ Helpers \cap {"off", "list", "kill", "relays"} = {}
  /\ \A i, j \in 1..Len(HelperOrder) : i # j => HelperOrder[i] # HelperOrder[j]
  /\ IsFiniteSet(Dogs)
  /\ Target \in Nat /\ MaxCrash \in Nat /\ Fixes \in Nat /\ Faults \subseteq {"crash", "hang", "killserver"}

VARIABLES
  stop,     \* Server/.STOP exists
  lpc,      \* lpc[l]: where the server loop stands
  jvm,      \* the loop whose server process runs, or NoLoop
  ordered,  \* that process has received the command `stop`
  event,    \* stopevent.sh contains a fix
  ran,      \* ran[l]: fixes that run of serverloop.sh has run (history)
  wrote,    \* fixes written so far (history)
  kind,     \* kind[o]: stopserver or restartserver
  opc,      \* opc[o]: where the script stands
  count,    \* count[h]: screen sessions of helper h
  dpc,      \* dpc[d]: where the watchdog stands; a number is a helper's turn
  snap,     \* snap[d]: the helpers in its `screen -ls`, {} once that is used up
  crashes   \* crashes so far, for the bound

loopVars == <<lpc, jvm, ordered, event, ran, wrote>>
scriptVars == <<kind, opc>>
dogVars == <<dpc, snap>>
vars == <<stop, lpc, jvm, ordered, event, ran, wrote, kind, opc, count,
          dpc, snap, crashes>>

Live(l) == lpc[l] \notin {"off", "gone"}
Up == \E l \in Loops : Live(l)
Present == {h \in Helpers : count[h] > 0}

Init ==
  /\ stop = FALSE
  /\ lpc = [l \in Loops |-> "off"]
  /\ jvm = NoLoop /\ ordered = FALSE
  /\ event = FALSE /\ ran = [l \in Loops |-> 0] /\ wrote = 0
  /\ kind \in [Scripts -> Kinds]
  /\ opc = [o \in Scripts |-> "idle"]
  /\ count = [h \in Helpers |-> 0]
  /\ dpc = [d \in Dogs |-> "off"]
  /\ snap = [d \in Dogs |-> {}]
  /\ crashes = 0

------------------------------------------------------------------------------
(* serverloop.sh *)

Loop(l, from, to) == lpc[l] = from /\ lpc' = [lpc EXCEPT ![l] = to]

\* startserver does not look for a session that is already there.
StartServer(l) ==
  /\ Loop(l, "off", "rmstop")
  /\ UNCHANGED <<stop, jvm, ordered, event, ran, wrote, scriptVars, count,
                 dogVars, crashes>>

RmStop(l) ==
  /\ Loop(l, "rmstop", "boot")
  /\ stop' = FALSE
  /\ UNCHANGED <<jvm, ordered, event, ran, wrote, scriptVars, count,
                 dogVars, crashes>>

\* A second server process finds the port taken and exits.
Boot(l) ==
  /\ \/ jvm = NoLoop /\ Loop(l, "boot", "java") /\ jvm' = l
     \/ jvm # NoLoop /\ Loop(l, "boot", "event") /\ UNCHANGED jvm
  /\ UNCHANGED <<stop, ordered, event, ran, wrote, scriptVars, count,
                 dogVars, crashes>>

JavaExits(l) ==
  /\ Loop(l, "java", "event")
  /\ \/ ordered /\ UNCHANGED crashes
     \/ crashes < MaxCrash /\ crashes' = crashes + 1
  /\ jvm' = NoLoop
  /\ ordered' = FALSE
  /\ UNCHANGED <<stop, event, ran, wrote, scriptVars, count, dogVars>>

RunEvent(l) ==
  /\ Loop(l, "event", "clear")
  /\ ran' = IF event THEN [ran EXCEPT ![l] = @ + 1] ELSE ran
  /\ UNCHANGED <<stop, jvm, ordered, event, wrote, scriptVars, count,
                 dogVars, crashes>>

\* Mutant of ClearEvent: stopevent.sh is only made executable again.
ClearNothing(l) ==
  /\ Loop(l, "clear", "test")
  /\ UNCHANGED <<stop, jvm, ordered, event, ran, wrote, scriptVars, count,
                 dogVars, crashes>>

\* `echo "#!/bin/sh" > stopevent.sh` and the lines appended to it.
ClearEvent(l) ==
  /\ Loop(l, "clear", "test")
  /\ event' = FALSE
  /\ UNCHANGED <<stop, jvm, ordered, ran, wrote, scriptVars, count,
                 dogVars, crashes>>

\* Mutant of TestStop: the test for .STOP is inverted.
TestStopInverted(l) ==
  /\ Loop(l, "test", IF stop THEN "countdown" ELSE "gone")
  /\ UNCHANGED <<stop, jvm, ordered, event, ran, wrote, scriptVars, count,
                 dogVars, crashes>>

TestStop(l) ==
  /\ Loop(l, "test", IF stop THEN "gone" ELSE "countdown")
  /\ UNCHANGED <<stop, jvm, ordered, event, ran, wrote, scriptVars, count,
                 dogVars, crashes>>

\* The three seconds in which .STOP is not looked at again.
Countdown(l) ==
  /\ Loop(l, "countdown", "boot")
  /\ UNCHANGED <<stop, jvm, ordered, event, ran, wrote, scriptVars, count,
                 dogVars, crashes>>

\* The administrator puts a fix in stopevent.sh.
WriteFix ==
  /\ wrote < Fixes
  /\ event' = TRUE
  /\ wrote' = wrote + 1
  /\ UNCHANGED <<stop, lpc, jvm, ordered, ran, scriptVars, count, dogVars, crashes>>

\* Ending a session ends the loop in it; the server process has yet to save
\* and exit, and keeps the port until then.
EndLoops(S) ==
  /\ lpc' = [l \in Loops |-> IF l \in S THEN "gone" ELSE lpc[l]]
  /\ UNCHANGED <<jvm, ordered>>

\* Mutant of OrphanExits: a server process ends and its loop does not notice.
ExitsUnnoticed ==
  /\ jvm # NoLoop
  /\ jvm' = NoLoop /\ ordered' = FALSE
  /\ UNCHANGED <<stop, lpc, event, ran, wrote, scriptVars, count, dogVars, crashes>>

\* A server process whose session was ended exits.
OrphanExits ==
  /\ jvm # NoLoop /\ lpc[jvm] = "gone"
  /\ jvm' = NoLoop /\ ordered' = FALSE
  /\ UNCHANGED <<stop, lpc, event, ran, wrote, scriptVars, count, dogVars, crashes>>

\* `screen -X -S NAME quit` does nothing when several sessions have the name.
KillServer ==
  /\ "killserver" \in Faults
  /\ LET live == {l \in Loops : Live(l)} IN
       EndLoops(IF Cardinality(live) = 1 THEN live ELSE {})
  /\ UNCHANGED <<stop, event, ran, wrote, scriptVars, count, dogVars, crashes>>

------------------------------------------------------------------------------
(* stopserver and restartserver *)

Step(o, from, to) == opc[o] = from /\ opc' = [opc EXCEPT ![o] = to]

\* restartserver removes .STOP before it announces anything.
Begin(o) ==
  /\ Step(o, "idle", "announce")
  /\ stop' = (stop /\ kind[o] = "stop")
  /\ UNCHANGED <<loopVars, kind, count, dogVars, crashes>>

\* Twelve announcements through `send`, a second apart.
Announce(o) ==
  /\ Step(o, "announce", IF kind[o] = "stop" THEN "touch" ELSE "send")
  /\ UNCHANGED <<stop, loopVars, kind, count, dogVars, crashes>>

Touch(o) ==
  /\ Step(o, "touch", "send")
  /\ stop' = TRUE
  /\ UNCHANGED <<loopVars, kind, count, dogVars, crashes>>

SendStop(o) ==
  /\ \/ RCON \notin Present /\ Step(o, "send", "quit") /\ UNCHANGED <<ordered, count>>
     \/ /\ RCON \in Present /\ jvm # NoLoop
        /\ Step(o, "send", "quit")
        /\ ordered' = TRUE
        /\ UNCHANGED count
     \/ /\ RCON \in Present /\ jvm = NoLoop
        /\ Step(o, "send", "stuck")
        /\ count' = [count EXCEPT ![RCON] = @ - 1]
        /\ UNCHANGED ordered
  /\ UNCHANGED <<stop, lpc, jvm, event, ran, wrote, kind, dogVars, crashes>>

\* One of the calls of `send` never returns.
SendHangs(o) ==
  /\ "hang" \in Faults
  /\ Step(o, "announce", "stuck") \/ Step(o, "send", "stuck")
  /\ UNCHANGED <<stop, loopVars, kind, count, dogVars, crashes>>

QuitRcon(o) ==
  /\ Step(o, "quit", "done")
  /\ count' = IF count[RCON] = 1 THEN [count EXCEPT ![RCON] = 0] ELSE count
  /\ UNCHANGED <<stop, loopVars, kind, dogVars, crashes>>

------------------------------------------------------------------------------
(* watchdog.sh, and the helpers *)

DogStart(d) ==
  /\ dpc[d] = "off"
  /\ ~stop
  /\ dpc' = [dpc EXCEPT ![d] = "list"]
  /\ UNCHANGED <<stop, loopVars, scriptVars, count, snap, crashes>>

\* Mutant of Snapshot: grep finds every helper in the list.
SnapshotSeesAll(d) ==
  /\ dpc[d] = "list"
  /\ snap' = [snap EXCEPT ![d] = Helpers]
  /\ dpc' = [dpc EXCEPT ![d] = IF Up THEN HelperOrder[1] ELSE "kill"]
  /\ UNCHANGED <<stop, loopVars, scriptVars, count, crashes>>

\* SCREEN=`screen -ls`, and the test for the server's own session.
Snapshot(d) ==
  /\ dpc[d] = "list"
  /\ snap' = [snap EXCEPT ![d] = Present]
  /\ dpc' = [dpc EXCEPT ![d] = IF Up THEN HelperOrder[1] ELSE "kill"]
  /\ UNCHANGED <<stop, loopVars, scriptVars, count, crashes>>

\* Every session whose name begins with SCREEN_NAME at this moment.
KillAll(d) ==
  /\ dpc[d] = "kill"
  /\ EndLoops({l \in Loops : Live(l)})
  /\ count' = [h \in Helpers |-> 0]
  /\ dpc' = [dpc EXCEPT ![d] = "off"]
  /\ snap' = [snap EXCEPT ![d] = {}]
  /\ UNCHANGED <<stop, event, ran, wrote, scriptVars, crashes>>

\* Mutant of StartHelper: the list is not looked at.
StartAlways(d) ==
  \E i \in 1..Len(HelperOrder) :
    /\ dpc[d] = HelperOrder[i]
    /\ count' = [count EXCEPT ![HelperOrder[i]] = @ + 1]
    /\ dpc' = [dpc EXCEPT ![d] = IF i < Len(HelperOrder) THEN HelperOrder[i + 1] ELSE "off"]
    /\ UNCHANGED <<stop, loopVars, scriptVars, snap, crashes>>

\* Start the helper whose turn it is unless the list has it; having started
\* the relay the watchdog leaves.
StartHelper(d) ==
  \E i \in 1..Len(HelperOrder) :
    /\ dpc[d] = HelperOrder[i]
    /\ count' = IF HelperOrder[i] \in snap[d] THEN count
                ELSE [count EXCEPT ![HelperOrder[i]] = @ + 1]
    /\ dpc' = [dpc EXCEPT ![d] = IF i < Len(HelperOrder) THEN HelperOrder[i + 1]
                                 ELSE IF RCON \in snap[d] THEN "relays" ELSE "off"]
    /\ snap' = IF i < Len(HelperOrder) THEN snap ELSE [snap EXCEPT ![d] = {}]
    /\ UNCHANGED <<stop, loopVars, scriptVars, crashes>>

\* After the mob switch (see MobSwitch), which may take minutes.  `ps -aux |
\* grep` also lists the grep.
CountRelays(d) ==
  /\ dpc[d] = "relays"
  /\ count' = IF count[RCON] + 1 > Target THEN [count EXCEPT ![RCON] = 0] ELSE count
  /\ dpc' = [dpc EXCEPT ![d] = "off"]
  /\ UNCHANGED <<stop, loopVars, scriptVars, snap, crashes>>

\* A helper crashes; a relay also when it finds no server to log in to.
HelperDies(h) ==
  /\ count[h] > 0
  /\ \/ "crash" \in Faults /\ crashes < MaxCrash /\ crashes' = crashes + 1
     \/ h = RCON /\ jvm = NoLoop /\ UNCHANGED crashes
  /\ count' = [count EXCEPT ![h] = @ - 1]
  /\ UNCHANGED <<stop, loopVars, scriptVars, dogVars>>

------------------------------------------------------------------------------

LoopStep(l) ==
  \/ RmStop(l) \/ Boot(l) \/ RunEvent(l) \/ ClearEvent(l) \/ TestStop(l) \/ Countdown(l)
  \/ ordered /\ JavaExits(l)

ScriptStep(o) == Announce(o) \/ Touch(o) \/ SendStop(o) \/ QuitRcon(o)

DogStep(d) ==
  \/ Snapshot(d) \/ KillAll(d) \/ StartHelper(d) \/ CountRelays(d)

Next ==
  \/ \E l \in Loops : StartServer(l) \/ LoopStep(l) \/ JavaExits(l)
  \/ \E o \in Scripts : Begin(o) \/ ScriptStep(o) \/ SendHangs(o)
  \/ \E d \in Dogs : DogStart(d) \/ DogStep(d)
  \/ \E h \in Helpers : HelperDies(h)
  \/ WriteFix \/ KillServer \/ OrphanExits

Spec == Init /\ [][Next]_vars

\* Running scripts run on, a server told to stop or without a session exits,
\* and cron keeps starting watchdogs.
Fairness ==
  /\ \A l \in Loops : WF_vars(LoopStep(l))
  /\ WF_vars(OrphanExits)
  /\ \A o \in Scripts : WF_vars(ScriptStep(o))
  /\ \A d \in Dogs : WF_vars(DogStep(d))
  /\ WF_vars(\E d \in Dogs : DogStart(d))

FairSpec == Spec /\ Fairness

------------------------------------------------------------------------------
(* Properties *)

TypeOK ==
  /\ stop \in BOOLEAN
  /\ lpc \in [Loops -> {"off", "rmstop", "boot", "java", "event", "clear",
                        "test", "countdown", "gone"}]
  /\ jvm \in Loops \cup {NoLoop}
  /\ ordered \in BOOLEAN
  /\ event \in BOOLEAN /\ ran \in [Loops -> Nat] /\ wrote \in 0..Fixes
  /\ kind \in [Scripts -> Kinds]
  /\ opc \in [Scripts -> {"idle", "announce", "touch", "send", "quit",
                          "stuck", "done"}]
  /\ count \in [Helpers -> Nat]
  /\ dpc \in [Dogs -> Helpers \cup {"off", "list", "kill", "relays"}]
  /\ snap \in [Dogs -> SUBSET Helpers]
  /\ crashes \in 0..MaxCrash

\* A loop that waits for its server process waits for the one that runs, and
\* that one waits for nobody else: its loop, or a session that was ended.
OneServer ==
  \A l \in Loops : /\ lpc[l] = "java" => jvm = l
                   /\ jvm = l => lpc[l] \in {"java", "gone"}

\* Each watchdog works from one listing and helpers die, are killed and are
\* quit behind its back, but a helper never has more sessions than there are
\* watchdogs that can overlap: with cron's alone it never runs twice.
HelpersBounded == \A h \in Helpers : count[h] <= Cardinality(Dogs)

\* The helpers from the one whose turn it is to the end of the order.
Remaining(at) == {HelperOrder[j] : j \in {k \in 1..Len(HelperOrder) :
                    \E i \in 1..k : at = HelperOrder[i]}}

\* The watchdogs that have still to start a helper their listing lacks.
WillStart(h) == {d \in Dogs : h \in Remaining(dpc[d]) /\ h \notin snap[d]}

\* The strengthening: with the sessions they will start it has no more either.
StartsBounded ==
  \A h \in Helpers : count[h] + Cardinality(WillStart(h)) <= Cardinality(Dogs)

LifecycleInv == OneServer /\ StartsBounded

\* One run of serverloop.sh runs no fix in stopevent.sh twice, whatever other
\* runs, alive or killed between the run of a fix and its clearing, do to the
\* file.  (Two runs may each run the same fix.)
FixesRunOnce == \A l \in Loops : ran[l] <= wrote

\* A stop that reached the server ends it for good: the process exits, the
\* loop leaves, and .STOP keeps the watchdog away, whatever crashes, is killed
\* or hangs meanwhile.  (`stop` is assumed: a server loop that begins meanwhile
\* removes the file.)
StopCompletes ==
  \A o \in Scripts :
    (kind[o] = "stop" /\ opc[o] = "quit" /\ ordered /\ stop)
      ~> [](~Up /\ jvm = NoLoop /\ stop)

\* A restart that reached the server of a loop brings it back with every
\* helper, although it quits the relay's session itself and helpers crash;
\* unless a watchdog is about to kill for want of a session it listed earlier.
RestartCompletes ==
  \A o \in Scripts :
    (/\ kind[o] = "restart" /\ opc[o] = "quit" /\ ordered
     /\ lpc[jvm] = "java"
     /\ \A d \in Dogs : dpc[d] # "kill")
      ~> (opc[o] = "done" /\ jvm # NoLoop /\ ~ordered /\ Present = Helpers)

\* When the server stays up and .STOP away, all helpers run again and again,
\* whatever crashed, and however often overlapping watchdogs start relays too
\* many and kill all of them.
HelpersHeal == <>[](jvm # NoLoop /\ ~stop) => []<>(Present = Helpers)

===============================================================================
