-------------------------------- MODULE MobSwitch --------------------------------
(***************************************************************************)
(* The mob switch: MBS_STATUS in ENV, the votes and measurements that      *)
(* change it, and the bot that has to be online while it is ON.            *)
(*                                                                         *)
(* Players ask for a vote in the chat (Plugins/mbs.sh) or oppose one       *)
(* (Plugins/vote.sh); the chat daemon runs one of these at a time.  A vote *)
(* is a screen session running Dependencies/vote.sh, which waits 30        *)
(* seconds.  testtps.sh measures twice, and opens a vote or switches by    *)
(* itself.  The watchdog, run by cron, by votes and by testtps.sh, starts  *)
(* and stops the bot through mobswitch, which writes MBS_STATUS as well.   *)
(*                                                                         *)
(* The server is up, apart from restarts, and .STOP is not there.          *)
(***************************************************************************)
EXTENDS Naturals, FiniteSets

CONSTANTS
  Votes,     \* runs of Dependencies/vote.sh in a session, each used once
  Testers,   \* runs of testtps.sh that can overlap: testloop.sh's and cron's
  Crons,     \* runs of watchdog.sh by cron
  MaxTests,  \* bound: measurements
  MaxLoss    \* bound: losses of the bot or the relay

ASSUME SwitchAssumption ==
  /\ Votes \cap Testers = {} /\ Votes \cap Crons = {} /\ Testers \cap Crons = {}
  /\ IsFiniteSet(Votes)
  /\ MaxTests \in Nat /\ MaxLoss \in Nat

Walkers == Votes \cup Testers \cup Crons
Levels == {"pass", "whp", "restart"}   \* what tpsrange.sh prints

VARIABLES
  mode,     \* MBS_MODE
  status,   \* MBS_STATUS
  pc,       \* pc[p]: where a vote, a measurement or a watchdog stands
  want,     \* want[v]: the argument of a vote
  was,      \* was[t]: MBS_STATUS as a measurement read it
  chat,     \* the chat daemon: idle, or the vote it is about to start
  fresh,    \* bot sessions that have not joined yet
  online,   \* the bot is in the player list
  relay,    \* `list` is answered
  applied,  \* votes that have written MBS_STATUS (history)
  tests, losses   \* so far, for the bounds

botVars == <<fresh, online>>
bounds == <<tests, losses>>
vars == <<mode, status, pc, want, was, chat, botVars, relay, applied, bounds>>

Running == {v \in Votes : pc[v] \notin {"free", "gone"}}
Listed == relay /\ online
End(p) == IF p \in Votes THEN "gone" ELSE "idle"
Go(p, from, to) == pc[p] = from /\ pc' = [pc EXCEPT ![p] = to]

Init ==
  /\ mode \in {"AUTO", "MANUAL"}
  /\ status = "OFF"
  /\ pc = [p \in Walkers |-> IF p \in Votes THEN "free" ELSE "idle"]
  /\ want = [v \in Votes |-> "ON"]
  /\ was = [t \in Testers |-> "OFF"]
  /\ chat = "idle"
  /\ fresh = 0 /\ online = FALSE
  /\ relay = TRUE
  /\ applied = {}
  /\ tests = 0 /\ losses = 0

------------------------------------------------------------------------------
(* Votes *)

\* screen -dmSU ...VOTE vote.sh ARG, by process p or by the chat daemon.
Opened(v, arg) == pc[v] = "free" /\ want' = [want EXCEPT ![v] = arg]

\* `screen -X -S ...VOTE quit` does nothing when several sessions have the name.
Quit(f) == [v \in DOMAIN f |-> IF Running = {v} THEN "gone" ELSE f[v]]

\* Plugins/mbs.sh: refused in automatic mode and while a vote is running.
AskVote(arg) ==
  /\ chat = "idle" /\ mode = "MANUAL"
  /\ Running = {}
  /\ \E v \in Votes : pc[v] = "free"   \* bound
  /\ chat' = arg
  /\ UNCHANGED <<mode, status, pc, want, was, botVars, relay, applied, bounds>>

ChatOpens(v) ==
  /\ chat # "idle"
  /\ Opened(v, chat)
  /\ pc' = [pc EXCEPT ![v] = "wait"]
  /\ chat' = "idle"
  /\ UNCHANGED <<mode, status, was, botVars, relay, applied, bounds>>

\* Plugins/vote.sh, mbsoff and mbson alike: quit what there is, tell that it
\* is aborted.
Veto ==
  /\ chat = "idle"
  /\ Running # {}
  /\ pc' = Quit(pc)
  /\ UNCHANGED <<mode, status, want, was, chat, botVars, relay, applied, bounds>>

\* Nobody has opposed for 30 seconds; the watchdog is run at once.
Apply(v) ==
  /\ Go(v, "wait", "enter")
  /\ status' = want[v]
  /\ applied' = applied \cup {v}
  /\ UNCHANGED <<mode, want, was, chat, botVars, relay, bounds>>

------------------------------------------------------------------------------
(* testtps.sh *)

\* MBS_STATUS is read here and used up to a minute later.
Test(t) ==
  /\ tests < MaxTests
  /\ Go(t, "idle", "first")
  /\ was' = [was EXCEPT ![t] = status]
  /\ tests' = tests + 1
  /\ UNCHANGED <<mode, status, want, chat, botVars, relay, applied, losses>>

First(t) ==
  /\ \/ Go(t, "first", IF was[t] = "ON" THEN "pass2" ELSE "idle")
     \/ Go(t, "first", IF was[t] = "ON" THEN "idle" ELSE "whp2")
     \/ Go(t, "first", "res2")
  /\ UNCHANGED <<mode, status, want, was, chat, botVars, relay, applied, bounds>>

\* The scripts ask for "res" where tpsrange.sh prints "restart": after `whp`
\* a second measurement that is even worse ends the script.
Second(t) ==
  /\ \E level \in Levels :
       \/ Go(t, "pass2", IF level = "pass" THEN "0OFF" ELSE "idle")
       \/ Go(t, "whp2", IF level = "whp" THEN "quit" ELSE "idle")
       \/ Go(t, "res2", IF level = "restart" THEN "sed"
                        ELSE IF level = "whp" /\ was[t] = "OFF" THEN "quit" ELSE "idle")
  /\ UNCHANGED <<mode, status, want, was, chat, botVars, relay, applied, bounds>>

\* Mutant of QuitVote: the test of MBS_MODE is inverted.
QuitVoteInverted(t) ==
  /\ pc[t] = "quit"
  /\ pc' = [Quit(pc) EXCEPT ![t] = IF mode = "AUTO" THEN "open" ELSE "0ON"]
  /\ UNCHANGED <<mode, status, want, was, chat, botVars, relay, applied, bounds>>

QuitVote(t) ==
  /\ pc[t] = "quit"
  /\ pc' = [Quit(pc) EXCEPT ![t] = IF mode = "AUTO" THEN "0ON" ELSE "open"]
  /\ UNCHANGED <<mode, status, want, was, chat, botVars, relay, applied, bounds>>

TestOpens(t, v) ==
  /\ pc[t] = "open"
  /\ Opened(v, "ON")
  /\ pc' = [pc EXCEPT ![v] = "wait", ![t] = "idle"]
  /\ UNCHANGED <<mode, status, was, chat, botVars, relay, applied, bounds>>

\* vote.sh 0ON and 0OFF read MBS_STATUS again.
SwitchNow(t) ==
  /\ \/ Go(t, "0ON", IF status = "OFF" THEN "enter" ELSE "idle") /\ status' = "ON"
     \/ Go(t, "0OFF", IF status = "ON" THEN "enter" ELSE "idle") /\ status' = "OFF"
  /\ UNCHANGED <<mode, want, was, chat, botVars, relay, applied, bounds>>

\* restartserver, as far as it concerns the mob switch.
RestartSed(t) ==
  /\ Go(t, "sed", "down")
  /\ status' = "OFF"
  /\ UNCHANGED <<mode, want, was, chat, botVars, relay, applied, bounds>>

RestartDown(t) ==
  /\ Go(t, "down", "idle")
  /\ fresh' = 0 /\ online' = FALSE /\ relay' = FALSE
  /\ UNCHANGED <<mode, status, want, was, chat, applied, bounds>>

------------------------------------------------------------------------------
(* watchdog.sh, lines 38 to 64, and mobswitch *)

\* One of cron's watchdogs at a time is in these lines, unless one hangs.
CronStart(c) ==
  /\ \A d \in Crons : pc[d] = "idle"
  /\ Go(c, "idle", "enter")
  /\ UNCHANGED <<mode, status, want, was, chat, botVars, relay, applied, bounds>>

\* Having started the relay it leaves; otherwise it reads MBS_STATUS.
Enter(p) ==
  /\ Go(p, "enter", IF ~relay THEN End(p) ELSE IF status = "ON" THEN "look" ELSE "lookoff")
  /\ relay' = TRUE
  /\ UNCHANGED <<mode, status, want, was, chat, botVars, applied, bounds>>

\* Mutant of Look: an unlisted bot is taken for a bot that need not run.
LookNeverOn(p) ==
  /\ \/ Go(p, "look", IF Listed THEN "count" ELSE End(p))
     \/ Go(p, "again", End(p))
     \/ relay /\ Go(p, "count", "off")
     \/ Go(p, "count", End(p))
     \/ Go(p, "lookoff", IF Listed THEN "off" ELSE End(p))
  /\ UNCHANGED <<mode, status, want, was, chat, botVars, relay, applied, bounds>>

\* Each of its looks at the player list, seconds apart; how many others are
\* online decides what `list only` prints.
Look(p) ==
  /\ \/ Go(p, "look", IF Listed THEN "count" ELSE "again")
     \/ Go(p, "again", IF Listed THEN End(p) ELSE "on")
     \/ relay /\ Go(p, "count", "off")
     \/ Go(p, "count", End(p))
     \/ Go(p, "lookoff", IF Listed THEN "off" ELSE End(p))
  /\ UNCHANGED <<mode, status, want, was, chat, botVars, relay, applied, bounds>>

\* mobswitch writes what it is told, whatever MBS_STATUS has become.
Write(p) ==
  /\ \/ Go(p, "on", "killon") /\ status' = "ON"
     \/ Go(p, "off", "killoff") /\ status' = "OFF"
  /\ UNCHANGED <<mode, want, was, chat, botVars, relay, applied, bounds>>

\* killall py2, and every session of the bot.
Kill(p) ==
  /\ Go(p, "killon", "start") \/ Go(p, "killoff", End(p))
  /\ fresh' = 0 /\ online' = FALSE
  /\ UNCHANGED <<mode, status, want, was, chat, relay, applied, bounds>>

StartBot(p) ==
  /\ Go(p, "start", End(p))
  /\ fresh' = fresh + 1
  /\ UNCHANGED <<mode, status, want, was, chat, online, relay, applied, bounds>>

------------------------------------------------------------------------------
(* The bot and the relay *)

\* A second login of the account ends the first.
Join ==
  /\ fresh > 0
  /\ fresh' = fresh - 1 /\ online' = TRUE
  /\ UNCHANGED <<mode, status, pc, want, was, chat, relay, applied, bounds>>

\* The bot is thrown out and does not come back by itself, or the relay ends.
Loss ==
  /\ losses < MaxLoss
  /\ losses' = losses + 1
  /\ \/ online /\ online' = FALSE /\ UNCHANGED relay
     \/ relay /\ relay' = FALSE /\ UNCHANGED online
  /\ UNCHANGED <<mode, status, pc, want, was, chat, fresh, applied, tests>>

------------------------------------------------------------------------------

TestStep(t) ==
  \/ First(t) \/ Second(t) \/ QuitVote(t) \/ SwitchNow(t) \/ RestartSed(t) \/ RestartDown(t)
  \/ \E v \in Votes : TestOpens(t, v)
DogStep(p) == Enter(p) \/ Look(p) \/ Write(p) \/ Kill(p) \/ StartBot(p)
ChatStep == \E v \in Votes : ChatOpens(v)

Next ==
  \/ \E arg \in {"ON", "OFF"} : AskVote(arg)
  \/ ChatStep \/ Veto
  \/ \E v \in Votes : Apply(v)
  \/ \E t \in Testers : Test(t) \/ TestStep(t)
  \/ \E c \in Crons : CronStart(c)
  \/ \E p \in Walkers : DogStep(p)
  \/ Join \/ Loss

Spec == Init /\ [][Next]_vars

\* Scripts run on, and cron keeps starting watchdogs, a minute apart, between
\* which a bot has again and again the seconds it needs to join.
Fairness ==
  /\ \A v \in Votes : WF_vars(Apply(v))
  /\ \A t \in Testers : WF_vars(TestStep(t))
  /\ \A p \in Walkers : WF_vars(DogStep(p))
  /\ WF_vars(\E c \in Crons : CronStart(c))
  /\ SF_vars(Join /\ \A c \in Crons : pc[c] = "idle")

FairSpec == Spec /\ Fairness

------------------------------------------------------------------------------
(* Properties *)

Places == {"idle", "free", "wait", "first", "pass2", "whp2", "res2", "quit",
           "open", "0ON", "0OFF", "sed", "down", "enter", "look", "again", "count",
           "lookoff", "on", "off", "killon", "killoff", "start", "gone"}

TypeOK ==
  /\ mode \in {"AUTO", "MANUAL"} /\ status \in {"ON", "OFF"}
  /\ pc \in [Walkers -> Places]
  /\ want \in [Votes -> {"ON", "OFF"}] /\ was \in [Testers -> {"ON", "OFF"}]
  /\ chat \in {"idle", "ON", "OFF"}
  /\ fresh \in Nat /\ online \in BOOLEAN /\ relay \in BOOLEAN
  /\ applied \subseteq Votes
  /\ tests \in 0..MaxTests /\ losses \in 0..MaxLoss

\* In manual mode nothing switches over the players' heads: while the switch
\* is ON some vote for it has waited out its 30 seconds, although watchdogs
\* write MBS_STATUS from what they read before, and measurements switch by
\* themselves in automatic mode.
ByVote == \E v \in applied : want[v] = "ON"

OnOnlyByVote == mode = "MANUAL" /\ status = "ON" => ByVote

\* The strengthening: watchdogs that may still write ON have read ON, and
\* votes that were written are not opened again with another argument.
ReadOnlyByVote ==
  /\ \A v \in applied : pc[v] # "free"
  /\ mode = "MANUAL" => \A p \in Walkers :
       pc[p] # "0ON" /\ (pc[p] \in {"look", "again", "on"} => ByVote)

\* When votes, measurements and losses have ended the switch settles, and bot
\* and MBS_STATUS agree: no two watchdogs undo each other for ever, no stale
\* reading leaves a bot behind, and a bot that was killed comes back.
SwitchSettles ==
  \/ <>[](status = "ON" /\ online)
  \/ <>[](status = "OFF" /\ ~online /\ fresh = 0)

===============================================================================
