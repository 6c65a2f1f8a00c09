------------------------------ MODULE CommandRelay ------------------------------
(***************************************************************************)
(* The file channel between the script `send` and the relay mcdrconnew.py. *)
(*                                                                         *)
(* A sender writes its line to in/input.txt with a background `echo`,      *)
(* waits with inotifywait for a change of out/output.txt and prints its    *)
(* first line.  The relay is woken by inotify on in/input.txt, hands the   *)
(* line it finds there to RCON and echoes the response to out/output.txt.  *)
(*                                                                         *)
(* `echo x > f` is two steps, open with O_TRUNC and write, and each raises *)
(* IN_MODIFY.  The kernel merges an event into an identical one that is    *)
(* still queued, so a relay has at most one queued.  The file keeps the    *)
(* line of the last write as its first line, whatever other writers do.    *)
(* location/send.sh and startlocation.sh are a second channel of the same  *)
(* kind without the tests in front and with a 0.2 s limit (~Guarded).      *)
(***************************************************************************)
EXTENDS Naturals, FiniteSets

CONSTANTS
  Senders,      \* invocations of `send`, each standing for its command line
  Relays,       \* relay processes, each started at most once
  Guarded,      \* TRUE: send;  FALSE: Dependencies/sendcommand/location/send.sh
  Faults,       \* TRUE: relays die or hang, senders are killed
  MaxActive,    \* bound: senders running at one time
  MaxSessions,  \* bound: relays running at one time (2: two watchdogs raced)
  NoLine,       \* the empty first line of a truncated input.txt
  Blank,        \* the empty first line of a truncated output.txt
  Error1, Error3,   \* what `send` prints instead of an answer
  NoReply       \* the call has printed nothing

Marks == {NoLine, Blank, Error1, Error3, NoReply}

ASSUME ConstantsAssumption ==
  /\ Guarded \in BOOLEAN
  /\ Faults \in BOOLEAN
  /\ MaxActive \in Nat
  /\ MaxSessions \in Nat
  /\ Senders \cap Marks = {}
  /\ NoLine \notin {Blank, Error1, Error3, NoReply}

VARIABLES
  sending,  \* .TMP/SENDING exists
  input,    \* the first line of in/input.txt
  output,   \* the first line of out/output.txt
  spc,      \* spc[s]: where the script s stands
  echo,     \* echo[s]: where its background `echo` stands
  result,   \* result[s]: what s printed
  rpc,      \* rpc[r]: where relay r stands
  queued,   \* queued[r]: an IN_MODIFY of input.txt is pending for r
  request,  \* request[r]: the line r read last
  handled,  \* handled[r][s]: times r has handed s's line to RCON (history)
  clean     \* clean[s]: s overlapped no other sender and no older event (history)

senderVars == <<spc, echo, result>>
relayVars == <<rpc, queued, request, handled>>
fileVars == <<sending, input, output>>
vars == <<sending, input, output, spc, echo, result,
          rpc, queued, request, handled, clean>>

SenderStates == {"idle", "screen", "flag", "spin", "touch", "arm", "wait",
                 "read", "remove", "done", "dead"}
RelayStates == {"off", "login", "idle", "read", "exec", "open", "write",
                "hung", "dead"}

Lines == Senders \cup {NoLine}
Answers == Lines \cup {Blank}

Active == {s \in Senders : spc[s] \notin {"idle", "done", "dead"}}
Sessions == {r \in Relays : rpc[r] \notin {"off", "dead"}}
Watching(r) == rpc[r] \notin {"off", "login", "dead"}

\* Nothing of an earlier call is left in the channel.
Quiet ==
  /\ Active = {}
  /\ \A s \in Senders : echo[s] \in {"none", "done"}
  /\ \A r \in Relays : ~queued[r] /\ rpc[r] \in {"off", "login", "idle", "hung", "dead"}

Init ==
  /\ sending = FALSE
  /\ input = NoLine
  /\ output = Blank
  /\ spc = [s \in Senders |-> "idle"]
  /\ echo = [s \in Senders |-> "none"]
  /\ result = [s \in Senders |-> NoReply]
  /\ rpc = [r \in Relays |-> "off"]
  /\ queued = [r \in Relays |-> FALSE]
  /\ request = [r \in Relays |-> NoLine]
  /\ handled = [r \in Relays |-> [s \in Senders |-> 0]]
  /\ clean = [s \in Senders |-> FALSE]

------------------------------------------------------------------------------
(* The script `send`. *)

Goto(s, there) == spc' = [spc EXCEPT ![s] = there]

\* `echo $STR > input.txt &` is started by the step that comes to inotifywait.
Launch(s) ==
  /\ Goto(s, "arm")
  /\ echo' = [echo EXCEPT ![s] = "open"]

Start(s) ==
  /\ spc[s] = "idle"
  /\ Cardinality(Active) < MaxActive
  /\ clean' = [t \in Senders |-> IF t = s THEN Quiet ELSE clean[t] /\ t \notin Active]
  /\ IF Guarded THEN Goto(s, "screen") /\ UNCHANGED echo ELSE Launch(s)
  /\ UNCHANGED <<fileVars, result, relayVars>>

\* `screen -ls | grep RCON`: without a relay session print Error1 and exit.
TestScreen(s) ==
  /\ spc[s] = "screen"
  /\ \/ /\ Sessions # {}
        /\ Goto(s, "flag")
        /\ UNCHANGED result
     \/ /\ Sessions = {}
        /\ Goto(s, "done")
        /\ result' = [result EXCEPT ![s] = Error1]
  /\ UNCHANGED <<fileVars, echo, relayVars, clean>>

TestFlag(s) ==
  /\ spc[s] = "flag"
  /\ Goto(s, IF sending THEN "spin" ELSE "touch")
  /\ UNCHANGED <<fileVars, echo, result, relayVars, clean>>

\* The loop ends when SENDING is there, and goes on while it is not.
Spin(s) ==
  /\ spc[s] = "spin"
  /\ sending
  /\ Goto(s, "touch")
  /\ UNCHANGED <<fileVars, echo, result, relayVars, clean>>

Touch(s) ==
  /\ spc[s] = "touch"
  /\ sending' = TRUE
  /\ Launch(s)
  /\ UNCHANGED <<input, output, result, relayVars, clean>>

\* inotifywait has set its watch on output.txt.
Arm(s) ==
  /\ spc[s] = "arm"
  /\ Goto(s, "wait")
  /\ UNCHANGED <<fileVars, echo, result, relayVars, clean>>

\* Mutant of GiveUp: the error branch exits before `rm -f SENDING`.
GiveUpKeepsFlag(s) ==
  /\ \/ Guarded /\ Faults /\ spc[s] = "arm"
     \/ ~Guarded /\ spc[s] \in {"arm", "wait"}
  /\ Goto(s, "done")
  /\ result' = [result EXCEPT ![s] = Error3]
  /\ UNCHANGED <<fileVars, echo, relayVars, clean>>

\* Mutant of GiveUp: `timeout 0.2s` is missing.
GiveUpOnlyUnarmed(s) ==
  /\ spc[s] = "arm"
  /\ Goto(s, IF Guarded THEN "remove" ELSE "done")
  /\ result' = [result EXCEPT ![s] = Error3]
  /\ UNCHANGED <<fileVars, echo, relayVars, clean>>

\* inotifywait returns non-zero: it cannot watch the file, or `timeout` ends it.
GiveUp(s) ==
  /\ \/ Guarded /\ Faults /\ spc[s] = "arm"
     \/ ~Guarded /\ spc[s] \in {"arm", "wait"}
  /\ Goto(s, IF Guarded THEN "remove" ELSE "done")
  /\ result' = [result EXCEPT ![s] = Error3]
  /\ UNCHANGED <<fileVars, echo, relayVars, clean>>

\* `head -1 output.txt`
ReadOut(s) ==
  /\ spc[s] = "read"
  /\ Goto(s, IF Guarded THEN "remove" ELSE "done")
  /\ result' = [result EXCEPT ![s] = output]
  /\ UNCHANGED <<fileVars, echo, relayVars, clean>>

\* `rm -f SENDING`, whoever made it.
Remove(s) ==
  /\ spc[s] = "remove"
  /\ sending' = FALSE
  /\ Goto(s, "done")
  /\ UNCHANGED <<input, output, echo, result, relayVars, clean>>

\* The session that runs `send` is quit: SENDING stays, so does the `echo`.
KillSender(s) ==
  /\ Faults
  /\ s \in Active
  /\ Goto(s, "dead")
  /\ UNCHANGED <<fileVars, echo, result, relayVars, clean>>

------------------------------------------------------------------------------
(* The background `echo`, and the events it raises for the relays. *)

NotifyRelays == queued' = [r \in Relays |-> queued[r] \/ Watching(r)]

EchoOpen(s) ==
  /\ echo[s] = "open"
  /\ echo' = [echo EXCEPT ![s] = "write"]
  /\ input' = NoLine
  /\ NotifyRelays
  /\ UNCHANGED <<sending, output, spc, result, rpc, request, handled, clean>>

EchoWrite(s) ==
  /\ echo[s] = "write"
  /\ echo' = [echo EXCEPT ![s] = "done"]
  /\ input' = s
  /\ NotifyRelays
  /\ UNCHANGED <<sending, output, spc, result, rpc, request, handled, clean>>

------------------------------------------------------------------------------
(* The relay mcdrconnew.py. *)

\* The watchdog starts the RCON session; the relay opens input.txt and logs in.
RelayStart(r) ==
  /\ rpc[r] = "off"
  /\ Cardinality(Sessions) < MaxSessions
  /\ rpc' = [rpc EXCEPT ![r] = "login"]
  /\ UNCHANGED <<fileVars, senderVars, queued, request, handled, clean>>

\* add_watch: a change made before it is never seen.
RelayReady(r) ==
  /\ rpc[r] = "login"
  /\ rpc' = [rpc EXCEPT ![r] = "idle"]
  /\ UNCHANGED <<fileVars, senderVars, queued, request, handled, clean>>

\* Mutant of Take: the event stays queued.
TakeKeepsEvent(r) ==
  /\ rpc[r] = "idle"
  /\ queued[r]
  /\ rpc' = [rpc EXCEPT ![r] = "read"]
  /\ UNCHANGED <<fileVars, senderVars, queued, request, handled, clean>>

\* notifier.loop takes the queued event and calls process_IN_MODIFY.
Take(r) ==
  /\ rpc[r] = "idle"
  /\ queued[r]
  /\ queued' = [queued EXCEPT ![r] = FALSE]
  /\ rpc' = [rpc EXCEPT ![r] = "read"]
  /\ UNCHANGED <<fileVars, senderVars, request, handled, clean>>

\* Mutant of ReadLine: without seek(0) the first line read stays the request.
ReadLineOnce(r) ==
  /\ rpc[r] = "read"
  /\ rpc' = [rpc EXCEPT ![r] = "exec"]
  /\ request' = [request EXCEPT ![r] = IF @ = NoLine THEN input ELSE @]
  /\ handled' = [handled EXCEPT ![r] =
                   [s \in Senders |-> @[s] + IF s = input THEN 1 ELSE 0]]
  /\ UNCHANGED <<fileVars, senderVars, queued, clean>>

\* seek(0), readline(), send_command(request)
ReadLine(r) ==
  /\ rpc[r] = "read"
  /\ rpc' = [rpc EXCEPT ![r] = "exec"]
  /\ request' = [request EXCEPT ![r] = input]
  /\ handled' = [handled EXCEPT ![r] =
                   [s \in Senders |-> @[s] + IF s = input THEN 1 ELSE 0]]
  /\ UNCHANGED <<fileVars, senderVars, queued, clean>>

\* send_command returned a string: os.system starts the `echo`.
Answer(r) ==
  /\ rpc[r] = "exec"
  /\ rpc' = [rpc EXCEPT ![r] = "open"]
  /\ UNCHANGED <<fileVars, senderVars, queued, request, handled, clean>>

\* It returned None and the concatenation raised; connect() raised at the
\* start; or `screen -X quit` ended the session.
RelayDies(r) ==
  /\ Faults
  /\ r \in Sessions
  /\ rpc' = [rpc EXCEPT ![r] = "dead"]
  /\ queued' = [queued EXCEPT ![r] = FALSE]
  /\ UNCHANGED <<fileVars, senderVars, request, handled, clean>>

\* The server closed the connection: receive() loops on empty reads.
RelayHangs(r) ==
  /\ Faults
  /\ rpc[r] = "exec"
  /\ rpc' = [rpc EXCEPT ![r] = "hung"]
  /\ UNCHANGED <<fileVars, senderVars, queued, request, handled, clean>>

\* Mutant of NotifySenders: output.txt is replaced by a new file, which the
\* watch on the old one does not see.
NotifyNobody == UNCHANGED spc

\* Every armed inotifywait returns at the first change of output.txt.
NotifySenders ==
  spc' = [s \in Senders |-> IF spc[s] = "wait" THEN "read" ELSE spc[s]]

OutOpen(r) ==
  /\ rpc[r] = "open"
  /\ rpc' = [rpc EXCEPT ![r] = "write"]
  /\ output' = Blank
  /\ NotifySenders
  /\ UNCHANGED <<sending, input, echo, result, queued, request, handled, clean>>

\* Mutant of OutWrite: the failed command's None is written as it is.
OutWriteNone(r) ==
  /\ rpc[r] = "write"
  /\ rpc' = [rpc EXCEPT ![r] = "idle"]
  /\ output' = NoReply
  /\ NotifySenders
  /\ UNCHANGED <<sending, input, echo, result, queued, request, handled, clean>>

OutWrite(r) ==
  /\ rpc[r] = "write"
  /\ rpc' = [rpc EXCEPT ![r] = "idle"]
  /\ output' = request[r]
  /\ NotifySenders
  /\ UNCHANGED <<sending, input, echo, result, queued, request, handled, clean>>

------------------------------------------------------------------------------

SenderStep(s) ==
  \/ TestScreen(s) \/ TestFlag(s) \/ Spin(s) \/ Touch(s) \/ Arm(s)
  \/ GiveUp(s) \/ ReadOut(s) \/ Remove(s)

EchoStep(s) == EchoOpen(s) \/ EchoWrite(s)

RelayStep(r) ==
  \/ RelayReady(r) \/ Take(r) \/ ReadLine(r) \/ Answer(r)
  \/ OutOpen(r) \/ OutWrite(r)

Next ==
  \/ \E s \in Senders : Start(s) \/ SenderStep(s) \/ KillSender(s) \/ EchoStep(s)
  \/ \E r \in Relays : RelayStart(r) \/ RelayStep(r) \/ RelayDies(r) \/ RelayHangs(r)

Spec == Init /\ [][Next]_vars

\* Every process runs on: the scripts, their `echo`s and the relays are
\* scheduled by the kernel.  Nothing makes callers call or relays start.
Fairness ==
  /\ \A s \in Senders : WF_vars(SenderStep(s)) /\ WF_vars(EchoStep(s))
  /\ \A r \in Relays : WF_vars(RelayStep(r))

FairSpec == Spec /\ Fairness

------------------------------------------------------------------------------
(* Properties *)

TypeOK ==
  /\ sending \in BOOLEAN
  /\ input \in Lines
  /\ output \in Answers
  /\ spc \in [Senders -> SenderStates]
  /\ echo \in [Senders -> {"none", "open", "write", "done"}]
  /\ result \in [Senders -> Answers \cup {Error1, Error3, NoReply}]
  /\ rpc \in [Relays -> RelayStates]
  /\ queued \in [Relays -> BOOLEAN]
  /\ request \in [Relays -> Lines]
  /\ handled \in [Relays -> [Senders -> Nat]]
  /\ clean \in [Senders -> BOOLEAN]

\* One `echo` raises two events, and a relay hands a line to RCON at most
\* twice for them: whatever other senders and relays do, an event that comes
\* from another `echo` finds the other line, or none, in input.txt.
HandledAtMostTwice ==
  \A r \in Relays, s \in Senders : handled[r][s] <= 2

\* The strengthening of HandledAtMostTwice: the line in input.txt can be
\* read as often as events for it are under way, and before the write never.
ReadsLeft(r) == (IF queued[r] THEN 1 ELSE 0) + (IF rpc[r] = "read" THEN 1 ELSE 0)

InputBound ==
  /\ \A r \in Relays, s \in Senders : input = s => handled[r][s] + ReadsLeft(r) <= 2
  /\ \A s \in Senders : echo[s] # "done" =>
       input # s /\ \A r \in Relays : handled[r][s] = 0

\* A script launches one `echo`, and prints once, at its end.
CallOrder ==
  \A s \in Senders :
    /\ spc[s] \in {"idle", "screen", "flag", "spin", "touch"} => echo[s] = "none"
    /\ result[s] # NoReply => spc[s] \in {"remove", "done", "dead"}

\* A sender that overlapped no other sender and no late event of an earlier
\* one never prints the answer to another line: its own, an empty line, the
\* answer to the empty line, or an error.
AnswerIntegrity ==
  \A s \in Senders : clean[s] /\ result[s] # NoReply =>
    result[s] \in {s, NoLine, Blank, Error1, Error3}

\* The strengthening of AnswerIntegrity: while a clean call runs, whatever is
\* on its way through the channel is its own.  Older lines may still lie in
\* the two files; nobody is about to read them.
ChannelIsOwn ==
  \A s \in Active : clean[s] =>
    /\ \A t \in Senders \ {s} : t \notin Active /\ echo[t] \in {"none", "done"}
    /\ \A r \in Relays :
         /\ rpc[r] \in {"exec", "open", "write"} => request[r] \in {s, NoLine}
         /\ queued[r] \/ rpc[r] = "read" => input \in {s, NoLine}
    /\ spc[s] = "read" => output \in {s, NoLine, Blank}

\* SENDING is only left by calls that are on their way or were killed on it:
\* any call that ends by itself leaves the channel without the flag, whoever
\* made it, so that later calls neither find an old flag nor wait for it.
FlagHasOwner ==
  sending => \E s \in Senders : echo[s] # "none" /\ spc[s] # "done"

\* A sender whose watch is set before its `echo` has opened input.txt, with a
\* relay that watches that file, gets an answer: the response is written
\* after the watch was set.
ArmedCallReturns ==
  \A s \in Senders :
    (/\ spc[s] = "wait"
     /\ echo[s] = "open"
     /\ \E r \in Relays : Watching(r)) ~> spc[s] = "done"

\* Every call of location/send.sh ends, whatever relays and sessions do: the
\* limit on inotifywait makes up for a lost or missing answer.
EveryCallEnds ==
  \A s \in Senders : s \in Active ~> s \notin Active

------------------------------------------------------------------------------
(* The channel implements CommandChannel. *)

phaseBar ==
  [s \in Senders |-> CASE spc[s] = "idle" -> "new"
                       [] spc[s] \in {"done", "dead"} -> "returned"
                       [] OTHER -> "called"]

Abstract == INSTANCE CommandChannel WITH phase <- phaseBar, delivered <- handled

\* A line reaches RCON only after its script was called, at most twice per
\* relay, and a call starts and ends once.
ImplementsChannel == Abstract!Spec

===============================================================================
