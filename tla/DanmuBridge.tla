---------------------------- MODULE DanmuBridge ----------------------------
(***************************************************************************)
(* Dependencies/danmu: the comments of a live room in the game.  A session *)
(* of a player is start.sh in a screen session of the player, which starts *)
(* startnow.sh in another one (a Go program that writes the room's         *)
(* comments to logs/ROOM.log, started again and again) and runs send.py    *)
(* (which watches that file and tells the player its last line).  All      *)
(* sessions here follow one room, so that they share the file.             *)
(*                                                                         *)
(* A comment is a number, the comments of a room are numbered as they are  *)
(* made; Other stands for every other command and every other line.        *)
(***************************************************************************)
EXTENDS Naturals, FiniteSets, Sequences, SequencesExt

CONSTANTS
  Sessions,     \* players with a session in the room
  Capacity,     \* size of a channel: 10 in pool.go
  MaxRepeats,   \* reads of a failed connection before it panics: 1000
  MaxRetries,   \* times that send.py tells a line again: 3
  MaxSaid,      \* bound: comments
  MaxWire,      \* bound: packets under way on a connection
  Budgets       \* bounds: how often what happens from outside happens

ASSUME DanmuAssumption ==
  /\ IsFiniteSet(Sessions)
  /\ {Capacity, MaxRepeats, MaxWire} \subseteq Nat \ {0} /\ {MaxRetries, MaxSaid} \subseteq Nat
  /\ Budgets \subseteq [players : SUBSET Sessions,
                         starts : Nat, ends : Nat, losses : Nat, plain : Nat, said : Nat]

VARIABLES
  script,    \* what start.sh of each player does next
  traps,     \* the traps of ended start.sh that are still to quit the Go
             \* program's session, and those still to remove the file
  path,      \* the file that logs/ROOM.log names, 0: there is none
  last,      \* the last line of that file
  go,        \* the Go program of each session
  py,        \* the send.py of each session
  said,      \* comments made in the room
  shown,     \* history: the comment whose text a session has told last
  unread,    \* history: sessions with a line written since send.py read the file
  alone,     \* history: sessions that have never shared their file
  latest,    \* history: sessions after whose start the file was not removed
  left       \* what the budget leaves of `!!bili start`, ends of the three minutes,
             \* connections lost, uncompressed packets and comments

vars == <<script, traps, path, last, go, py, said, shown, unread, alone, latest, left>>

Files == 1..(2 * Cardinality(Sessions) + 1)
Other == 0
Lines == 0..MaxSaid

\* A packet is the sequence of its commands.  An uncompressed packet holds
\* Plain, on its way to MsgUncompressed; Joined answers the handshake.
Plain == MaxSaid + 1
Joined == <<>>

-----------------------------------------------------------------------------
(* The Go program: main, ReceiveMsg, the pool's Handle, HeartBeat. *)

\* pc: "off" without a screen session, "new" before its first start, "none"
\* between two starts.
\* hand: the commands of its message that ReceiveMsg has still to look at;
\* printed: history.
Stopped(pc) ==
  [pc |-> pc, out |-> 0, open |-> FALSE, connected |-> FALSE, repeats |-> 0,
   wire |-> <<>>, hand |-> <<>>, msg |-> <<>>, uncompressed |-> 0,
   printed |-> {}]

\* A program that is about to connect.
Started(file) == [Stopped("dial") EXCEPT !.out = file]

NoRelay ==
  [pc |-> "off", watch |-> 0, queued |-> FALSE, name |-> Other, text |-> Other, depth |-> 0]

Init ==
  /\ script = [s \in Sessions |-> "off"]
  /\ traps = [s \in Sessions |-> [quit |-> 0, remove |-> 0]]
  /\ path = 0 /\ last = Other
  /\ go = [s \in Sessions |-> Stopped("off")]
  /\ py = [s \in Sessions |-> NoRelay]
  /\ said = 0
  /\ shown = [s \in Sessions |-> 0]
  /\ unread = {} /\ alone = {} /\ latest = {}
  /\ left \in Budgets

\* A line is appended: one write, and one IN_MODIFY for each watch of the file,
\* which the kernel merges into an equal one that is still queued.
Modify(file) ==
  /\ py' = [t \in Sessions |->
       [py[t] EXCEPT !.queued = @ \/ py[t].watch = file]]
  /\ unread' = unread \cup {t \in Sessions : py[t].watch = file /\ path' = file}

Append1(file, line) ==
  /\ last' = IF path = file THEN line ELSE last
  /\ path' = path
  /\ Modify(file)

\* A file that nobody has open.
NewFile ==
  CHOOSE f \in Files :
    f \notin {go[t].out : t \in Sessions} \cup {py[t].watch : t \in Sessions}

Spend(what) == left[what] > 0 /\ left' = [left EXCEPT ![what] = @ - 1]

\* startnow.sh: the shell opens the file, creating it, and main prints the room.
Launch(s) ==
  /\ go[s].pc \in {"new", "none"}
  /\ path' = IF path # 0 THEN path ELSE NewFile
  /\ go' = [go EXCEPT ![s] = Started(path')]
  /\ last' = Other
  /\ Modify(path')
  /\ UNCHANGED <<script, traps, said, shown, alone, latest, left>>

\* Client.Start
Dial(s) ==
  /\ go[s].pc = "dial"
  /\ go' = [go EXCEPT ![s].pc = "run", ![s].open = TRUE]
  /\ Append1(go[s].out, Other)
  /\ UNCHANGED <<script, traps, said, shown, alone, latest, left>>

\* The error is printed and main returns.
DialFails(s) ==
  /\ go[s].pc = "dial" /\ Spend("losses")
  /\ go' = [go EXCEPT ![s] = Stopped("none")]
  /\ Append1(go[s].out, Other)
  /\ UNCHANGED <<script, traps, said, shown, alone, latest>>

\* Mutant: the commands of a packet are taken from its end.
ReceiveBackwards(s) ==
  /\ go[s].pc = "run" /\ go[s].hand = <<>> /\ go[s].wire # <<>>
  /\ LET packet == Head(go[s].wire)
         rest == [go[s] EXCEPT !.wire = Tail(@)]
     IN \/ /\ packet = Joined
           /\ go' = [go EXCEPT ![s] = [rest EXCEPT !.connected = TRUE]]
           /\ Append1(go[s].out, Other)
        \/ /\ packet # Joined
           /\ go' = [go EXCEPT ![s] = [rest EXCEPT !.hand = Reverse(packet)]]
           /\ UNCHANGED <<path, last, py, unread>>
  /\ UNCHANGED <<script, traps, said, shown, alone, latest, left>>

\* ReceiveMsg reads a message and looks at its type.
Receive(s) ==
  /\ go[s].pc = "run" /\ go[s].hand = <<>> /\ go[s].wire # <<>>
  /\ LET packet == Head(go[s].wire)
         rest == [go[s] EXCEPT !.wire = Tail(@)]
     IN \/ /\ packet = Joined
           /\ go' = [go EXCEPT ![s] = [rest EXCEPT !.connected = TRUE]]
           /\ Append1(go[s].out, Other)
        \/ /\ packet # Joined
           /\ go' = [go EXCEPT ![s] = [rest EXCEPT !.hand = packet]]
           /\ UNCHANGED <<path, last, py, unread>>
  /\ UNCHANGED <<script, traps, said, shown, alone, latest, left>>

\* Mutant: a comment that finds the channel full is dropped.
PutOrDrop(s) ==
  /\ go[s].hand # <<>>
  /\ LET c == Head(go[s].hand)
         rest == [go[s] EXCEPT !.hand = Tail(@)]
     IN \/ /\ c = Plain /\ go[s].uncompressed < Capacity
           /\ go' = [go EXCEPT ![s] = [rest EXCEPT !.uncompressed = @ + 1]]
        \/ /\ c # Plain
           /\ go' = [go EXCEPT ![s] = IF c # Other /\ Len(go[s].msg) < Capacity
                                      THEN [rest EXCEPT !.msg = Append(@, c)] ELSE rest]
  /\ UNCHANGED <<script, traps, path, last, py, said, shown, unread, alone, latest, left>>

\* ... and goes through its commands: a comment, or a whole uncompressed packet,
\* goes into a channel, when there is room; other commands are passed over.
Put(s) ==
  /\ go[s].hand # <<>>
  /\ LET c == Head(go[s].hand)
         rest == [go[s] EXCEPT !.hand = Tail(@)]
     IN \/ /\ c = Other
           /\ go' = [go EXCEPT ![s] = rest]
        \/ /\ c = Plain /\ go[s].uncompressed < Capacity
           /\ go' = [go EXCEPT ![s] = [rest EXCEPT !.uncompressed = @ + 1]]
        \/ /\ c \notin {Other, Plain} /\ Len(go[s].msg) < Capacity
           /\ go' = [go EXCEPT ![s] = [rest EXCEPT !.msg = Append(@, c)]]
  /\ UNCHANGED <<script, traps, path, last, py, said, shown, unread, alone, latest, left>>

\* Pool.Handle
Handle(s) ==
  /\ go[s].msg # <<>>
  /\ go' = [go EXCEPT ![s].msg = Tail(@), ![s].printed = @ \cup {Head(go[s].msg)}]
  /\ Append1(go[s].out, Head(go[s].msg))
  /\ UNCHANGED <<script, traps, said, shown, alone, latest, left>>

\* Mutant: the reads of a failed connection never panic.
ReadFailsForEver(s) ==
  /\ go[s].pc = "run" /\ go[s].hand = <<>> /\ go[s].wire = <<>> /\ ~go[s].open
  /\ go' = [go EXCEPT ![s].repeats = 1]
  /\ UNCHANGED <<script, traps, path, last, py, said, shown, unread, alone, latest, left>>

\* ReceiveMsg reads a failed connection again, until the library panics: the
\* program ends, with what is left in the channels.
ReadFails(s) ==
  /\ go[s].pc = "run" /\ go[s].hand = <<>> /\ go[s].wire = <<>> /\ ~go[s].open
  /\ \/ go[s].repeats + 1 < MaxRepeats /\ go' = [go EXCEPT ![s].repeats = @ + 1]
     \/ go[s].repeats + 1 >= MaxRepeats /\ go' = [go EXCEPT ![s] = Stopped("none")]
  /\ UNCHANGED <<script, traps, path, last, py, said, shown, unread, alone, latest, left>>

\* HeartBeat on a failed connection prints its error at once again and again.
HeartBeatFails(s) ==
  /\ go[s].pc = "run" /\ go[s].connected /\ ~go[s].open
  /\ Append1(go[s].out, Other)
  /\ UNCHANGED <<script, traps, go, said, shown, alone, latest, left>>

\* The three minutes of main are over.
EndMain(s) ==
  /\ go[s].pc = "run" /\ Spend("ends")
  /\ go' = [go EXCEPT ![s] = Stopped("none")]
  /\ UNCHANGED <<script, traps, path, last, py, said, shown, unread, alone, latest>>

-----------------------------------------------------------------------------
(* send.py *)

\* start.sh starts it three seconds after startnow.sh: the file has been
\* opened once; it need not be there any more.
RelayStart(s) ==
  /\ script[s] = "loop" /\ go[s].pc # "new" /\ py[s].pc = "off"
  /\ py' = [py EXCEPT ![s] = [NoRelay EXCEPT !.pc = "idle", !.watch = path]]
  /\ UNCHANGED <<script, traps, path, last, go, said, shown, unread, alone, latest, left>>

\* Mutant: events that come while one is handled are forgotten.
TellAndForget(s) ==
  /\ py[s].pc = "tell"
  /\ py' = [py EXCEPT ![s] = [@ EXCEPT !.pc = "idle", !.name = Other, !.text = Other,
                                       !.depth = 0, !.queued = FALSE]]
  /\ shown' = [shown EXCEPT ![s] = IF py[s].text = Other THEN @ ELSE py[s].text]
  /\ UNCHANGED <<script, traps, path, last, go, said, unread, alone, latest, left>>

\* process_IN_MODIFY takes an event and runs `tail -1` for the name,
ReadName(s) ==
  /\ py[s].pc = "idle" /\ py[s].queued
  /\ py' = [py EXCEPT ![s] = [@ EXCEPT !.pc = "text", !.queued = FALSE, !.name = last]]
  /\ UNCHANGED <<script, traps, path, last, go, said, shown, unread, alone, latest, left>>

\* again for the text,
ReadText(s) ==
  /\ py[s].pc = "text"
  /\ py' = [py EXCEPT ![s] = [@ EXCEPT !.pc = "tell", !.text = last]]
  /\ unread' = unread \ {s}
  /\ UNCHANGED <<script, traps, path, last, go, said, shown, alone, latest, left>>

Told(s) == shown' = [shown EXCEPT ![s] = IF py[s].text = Other THEN @ ELSE py[s].text]

Idle(s) ==
  py' = [py EXCEPT ![s] = [@ EXCEPT !.pc = "idle", !.name = Other, !.text = Other, !.depth = 0]]

\* and tells the player.
Tell(s) ==
  /\ py[s].pc = "tell" /\ Told(s) /\ Idle(s)
  /\ UNCHANGED <<script, traps, path, last, go, said, unread, alone, latest, left>>

\* An exception, before or after the game server has done the command:
\* send_command connects and tells the line once more, or returns None.
TellAgain(s) ==
  /\ py[s].pc = "tell" /\ Spend("losses")
  /\ Told(s) \/ UNCHANGED shown
  /\ \/ py[s].depth < MaxRetries /\ py' = [py EXCEPT ![s].depth = @ + 1]
     \/ Idle(s)
  /\ UNCHANGED <<script, traps, path, last, go, said, unread, alone, latest>>

\* Rcon.receive on a connection that the game server has closed.
TellHangs(s) ==
  /\ py[s].pc = "tell" /\ Spend("losses")
  /\ py' = [py EXCEPT ![s].pc = "hung"]
  /\ UNCHANGED <<script, traps, path, last, go, said, shown, unread, alone, latest>>

-----------------------------------------------------------------------------
(* The players, with Plugins/bili.sh, and start.sh up to its loop. *)

RemoveFile == path' = 0 /\ last' = Other

\* `!!bili start`, when the player's screen session is gone: start.sh removes
\* the file,
StartBili(s) ==
  /\ s \in left.players /\ script[s] = "off" /\ Spend("starts")
  /\ script' = [script EXCEPT ![s] = "quit"]
  /\ RemoveFile
  /\ alone' = {} /\ latest' = {s}
  /\ UNCHANGED <<traps, go, py, said, shown, unread>>

Busy(s) == script[s] # "off" \/ go[s].pc # "off"

\* quits the session that an earlier one may have left,
QuitOld(s) ==
  /\ script[s] = "quit" /\ script' = [script EXCEPT ![s] = "launch"]
  /\ go' = [go EXCEPT ![s] = Stopped("off")]
  /\ alone' = IF last = Other /\ \A t \in Sessions \ {s} : ~ Busy(t) THEN {s} ELSE {}
  /\ UNCHANGED <<traps, path, last, py, said, shown, unread, latest, left>>

\* starts startnow.sh in a new one,
NewSession(s) ==
  /\ script[s] = "launch" /\ script' = [script EXCEPT ![s] = "trap"]
  /\ go' = [go EXCEPT ![s] = Stopped("new")]
  /\ UNCHANGED <<traps, path, last, py, said, shown, unread, alone, latest, left>>

\* and sets its trap.
SetTrap(s) ==
  /\ script[s] = "trap" /\ script' = [script EXCEPT ![s] = "loop"]
  /\ UNCHANGED <<traps, path, last, go, py, said, shown, unread, alone, latest, left>>

\* `!!bili stop` quits the player's session, and with it start.sh and send.py.
\* Without its trap start.sh leaves the Go program's session as it is.
StopBili(s) ==
  /\ script[s] # "off" /\ script' = [script EXCEPT ![s] = "off"]
  /\ traps' = IF script[s] = "loop" THEN [traps EXCEPT ![s].quit = @ + 1] ELSE traps
  /\ py' = [py EXCEPT ![s] = NoRelay]
  /\ alone' = alone \ {s} /\ latest' = latest \ {s} /\ unread' = unread \ {s}
  /\ shown' = [shown EXCEPT ![s] = 0]
  /\ UNCHANGED <<path, last, go, said, left>>

\* The trap quits the session of the Go program, which may be a newer one,
TrapQuits(s) ==
  /\ traps[s].quit > 0
  /\ traps' = [traps EXCEPT ![s].quit = @ - 1, ![s].remove = @ + 1]
  /\ go' = [go EXCEPT ![s] = Stopped("off")]
  /\ UNCHANGED <<script, path, last, py, said, shown, unread, alone, latest, left>>

\* and removes the file.
TrapRemoves(s) ==
  /\ traps[s].remove > 0 /\ traps' = [traps EXCEPT ![s].remove = @ - 1]
  /\ RemoveFile /\ latest' = {}
  /\ UNCHANGED <<script, go, py, said, shown, unread, alone, left>>

-----------------------------------------------------------------------------
(* The live room's server. *)

Welcome(s) ==
  /\ go[s].open /\ ~go[s].connected /\ go[s].wire = <<>>
  /\ go' = [go EXCEPT ![s].wire = <<Joined>>]
  /\ UNCHANGED <<script, traps, path, last, py, said, shown, unread, alone, latest, left>>

Follows(s) == go[s].open /\ go[s].connected

Broadcast(packet) ==
  /\ \A s \in Sessions : Follows(s) => Len(go[s].wire) < MaxWire
  /\ go' = [s \in Sessions |->
       IF Follows(s) THEN [go[s] EXCEPT !.wire = Append(@, packet)] ELSE go[s]]

\* One or two comments in a compressed packet, with other commands.
Say ==
  /\ \E packet \in {<<said + 1>>, <<said + 1, Other, said + 2>>} :
       /\ Broadcast(packet)
       /\ said' = packet[Len(packet)]
  /\ said' <= MaxSaid /\ Spend("said")
  /\ UNCHANGED <<script, traps, path, last, py, shown, unread, alone, latest>>

SendPlain ==
  /\ Spend("plain")
  /\ Broadcast(<<Plain>>)
  /\ UNCHANGED <<script, traps, path, last, py, said, shown, unread, alone, latest>>

HangUp(s) ==
  /\ go[s].open /\ Spend("losses")
  /\ go' = [go EXCEPT ![s].open = FALSE]
  /\ UNCHANGED <<script, traps, path, last, py, said, shown, unread, alone, latest>>

-----------------------------------------------------------------------------

GoStep(s) ==
  \/ Dial(s) \/ DialFails(s) \/ Receive(s) \/ Put(s) \/ ReadFails(s)

PyStep(s) ==
  \/ RelayStart(s) \/ ReadName(s) \/ ReadText(s) \/ Tell(s) \/ TellAgain(s) \/ TellHangs(s)

ShellStep(s) ==
  \/ StartBili(s) \/ QuitOld(s) \/ NewSession(s) \/ SetTrap(s)
  \/ StopBili(s) \/ TrapQuits(s) \/ TrapRemoves(s)

Next ==
  \/ \E s \in Sessions :
       \/ Launch(s) \/ GoStep(s) \/ Handle(s) \/ HeartBeatFails(s) \/ EndMain(s)
       \/ PyStep(s) \/ ShellStep(s) \/ Welcome(s) \/ HangUp(s)
  \/ Say \/ SendPlain

Spec == Init /\ [][Next]_vars

\* The scripts, the receiver, the pool and send.py run when they can; the
\* heartbeat reads `Connected` unsynchronised, and need never see it.
FairSpec ==
  /\ Spec
  /\ \A s \in Sessions :
       WF_vars(Launch(s)) /\ WF_vars(GoStep(s)) /\ WF_vars(Handle(s)) /\ WF_vars(PyStep(s))

-----------------------------------------------------------------------------
(* Properties *)

\* A player whose session has the file of the room for itself is told comments
\* in the order they were made, through all restarts of the Go program, the
\* traps of earlier sessions and lines that are told again or not at all; name
\* and text, which send.py reads one after the other, may be of two comments,
\* the name never of the later one (send.py:97-106, 128-133, pool.go:35-38).
ToldInOrder ==
  \A s \in alone :
    py[s].pc = "tell" =>
      /\ py[s].text # Other => shown[s] <= py[s].text
      /\ py[s].name # Other /\ py[s].text # Other => py[s].name <= py[s].text

\* A line that is written while send.py handles an earlier one is not forgotten:
\* as long as nobody removes the file after the session's start, send.py reads
\* the file again, whether the earlier line could be told or not
\* (send.py:97-106, 128-133).
WrittenIsRead ==
  \A s \in Sessions :
    s \in unread \cap latest ~> s \notin unread \cap latest \/ py[s].pc = "hung"

\* What has reached a program and is not printed yet.
Pending(s) == FlattenSeq(go[s].wire) \o go[s].hand \o go[s].msg

Plains(s) == go[s].uncompressed + Len(SelectSeq(Pending(s), LAMBDA c : c = Plain))

\* A comment that has reached a program is printed unless the program ends,
\* full channels or not, provided no more uncompressed packets came before it
\* than MsgUncompressed, which nobody empties, has room for (message.go:115-130).
HeardIsPrinted ==
  \A s \in Sessions, c \in 1..MaxSaid :
    c \in ToSet(Pending(s)) /\ Plains(s) <= Capacity ~> c \in go[s].printed \/ go[s].pc # "run"

\* A program whose connection is lost connects again, because the reads of the
\* failed connection end it and startnow.sh starts another one; unless its
\* session is quit, by whichever start.sh, or the receiver waits for
\* MsgUncompressed (message.go:98-103, startnow.sh:3-7).
LostIsReplaced ==
  \A s \in Sessions :
    go[s].pc = "run" /\ ~go[s].open /\ Plains(s) <= Capacity ~> go[s].open \/ go[s].pc = "off"

=============================================================================
