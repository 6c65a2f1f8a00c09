# A TLA+ development of MCShell

MCShell runs a Minecraft server from shell scripts: screen sessions for the
server and its helpers, files as message channels, cron as the scheduler, a
Python relay to the server's RCON port, and a bot on a vendored client library.
Almost everything runs concurrently and nothing is locked, so that what the
scripts do together is seldom visible in one of them.  The modules here model
the parts that carry the system's own logic, TLC checks them on small instances,
and TLAPS proves the main safety properties of most of them for all instances.

Paths below are relative to the repository.  `Dependencies/sendcommand/mcdrconnew.py`
is called *the relay*, its screen session (`...RCON`) *the relay session*.

## Inventory

| Component | State | Operations | Hard behaviour |
| --- | --- | --- | --- |
| Command relay: `send`, `sendcommand/start.sh`, `mcdrconnew.py` (main), `location/send.sh` | `in/input.txt`, `out/output.txt`, `.TMP/SENDING`, inotify queues | write a line, wait for the answer, hand the line to RCON, echo the answer | two events per `echo`, merged events, watch set after the write, overlapping callers, killed callers and relays |
| RCON client: class `Rcon` | socket, command lock, depth of the retry recursion | login, send command, receive packets, reconnect and resend | one-shot timer caught by a bare `except`, lost connections, late packets |
| Server lifecycle: `startserver`, `stopserver`, `restartserver`, `killserver`, `serverloop.sh`, `stopevent.sh` | `.STOP`, the server process, `stopevent.sh` | start, stop, restart, kill, run a fix | `.STOP` tested once a round, commands sent without a relay, crash under a stop |
| Watchdog: `watchdog.sh`, `savecron` | one `screen -ls` | kill all, start what is missing, look after the bot, count relays | everything it knows is stale, overlapping runs |
| Mob switch: `mobswitch`, `vote.sh`, `Plugins/mbs.sh`, `Plugins/vote.sh`, `testtps.sh`, `tpsrange.sh` | `MBS_STATUS` and `MBS_MODE` in `ENV`, vote sessions, bot sessions | ask, oppose, measure, switch | votes, vetoes, measurements and watchdogs all read, wait and write |
| pyCraft connection: `pyCraft/minecraft/networking/connection.py`, `pyCraft/start.py` | networking thread and its successor, outgoing queue, reactor, socket, versions, compression | connect, status, write, disconnect, react | thread replacement, re-entrant lock, exceptions in handlers, servers that kick, hang up and are upgraded |
| pyCraft authentication: `pyCraft/minecraft/authentication.py` | one token | authenticate, refresh, validate, sign out, invalidate, join | lost requests and answers; two threads use the token |
| pyCraft packets and types: `networking/packets`, `networking/types` | player list, map, position, blocks | encode, decode, apply | ids and fields by version; widths and signs |
| Chat daemon `Plugins/DAEMON`, QQ bridge `CoolQ/DAEMON` | copy of the last log line | run every plugin on it | lines logged meanwhile are lost |
| Membership: `link.sh`, `refreshqq.sh`, `join.sh.bak`, `timeoutkick.sh` | two text files, kick timers | link, refresh, kick | files rebuilt under readers, timers of earlier visits |
| Backups: `dobackup`, `Backup/*.sh` | `latest.tar.bz` and dated copies | rotate, pack | interrupted runs, names by the minute |
| Status queries: `list`, `detail`, `location` | a log file | query over `send` | overlapping `debug start` and `debug stop` |
| Danmu bridge: `danmu/`, `Plugins/bili.sh` | websocket, channels of ten, a log per room | receive, beat, print, tell | a channel without a receiver, lost connections, files removed under their readers |

Interaction: every script talks to the server through `send`, so through the
relay; the watchdog starts the relay, the daemons and (through `mobswitch`) the
bot; `.STOP` is written by `stopserver` and read by `serverloop.sh` and the
watchdog; `MBS_STATUS` is written by six scripts; votes and `testtps.sh` run the
watchdog themselves; `testtps.sh` calls `restartserver`.

The properties that make each component correct:

* relay: a line reaches RCON boundedly often and only after the call; a caller
  gets the answer to its own line; a call returns, and leaves no flag behind.
* RCON client: boundedly many executions per call, whole and matching answers,
  no packets left over, every event comes to an end.
* lifecycle: a loop and the server process it waits for belong together; a stop is
  for good; a restart comes back; no run of the loop repeats a fix.
* watchdog: no helper more often than watchdogs overlap; every helper in the end.
* mob switch: in manual mode nothing without a vote; in the end bot and
  `MBS_STATUS` agree.
* pyCraft connection: at most one thread serves the connection, and one does;
  the library sends no server what it does not expect; every end is reported; a client plays
  in its server's version.
* authentication: an answer that is lost or refused leaves a usable token usable;
  nobody plays whom the service has not accepted.
* packets: in every version each packet is read as what it is; a client's copy
  of players, map, position and blocks is the server's; questions are answered.
* membership: who linked within the time is not kicked.  Backups: a dated copy is
  a complete one.
* danmu: comments are told in order; what arrives is printed; the last line is
  told; a lost connection is replaced.

`PROJECT.json` lists the hazards at their lines, with the properties that guard
them.

## Modules

| Module | Role |
| --- | --- |
| `CommandChannel` | abstract: what `send` promises about a command line |
| `CommandRelay` | the file channel; implements `CommandChannel` |
| `MCCommandRelay` | symmetry for the safety run |
| `CommandRelayProofs` | theorems about `CommandRelay` |
| `RconClient` | class `Rcon` in the relay's event handler |
| `RconClientProofs` | theorems about `RconClient` |
| `ServerLifecycle` | server loop, stop, restart, watchdog without its bot part |
| `MCServerLifecycle` | orders of helpers and kinds of scripts for TLC |
| `ServerLifecycleProofs` | theorems about `ServerLifecycle` |
| `MobSwitch` | votes, measurements, the watchdog's bot part, `mobswitch` |
| `MobSwitchProofs` | theorems about `MobSwitch` |
| `PacketConnection` | `Connection`, its networking threads, callers and servers |
| `PacketConnectionProofs` | theorems about `PacketConnection` |
| `AuthenticationToken` | `AuthenticationToken` and the service |
| `BotSession` | the bot: `start.py` with a token and a connection; implements `PacketConnection` |
| `BotSessionProofs` | theorems about `BotSession` and the token |
| `PacketTypes` | types, VarInt, positions, frames |
| `LoginPackets`, `ServerboundPlay`, `ClientboundPlay` | ids and fields of the packets by version, and the objects packets are applied to |
| `PacketStream` | what a client and a server tell each other, in every version |
| `MCPacketStream` | versions and topics for TLC |
| `PacketStreamProofs` | theorem about `PacketStream` |
| `DanmuBridge` | sessions of `!!bili`: the Go program, the room's log, `send.py` |
| `MCDanmuBridge` | players and budgets for TLC |
| `DanmuBridgeProofs` | theorems about `DanmuBridge` |

### CommandRelay

A member of `Senders` is one invocation of `send` and at the same time the line
it writes; a member of `Relays` is one process of the relay.  `spc[s]` is the
line of `send` the script stands at: `TestScreen` (5-9), `TestFlag` and `Spin`
(10-18, the loop as it is: leave when the file *exists*), `Touch` (36), `Arm` and
the wait (38), `ReadOut` (39-43), `Remove` (44).  The background `echo` is a
process of its own (`echo[s]`): open with truncation, then write, each raising
`IN_MODIFY`.  A relay has at most one queued event, because inotify merges an
event into an equal one that is still queued.  `ReadLine` reads the first line;
the answer is written by another two-step `echo`.  `Blank`, `NoLine` are the
first lines of a file that is truncated at that moment.  RCON is one step here:
an answer, no answer (`None`, which ends the process), or a hang.

With `Guarded = FALSE` the same module is `location/send.sh`: no tests in front,
and `timeout 0.2s` around the wait (`GiveUp`).

`handled` and `clean` are history: how often a relay has handed a line to RCON,
and whether a call overlapped no other call or late event.

### RconClient

One relay process and the server's side of its connections.  A response is a
sequence of one to `MaxFrag` packets; the packet type 100 is answered with
"Unknown request 64", on which the client relies to find the end.  The server may
close or reset a connection at any point (`Faults`).  `eventlet.Timeout(0.5, False)`
is raised once and only at a switch to the hub, so in `time.sleep` and in calls
on sockets made after `monkey_patch()`; the bare `except` of `__send_command`
catches it.  `receive` on a closed connection gets `b''` for ever (`Hang`).

### ServerLifecycle

`lpc[l]` is where a run of `serverloop.sh` stands: `RmStop` (9), `Boot` and
`JavaExits` (12), `RunEvent` (15), `ClearEvent` (16-26), `TestStop` (27-29),
`Countdown` (30-36).  `jvm` is the loop whose server process has the port; a
second process exits at once.  Ending a screen session (`killserver:5`,
`watchdog.sh:19-25`) ends the loop in it (`EndLoops`); the server process saves and
exits some time later (`OrphanExits`), with the port until then.  The scripts `stopserver` and `restartserver` are
`Begin`, `Announce` (twelve calls of `send` as one step), `Touch`, `SendStop`,
`QuitRcon`.  The watchdog is `DogStart`, `Snapshot` (17-18), `KillAll` (19-25),
`StartHelper` (26-42, one turn per helper, in order), `CountRelays` (65-69), before
which the bot's part may take minutes.  A watchdog begins whenever `.STOP` is not there,
whatever others are doing: cron starts one every minute, every applied vote and
`testtps.sh` another (`vote.sh:14,23,33,39`), so that any of them can work from
listings that are out of date at the same time.

Abstractions:

* `send` is what `CommandRelay` shows of it, in one step: nothing happens
  without a relay session; otherwise the command arrives, or, with no server
  behind the relay, the relay ends and the caller waits (`stuck`).  `Faults` may
  contain `"hang"` (a call hangs without a reason), `"crash"` (of helpers) and
  `"killserver"`.
* The server is taken to serve RCON as soon as its process runs.
* `MBS_STATUS` is left to `MobSwitch`; nothing in this module reads it.

### MobSwitch

One function `pc` for votes, measurements and watchdogs, because votes and
measurements run the watchdog themselves.  `AskVote`, `ChatOpens` and `Veto` are the chat
plugins, which the daemon runs one at a time; `Apply` is the end of the 30
seconds in `vote.sh`; `Test`, `First`, `Second`, `QuitVote`, `TestOpens`,
`SwitchNow` are `testtps.sh`, whose measurements are any of the three words of
`tpsrange.sh`; `RestartSed` and `RestartDown` are its `restartserver`.  `Enter`,
`Look`, `Write`, `Kill`, `StartBot` are the watchdog from line 38 on and
`mobswitch`.  `Quit` is `screen -X -S NAME quit`, which does nothing when several
sessions have the name.

Abstractions: `list` tells the truth when the relay works, and nothing
otherwise; how many players are online is not a variable, so that `list only` may
print 1 or not at any time; the server is up and `.STOP` away except
for the restarts of `testtps.sh`; the announcements of votes and measurements
are left out.

### PacketConnection

Dial number d opens socket d and, if it succeeds, networking thread d.  `pc[t]`
of a thread is where it stands in `NetworkingThread.run` and `_run`: `wait` for
its predecessor (536-543), `turn` at the head of the loop (553), `writing` with
`_write_lock` (557-573), `read` (576-583), `react` and what reactors do without
the lock (`join`, `answer`, `wrap` of the login; `dial` for the second connect of
a status query), `raise`, `report`, `exit`, `final` (546-551).  A caller stands
between calls or in one of the parts of connect and disconnect, which it does
with the lock: `closing`, `opening`, `going`.  Where the code takes the re-entrant
lock around several of these, `lock` stays taken.  What follows an exception is `raise` (the interrupt, 546-548), `handle` (the present
reactor's handler, 455-461), `clear` (its locked disconnect, 827-833), `narrow`
(`allowed_proto_versions`, 820-822) and `dial`: between any two the program may
call.  `job[t]` holds the locals of
the loop, and what has been told to the program; `conn` the attributes of the
`Connection`, with `socket = Hollow` for an encryption wrapper that was put around
a socket closed meanwhile.

`net[s]` is the other end of a socket: the server's phase of the protocol, what
it has sent, and the link (closed, reset, closed inside a packet).  A packet that
the phase, the compression or the key does not allow makes the server `confused`.
`write_packet` has no guard: a program may queue or send a chat line as soon as it has
connected, as `start.py` does, while the connection is still asking for the status
or logging in.  Such a line is `early chat`, and a server that gets it then is `offended`: it
has not been told anything wrong by the library.

Abstractions: a packet is its kind.  The batches of 300 and 50 packets are
`WriteCap` and `ReadCap`.  Listeners are not modelled: a reactor's own reaction is.
`Hasty` says whether callers connect while an interrupted thread is still alive, and
nothing else; callers of `conn` and `bot` wait for it (`Connect`), those of
`conn_reconnect` do not, the proofs have both.

### AuthenticationToken, BotSession

A call of the token is the service's step (the request is lost, or answered, and
the answer is a pair, a refusal, a pair without profile, nothing, or lost), one `Assign`
for each field in the order of the code (authentication.py:128-132, 165-168), and
`Return`; an answer without profile ends it with a `KeyError` half way.  `join` reads
the token in three steps (`JoinChecks`, `JoinReads`, `AskJoin`), with assignments
of the other thread in between.  `live` is what the service accepts; `trusted` is
history.
`BotSession` is `start.py`: it authenticates, connects once, writes what it reads from
its input at any time after `connect()` has returned, and
its networking thread joins with the same token.  The program may also refresh,
validate, sign out or invalidate at any time.  It puts the token's verdict where
`PacketConnection` has an arbitrary one, and `Implements` says that nothing else
changes.

### PacketTypes, LoginPackets, ServerboundPlay, ClientboundPlay, PacketStream

A body is a sequence of cells, a value with the type that wrote it: reading it
with another type fails, but for a byte with and without a sign (`Alike`), which
take the same room and differ in the value (`ByteBits`).  `ClientboundPlay` and `ServerboundPlay` give for every
packet the versions at which its id changed (`Since` picks the latest), its
fields by version, and which packets a version has.  VarInts, block positions,
block ids and metadata, and the map's pixel order are written and read as
arithmetic, with the widths as constants (`GroupBits` 7, `PlaneBits` 26, ...).
Player lists, maps, positions and block changes are applied by `PlayerListApply`,
`MapApply`, `PositionApply`.

In `PacketStream` a client with a set of allowed versions dials servers; `Status`
is the query that finds the version, `ServeLogin` and `ServePlay` the server,
`Receive` a reactor, `Speak` a packet of the program.  `topic` bounds what a server
talks about.  The server is one built with the library, as `tests/fake_server.py` is:
it writes with the library's ids and `write_fields`.  It has a list, a map, a place and blocks of
its own (`world`: `Listed`, `Move`, `Paint`, `Change`), which it does not compute with
the client's `apply` methods; `replica` is what a program keeps that applies the library's
packets.  So what shows is an id that another packet has, a reader that does not
follow its writer, and an `apply` that does not do what was meant; an id or a definition that
is wrong for the real server, and for no other packet's sake, is wrong on both
sides and does not show.

`SharedIds` are five pre-release versions in which two classes of the library have
one id (`ChatMessage` and `MultiBlockChange` in 317; `SoundEffect` and
`PlayerListHeaderAndFooter` in 336, 337, 343, 344); which class the reactor's
dictionary keeps is then the order of a Python set.  The properties about reading
exclude them.  `Relative = FALSE` excludes relative positions before version 107,
which the library answers with the offsets instead of the place.

### DanmuBridge

`go[s]` is the Go program of a session: `Dial` is `Client.Start`, `Receive` and `Put`
are `ReceiveMsg` (the comments of a packet go into the channel one by one, other
commands are passed over, and it waits where the channel is full), `Handle` the pool's printer, `ReadFails` the error
branch, which ends the program when the websocket library panics after
`MaxRepeats` reads of a failed connection, `EndMain` the three minutes of `main`.
`Launch` is `startnow.sh`, which starts it again.  `script[s]` is the line of `start.sh`:
`StartBili` (up to its `rm`, 10), `QuitOld` (11), `NewSession` (12), `SetTrap` (14), the
loop.  `StopBili` ends its session; if the trap was set, the trap's `screen quit` and its
`rm` follow some time later (`TrapQuits`, `TrapRemoves`; `traps` counts them), when the
player may have started again.  `py[s]` is `send.py`: its watch, the
queued event, and the name and the text, which two commands read one after the
other from the last line (`ReadName`, `ReadText`), then `Tell`, or `TellAgain`: an
exception, before or after the game server has done the command, is followed by
another try, and after `MaxRetries` of them by nothing (send.py:97-106).  The log is a file
with an inode: `start.sh` and the end of a session remove the name, and programs go
on with the file they have open.

Assumptions: the three seconds that `start.sh` sleeps are enough for the first
program to create the log; no player's and room's session name is a prefix
of another; the websocket library is gorilla v1.4.1; the machine has more
than one processor (the error branch of a Go 1.13 program would starve others on
one); a room does not send old comments to a new connection.  Not modelled:
`killserver` and the watchdog's kills of these sessions.  The class `Rcon` of `send.py`
is the one of `RconClient`; here an attempt tells the player or not, and is
repeated, given up or hangs.

## Runs

| Run | Instance | What it shows |
| --- | --- | --- |
| `relay_safety` | 2 senders, 2 relays in turn, faults | `HandledAtMostTwice`, `AnswerIntegrity`, `FlagHasOwner`, and `ImplementsChannel` |
| `relay_live` | 2 senders, 1 relay | `ArmedCallReturns`: a call whose watch is set before its `echo` writes returns |
| `relay_location` | unguarded channel, 2 relays, faults | `EveryCallEnds` |
| `rcon` | 2 events, 1 retry, answers of up to 2 packets | bounds, completeness, order of executions and answers, and `HandlerEnds` |
| `life_faults` | 2 loops, 1 stop or restart, 2 watchdogs, the relay as only helper, 1 crash, 1 fix, `killserver`, hanging scripts | `HelpersBounded`, `FixesRunOnce`, and `LifecycleInv`: the server's process belongs to the loop that waits for it or to a session that was ended (`OneServer`), and what the proof of `HelpersBounded` rests on |
| `life_calm` | 1 loop, 1 stop or restart, 2 watchdogs, the relay and a helper beside it, 1 crash, hanging scripts, relays killed when two run | `StopCompletes`, `RestartCompletes`, `HelpersHeal` |
| `mobs` | 2 votes, 1 measurement, cron's watchdog, both modes, 1 loss | `OnOnlyByVote` (ON in manual mode only after some vote for it was applied), `SwitchSettles` |
| `conn` | 1 caller that is not hasty and writes at any time, 2 dials, 3 calls, keep alives and positions, servers that do anything | one thread serves (`OneReader`, `Served`), nothing of the library's own out of protocol (`NoConfusion`), ends are reported (`KickIsNoError`, `EndIsReported`), successors live (`SuccessorKept`), threads of closed connections end (`ClosedThreadEnds`) |
| `conn_reconnect` | 1 hasty caller, 3 dials | violated: `SuccessorKept`, when a program connects again right after `disconnect()` |
| `bot` | 2 accounts, 2 requests assigned field by field, 2 dials, 2 calls | `TrustedIsLive`, `JoinedFirst` |
| `packets` | all supported versions and one unknown, clients that allow all, two or one; nine pairs of version and topic in depth | `ReadAsItself`, `SpokenVersion`, `Replica`, `AnsweredInOrder` |
| `danmu` | 2 players of one room, four budgets; see below | `ToldInOrder`, `WrittenIsRead`, `HeardIsPrinted`, `LostIsReplaced` |

`conn_reconnect` is the `finding` of `PROJECT.json`: `connect()` "May safely be called
multiple times after the first, i.e. to reconnect" (connection.py:355), but the
old thread, if it is still reading, closes the new connection on its way out.

Bounds.  Two senders are enough for every mixture of two calls, and calls that
do not overlap follow each other in the same instance; two relays give
a replacement after a death.  Two server loops give the second `startserver`,
and two watchdogs the overlap; one helper suffices beside the faults because
helpers do not depend on each other, and `life_calm` has one of each kind: the
relay, which a script quits and the watchdog counts, and one that only runs.
Two votes give a vote that runs beside another or after it, whoever opens them.
The source's `TARGET` is 4, and `ps` also counts the `grep`: relays are killed when four
run, so when four watchdogs overlap.  The runs have two watchdogs and `Target = 2`, so
that the branch is taken; `HelpersHeal` says that starting and killing does not
go on for ever.
Two dials give `conn` an old thread and its successor, and three calls every order of
connect, status, disconnect and write around them; two queued packets of which
one is forced show the order of writes; an inbox of one is what a reader can
see at a time.  `WriteCap = ReadCap = 2` lets each batch end by its limit, by an empty
queue and by a failure.  `bot` connects once, as `start.py` does; its second dial is
the one that follows a status query; two requests give a refresh under a join,
the second call a chat message.
`packets` visits every version, in each all packets one at a time in each direction,
with and without compression (the threshold lies between the short and the long
packets); the versions named in `MCCodecs` lie on both sides of the changes
of a format, and there up to three packets follow each other.  Widths of three,
two and one bits have negative numbers, carries and limits, and packets longer
than one byte of a VarInt.  In `danmu` a channel holds one message instead of
ten, a failed connection is read twice instead of a thousand times, and a line is told
again once instead of three times.  The first
budget has one player, a loss, an end of the three minutes, two uncompressed
packets (one more than there is room for) and two comments; the second two losses and a
comment: a lost connection and a dial that fails, or a line that is told again, given up
or hangs; the third a player who starts twice, with what the first start has left, and
two comments; the fourth has two
players who start twice between them, with lines that are no comments.
Scripts run once in `CommandRelay` and `ServerLifecycle`, and a stopped server
keeps the watchdog away, so those systems come to rest: their configurations
switch the deadlock check off, as do those of connections, packets and danmu
sessions, which end.  `MobSwitch` never rests.

Fairness.  Weak fairness on the steps of scripts and relays: a process that can
run does.  No fairness on what people and faults do (calls, votes, vetoes,
crashes, kills).  A server that was told to stop exits; one that was not need
not.  Cron starts a watchdog again and again.  A bot session that has been
started joins in the time between two of cron's watchdogs, again and again
possible (strong fairness of `Join` while no cron watchdog runs): it takes
seconds, and cron a minute.  Without that assumption a bot that is always
slower than the watchdog is killed and restarted for ever.

In `PacketConnection` a networking thread has strong fairness, because it asks
for a lock that callers give back again and again; the parts of a call and
the verdict of join have weak fairness (both have timeouts); programs and servers
have none.  In `DanmuBridge` the receiver, the printer, `startnow.sh` and `send.py` have
weak fairness; the heartbeat has none, since it reads `Connected` without
synchronisation and may never see it change; neither has anything from outside.

`SwitchSettles` assumes that votes, measurements and losses end, by their
bounds: it says that nothing else keeps the switch moving.  `StopCompletes`
asks for a server and a relay at work when `stop` is sent, and for `.STOP` still
there: a server loop that starts in between removes it.

## Proofs

All theorems hold for every value of the constants that satisfies the named
assumption of its module (`ConstantsAssumption`, `RconAssumption`, `LifecycleAssumption`,
`SwitchAssumption`, `DialAssumption`, `BotAssumption`, `VersionAssumption`,
`DanmuAssumption`).  What a theorem says is
checked by a run as well, except type correctness of `ServerLifecycle`,
`MobSwitch` and `BotSession`, for which the proof is enough.

`CommandRelayProofs`
* `TypeCorrect`, by one lemma for all steps.
* `DeliveryBound` (at most two deliveries of a line per relay).  The bound is not
  inductive: a relay could be about to read the line a third time.  `DeliveryInv`
  adds `InputBound` (deliveries plus reads under way never exceed two while the
  line is in `input.txt`, and there is none before the write) and `CallOrder`
  (a script launches one `echo`).
* `Integrity` (`AnswerIntegrity`).  `IntegrityInv` adds `ChannelIsOwn`: while a
  clean call runs, everything on its way through the channel is its own.
* `FlagsAreOwned` (`FlagHasOwner`): when `SENDING` is there, some call has come as far as
  making one and has not ended by itself, so that a flag left for later calls is always that of
  a killed one.  `FlagInv` adds that an unguarded channel has no flag and no call that tests for it; that a call
  on its way has launched its `echo` comes from `DeliveryInv`.
* `Implements`: every step of `CommandRelay` is a step or a stutter of
  `CommandChannel`, using `DeliveryInv` for the guard of a delivery.

`RconClientProofs`
* `TypeCorrect` includes the bound on the connections: a retry is a recursive call,
  and `Budget` says how many connections the calls so far and the present depth of the
  recursion allow.
* `AnswersAreComplete` and `NothingIsUnread`.  Neither is inductive, because both look
  at one place of the client while packets are on their way in two directions.
  `Queues` says what may wait for the server on any connection (`Shapes`: nothing, a login, a
  command, a command with its ending packet, or the ending packet alone) and that all
  connections but the one in use were given up; `Answers` says, for each place of the
  client, what is on the connection in use: what has been joined and what is still to be
  read are together the parts of one response, in order, and the answer to the ending
  packet after them (`Stream`).  A server that serves a command produces such a stream, a
  receive takes its head, and a login drops the connection with whatever is on it.
* `ExecutionsAreBounded`, `FirstRunsAreInOrder`.  `Runs` counts: executions of a command
  and copies of it that still wait on some connection, those given up included, are
  never more than the attempts (`Attempts`).  Commands of later events have no attempts yet.

`ServerLifecycleProofs`
* `TypeCorrect`; `count` stays a natural number.
* `LifecycleSafe` (`LifecycleInv`), `SessionsBounded` (`HelpersBounded`).  That a helper has no more
  sessions than there are watchdogs is not inductive: a watchdog may be about to start one more.
  `StartsBounded` counts those as well: the sessions of a helper, and the watchdogs that have still to come to
  its turn with a listing that lacks it (`WillStart`), are together no more than the watchdogs.  A listing
  that lacks it is taken when it has no session at all, so a watchdog that begins adds itself to the
  other watchdogs at the most; a start turns a watchdog of the second kind into a session; everything else
  makes sessions fewer.  `OneServer` is proved beside it.
* `EachLoopRunsFixOnce` (`FixesRunOnce`), for any number of runs of `serverloop.sh`.  `FixInv` adds that what is in
  `stopevent.sh` is a fix that the loop has not counted yet, unless it stands between its run and the
  clearing or was killed.  Another run, beside it or after a kill, may run the same fix
  again: the theorem counts for each loop.

`MobSwitchProofs`
* `TypeCorrect`; bot sessions are never fewer than none.
* `OnByVote`.  `ReadOnlyByVote` adds that a watchdog that may still write ON read
  it when a vote stood behind it, and that a vote once written keeps its argument.

`PacketConnectionProofs`
* `TypeCorrect`, from one lemma for each way an action moves a thread (`Goes`).
* `OneThread` (`OneReader`).  Alone it is not inductive: a waiting thread could be
  released while another is active.  `ThreadInv` adds that a waiting thread is *the*
  successor and waits for the networking thread, and that whoever is inside
  connect has the lock and has found no successor.  The steps are sorted by what
  they do to the threads' places (`Moves`, `Stays`), so that most of them share
  one lemma; only `Go`, `Wait` and `Final` change which thread is which.
* `OpenIsServed` (`Served`), `KicksAreNoErrors` (`KickIsNoError`) for all callers, and
  `EndsAreReported` (`EndIsReported`) for callers that are not hasty, from one invariant,
  `Life`: which threads are born, waiting, and interrupted by the time they leave the loop
  (`Lives`); that a thread that was kicked goes straight to its end (`Follows`); that an open
  connection has a successor, or a thread that is not interrupted or about to report (`Kept`);
  and that a caller that is not hasty dials only when no thread is left, so that a thread leaves an
  open connection only to the successor it has made (`Reported`).  A step of a thread within the loop is
  one abstract step (`Works`), a step of a program or a server another (`Aside`), and each
  action is shown to be one of them, except dialling, opening and the changes of threads.
* `SuccessorsAreKept` (`SuccessorKept`), for any number of callers that are not hasty, whatever
  they write and when.  While a successor waits, the only other thread alive is the one that made it, and it is
  on its way out (`Heirs`): the places from which it still takes steps do not close anything, but for
  the one exception that the property names.  A failed write is remembered until the
  packets that have arrived are read, and a thread that dials with one remembered raises
  it afterwards, and closes what it has just opened.  With the error of an early chat line this
  happens; with that of a packet of the library it does not (`Failing`): a
  thread with such a failed write that is after the server's version has nothing to read, because
  the request was still in the queue when the write failed (`RequestLast`: only chat lines come after it), and no
  server speaks before the request (`Asking`), which rests on the queue and the socket being fresh when
  the dial begins (`Dialing`).  Each step of a thread satisfies `Minds`, each other one `Besides`.
* `ServersUnderstand` (`NoConfusion`), for any number of callers that are not hasty and any numbers of dials, calls,
  questions and packets.  The two sides follow one dialogue, the client with a delay: what the
  server has sent and no reactor has handled, in the inbox or in a thread's hand, is `Unread`.
  The queue holds what the library owes the server, with early chat lines anywhere between
  (`Owes`).  `Talks` says that there is a phase which fits the client's reactor and
  what it owes (`Fits`), from which the unread packets lead to the phase the server is
  in (`Coming`), and that the two sides agree on compression and key but for what is unread; `Spoken`, that
  an open connection is in such a state unless an early chat line has offended its server.
  Whatever of the library's own is then written, the server is in a phase that takes it.  This is inductive
  with three more parts, which with it are `Speaks`: that an open connection is the present one, and is
  held by the thread that is to serve it, serves it or reports its failure (`Owned`); what a dial finds when it
  opens a socket, and leaves (`Opened`); that the reactor is not replaced under the hands of a
  handler that disconnects or dials (`Reacting`).  Each step of a thread satisfies `Tends`, each
  other one `Attends`.

`BotSessionProofs`
* `Implements`: every step of `BotSession` is a step of `PacketConnection` or leaves its
  variables alone; `BotOneThread` follows.
* `TokenTrusted` (`TrustedIsLive`).  `TokenInv` adds what an answer under way
  holds, a pair that the service has issued and nothing has ended since; that the fields that have been
  assigned so far hold it (`Assigned`), the others what they held; and that nothing is assigned while the
  token is trusted.
* `JoinBeforePlay` (`JoinedFirst`) from the lemma `AnswerSteps`: only an accepted join
  leads to the answer, and no other step changes which packet a thread reacts to.
* `BotTypeCorrect`.

`PacketStreamProofs`
* `Spoken` (`SpokenVersion`), for any offers, servers, widths and bounds.  Alone it is
  not inductive: a client could be about to read that its login has succeeded.
  `VersionInv` adds that what is on the wire of a client that logs in says so only if the
  versions agree (a server of another version says no, and is upgraded only when nobody
  is connected), and that the version spoken in `login` and `play` is an offered one:
  with one allowed version, that is the one `Max` picks (`OneVersion`).
* `TypeCorrect` (`TypeOK`), for any offers, servers, widths and bounds.  That a table of a reactor has ids
  of seven bits and kinds of the library, in every supported version, comes from the packets'
  histories: each gives its id from version 0 on (`Changes`), so that the latest change up to a
  version is one of them (`SinceIsAnId`).  `StreamInv` adds that what sets the compression
  carries the servers' threshold wherever it is on the wire.

`DanmuBridgeProofs`
* `ToldInTheirOrder` (`ToldInOrder`), from the invariant of `CommentsAreInOrder`.  For a player
  who is alone on the room's log, comments pass through a row of places: the wire, the hand
  of `ReceiveMsg`, the channel, the last line of the log, the text, the name, and what was
  told last.  `OrderInv` says that each place holds its comments in the order they were made, and newer ones
  than the places after it (`Ranged`, `Read`), and none newer than the last one made (`Made`); every step moves a
  comment to the next place, adds the newest at the start, tells the same one again, or drops some.  `Sole` adds
  that a player who is alone is the only one with a session, that a Go program without its screen session
  has nothing on the way (`Still`), and that no `send.py` runs before `start.sh` has come to its loop
  (`Silent`): what the trap of an earlier session does to a new one only drops comments.

Only model-checked: everything under fairness (`ArmedCallReturns`,
`EveryCallEnds`, `HelpersHeal`, `StopCompletes`, `RestartCompletes`,
`SwitchSettles`, `HandlerEnds`, `ClosedThreadEnds`, `WrittenIsRead`, `HeardIsPrinted`,
`LostIsReplaced`), since liveness is beyond the proof system.  Of the safety properties:
* `ReadAsItself` and `Replica` of `PacketStream` rest on folds over bodies and on the ids
  of some hundred versions as they are put on the wire and taken off it: what they say is the
  content of recursive definitions, which TLC evaluates and the provers cannot take apart;
  `AnsweredInOrder` selects a subsequence (`SelectSeq`), of which the provers know nothing.

## Where the code and what is said of it part

Met while modelling, beside `conn_reconnect`; the properties above are stated so that
they hold with these, and name the condition.

* `send:38` starts its `echo` before `inotifywait` has set the watch: an answer that
  comes in between is not seen, and the call, which has no timeout, hangs.
* `stopserver` writes `.STOP` before `send stop`.  Without a relay session the command
  is lost, and `.STOP` keeps the watchdog from starting the relay: the server runs on.
* `serverloop.sh:16` clears `stopevent.sh` after running it: a fix saved between lines 15
  and 16 is lost unrun, and one that ran is run again by the next loop when this one is killed there.
* Watchdogs of cron, of votes and of `testtps.sh` overlap, each with its own listing: a helper is
  then started as often as watchdogs found it missing.
* `write_packet` takes packets at any time, and `start.py` lets its user write as soon as `connect()` has returned:
  the chat line goes to a server that is asked for its status, or in its login.  If such a line cannot be
  written while the answer to the status query is still read, the thread dials, then
  raises the remembered error (connection.py:591-592), and closes the connection that it
  has just opened for its successor (490): `SuccessorKept` names this.
* `MapPacket.write_fields` leaves out `is_locked`, which `read` expects from version 452 on
  (map_packet.py:132-160, 77-80), and writes the offset as `UnsignedByte`, which is read as `Byte`
  (158-159, 104-105): the two agree below 128, and a map is 128 wide.
* Between versions 461 and 470 `PlayerListHeaderAndFooter` has the id 0x5F
  (clientbound/play/__init__.py:305), where its neighbours suggest another one; no other packet of the
  library has it, so that no property here depends on it.
* `Plugins/vote.sh:16` reports that the vote is ended also when `MBS_STATUS` has just
  been written, or when two votes make `screen quit` do nothing.
* danmu's README promises "No missing any message": the contents of the channels are
  lost at every three minute end, and everything after an eleventh uncompressed packet.
* Two sessions of one room share a log which each removes at its start and end: the
  other's `send.py` then watches a file that nobody writes.
* `!!bili start` right after `!!bili stop`: the trap of the stopped `start.sh` quits the new session's
  Go program, or removes its log (start.sh:14).  A stop before the trap is set (between lines 12
  and 14) leaves the Go program running, until the player's next start.
* send.py:97-106 tells a line again although the game server may have had it, and gives up
  after three tries.
* A status query narrows `allowed_proto_versions` for good (connection.py:821): a
  connection that was created to allow several versions cannot follow its server
  to another one when it connects again.
* `read_packet` turns for ever when a server closes the connection inside a packet
  (connection.py:622): `ClosedThreadEnds` excludes it.

## Not modelled

The components without a module are listed in `PROJECT.json` with the reason: the
chat daemons and the membership scripts are stateless filters over the last line of a
log and two text files; backups and status queries are three commands in a row.
Of pyCraft: listeners, handshake and status packets, floating point formats, the
cryptography.
Left out of the modelled ones: wording, logging and colours; `ENV` parsing; the
byte layout of RCON packets; `advgen`; `demo.py` and the earlier senders under
`sendcommand/`, which no script starts.  That `screen`, cron, inotify and the
server do what their documentation says is assumed.

## Plan

1. `Membership`: links, the rebuilt member list and kick timers.  Its scripts do
   what their hazards say (`PROJECT.json`), so that the properties have to be found
   among what remains true under them.
