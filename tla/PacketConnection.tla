--------------------------- MODULE PacketConnection ---------------------------
(***************************************************************************)
(* minecraft/networking/connection.py: a Connection object, the networking *)
(* threads it starts one after the other, the programs' threads that call  *)
(* it, and the servers at the other end of its sockets.                    *)
(*                                                                         *)
(* Dial number d creates socket d; if the dial succeeds, it also starts    *)
(* networking thread d.  Sockets and threads are therefore both named by   *)
(* the dial.  A step is what the code does between two points at which     *)
(* another thread can run: the lock's owner shows in `lock', and everything*)
(* that the code does without the lock interleaves with it.                *)
(***************************************************************************)
EXTENDS Integers, Sequences

CONSTANTS
  Callers,   \* threads of the program that uses the library
  MaxDials,  \* bound: sockets opened in one behaviour
  MaxCalls,  \* bound: calls of the library by the program
  Questions, \* bound: what a playing server asks, of "keep alive", "position"
  MaxInbox,  \* bound: packets the server has sent and nobody has read
  WriteCap,  \* packets written before a thread reads (300 in the code)
  ReadCap,   \* packets handled before a thread writes again (50 in the code)
  Hasty      \* callers connect although an interrupted thread is still alive

Ids == 1..MaxDials
Procs == Callers \cup Ids
None == 0                      \* Python's None, for threads and sockets
Hollow == -1                   \* an EncryptedSocketWrapper around None

ASSUME DialAssumption ==
  /\ MaxDials \in Nat \ {0} /\ MaxCalls \in Nat /\ MaxInbox \in Nat
  /\ WriteCap \in Nat \ {0} /\ ReadCap \in Nat \ {0} /\ Hasty \in BOOLEAN
  /\ Questions \subseteq {"keep alive", "position"} /\ Callers \cap Int = {}

Reactors == {"base", "status", "ping", "query", "login", "play"}

Responses == {"good", "wrong version", "empty", "unversioned"}
LoginPackets == {"encryption request", "offline encryption request",
                 "set compression", "plugin request", "success", "disconnect"}
PlayPackets == {"keep alive", "position", "disconnect"}
Clientbound == Responses \cup LoginPackets \cup PlayPackets \cup {"pong"}

Serverbound == {"hello status", "hello login", "request", "ping", "start",
                "encryption response", "plugin response",
                "keep alive", "position", "chat", "early chat"}

(***************************************************************************)
(* What a server expects: in a phase, a packet leads to a phase.           *)
(***************************************************************************)
Protocol ==
  { <<"open", "hello status", "status">>, <<"status", "request", "asked">>,
    <<"told", "ping", "pinged">>,
    <<"open", "hello login", "login">>, <<"login", "start", "named">>,
    <<"encrypt", "encryption response", "ready">>,
    <<"plugin", "plugin response", "ready">>,
    <<"play", "keep alive", "play">>, <<"play", "position", "play">>,
    <<"play", "chat", "play">>, <<"play", "early chat", "play">> }

\* A server is confused by the first packet that it does not expect, or
\* offended, when that is a chat line that the program wrote too early.
Joining == {"login", "named", "encrypt", "plugin", "ready", "play"}
Lost == {"confused", "offended", "offended login"}
Phases == {"open", "status", "asked", "told", "pinged", "done"} \cup Joining \cup Lost

\* State of a TCP connection, as the client can tell: not dialled or not
\* connected, up, closed or reset by the server, closed by the server in the
\* middle of a packet, closed by the client.
Links == {"none", "up", "half", "reset", "torn", "down"}

ThreadPCs == {"unborn", "wait", "turn", "writing", "read", "react", "join",
              "answer", "wrap", "closing", "narrow", "dial", "opening", "going",
              "raise", "handle", "clear", "report", "exit", "final", "dead",
              "stuck"}
CallerPCs == {"idle", "closing", "opening", "going"}

VARIABLES
  lock,                   \* _write_lock
  networking_thread, new_networking_thread,
  pc,                     \* where each caller and each networking thread is
  interrupt,              \* the threads' interrupt flags
  previous_thread,
  job,                    \* locals of the threads' loops and handlers
  conn,                   \* the other attributes of the Connection
  want,                   \* what the connect or status call under the lock asks
  net,                    \* the sockets' other ends
  dials, calls

threadVars == <<networking_thread, new_networking_thread, interrupt,
                previous_thread>>
vars == <<lock, networking_thread, new_networking_thread, pc, interrupt,
          previous_thread, job, conn, want, net, dials, calls>>

NoJob == [pkt |-> "none", num |-> 0, bad |-> "none", exc |-> "none",
          via |-> "none", told |-> "none", next |-> FALSE, kicked |-> FALSE]
NoEnd == [srv |-> "open", link |-> "none", inbox |-> <<>>, zip |-> FALSE,
          key |-> None]

Init ==
  /\ lock = None /\ networking_thread = None /\ new_networking_thread = None
  /\ pc = [p \in Procs |-> IF p \in Callers THEN "idle" ELSE "unborn"]
  /\ interrupt = [t \in Ids |-> FALSE]
  /\ previous_thread = [t \in Ids |-> None]
  /\ job = [t \in Ids |-> NoJob]
  /\ \E a \in {"many", "one"} :
       conn = [connected |-> FALSE, socket |-> None, file_object |-> None,
               reactor |-> "base", queue |-> <<>>, zip |-> FALSE,
               key |-> None, allowed |-> a]
  /\ want = "play"
  /\ net = [s \in Ids |-> NoEnd]
  /\ dials = 0 /\ calls = 0

Goto(p, l) == pc' = [pc EXCEPT ![p] = l]
Append1(c, k) == [c EXCEPT !.queue = Append(@, k)]

-----------------------------------------------------------------------------
(***************************************************************************)
(* _write_packet.  The packet reaches the server, is lost because the      *)
(* server has gone, or raises: an IOError if the socket is not connected,  *)
(* an AttributeError if there is no socket.                                *)
(***************************************************************************)

Shocked(phase, k) ==
  IF phase \in Lost THEN phase
  ELSE IF k # "early chat" THEN "confused"
  ELSE IF phase \in Joining THEN "offended login" ELSE "offended"

\* The packet leads server s to the phase `to': it must be one that the server
\* expects, compressed and encrypted as it expects.
Leads(s, k, to) ==
  IF /\ conn.zip = net[s].zip
     /\ conn.key = net[s].key
     /\ \E phase \in Phases : <<net[s].srv, k, phase>> \in Protocol
  THEN <<net[s].srv, k, to>> \in Protocol
  ELSE to = Shocked(net[s].srv, k)

Sent(k) ==
  /\ conn.socket \in Ids
  /\ \/ /\ net[conn.socket].link = "up"
        /\ \E to \in Phases :
             /\ Leads(conn.socket, k, to)
             /\ net' = [net EXCEPT ![conn.socket].srv = to,
                  ![conn.socket].key =
                     IF k = "encryption response" THEN conn.socket ELSE @]
     \/ /\ net[conn.socket].link \in {"half", "torn"}
        /\ UNCHANGED net

SendIOError ==
  conn.socket \in Ids /\ net[conn.socket].link \in {"none", "half", "reset", "torn", "down"}

NoSocket == conn.socket \notin Ids

-----------------------------------------------------------------------------
(***************************************************************************)
(* _run, the loop of a networking thread: write a batch, then read and     *)
(* react to a batch.                                                       *)
(***************************************************************************)

\* The locals of thread t: n packets handled in this turn, the error of a write
\* that has failed in it (exc_info), and the exception that the thread raises.
Locals(t, n, bad, exc) ==
  [NoJob EXCEPT !.num = n, !.bad = bad, !.exc = exc,
                !.next = job[t].next, !.kicked = job[t].kicked]

Raises(t, exc) ==
  /\ Goto(t, "raise")
  /\ job' = [job EXCEPT ![t] = Locals(t, 0, "none", exc)]

NewTurn(t) ==
  /\ Goto(t, "turn")
  /\ job' = [job EXCEPT ![t] = Locals(t, 0, "none", "none")]

\* The end of the loop over packets: a write error is raised only now.
EndTurn(t, bad) == IF bad # "none" THEN Raises(t, bad) ELSE NewTurn(t)

\* Where a thread goes after it has written or handled its n-th packet.
Onward(t, n, bad) ==
  IF n < ReadCap /\ ~ interrupt[t]
  THEN /\ Goto(t, "read")
       /\ job' = [job EXCEPT ![t] = Locals(t, n, bad, "none")]
  ELSE EndTurn(t, bad)

Turn(t) ==
  /\ pc[t] = "turn"
  /\ \/ interrupt[t] /\ Goto(t, "exit") /\ UNCHANGED lock
     \/ ~ interrupt[t] /\ lock = None /\ lock' = t /\ Goto(t, "writing")
  /\ UNCHANGED <<threadVars, job, conn, want, net, dials, calls>>

\* The error of a write, by what was to be written.
Error(k) == IF k = "early chat" THEN "early" ELSE "io"

MorePackets(t) ==
  conn.queue # <<>> /\ ~ interrupt[t] /\ job[t].num < WriteCap

Write(t) ==
  /\ pc[t] = "writing" /\ MorePackets(t)
  /\ conn' = [conn EXCEPT !.queue = Tail(@)]
  /\ \/ /\ Sent(Head(conn.queue))
        /\ job' = [job EXCEPT ![t].num = @ + 1]
        /\ UNCHANGED <<lock, pc>>
     \/ /\ lock' = None /\ UNCHANGED net
        /\ \/ SendIOError /\ Onward(t, job[t].num, Error(Head(conn.queue)))
           \/ NoSocket /\ Raises(t, "attribute")
  /\ UNCHANGED <<threadVars, want, dials, calls>>

Written(t) ==
  /\ pc[t] = "writing" /\ ~ MorePackets(t)
  /\ lock' = None
  /\ Onward(t, job[t].num, "none")
  /\ UNCHANGED <<threadVars, conn, want, net, dials, calls>>

\* Mutant: the end of the stream is taken for a timeout.
ReadOn(t) ==
  /\ pc[t] = "read"
  /\ LET s == conn.file_object IN
     IF net[s].link = "reset"
     THEN Raises(t, "io") /\ UNCHANGED net
     ELSE IF net[s].inbox # <<>>
     THEN /\ Goto(t, "react")
          /\ job' = [job EXCEPT ![t].pkt = Head(net[s].inbox), ![t].num = @ + 1]
          /\ net' = [net EXCEPT ![s].inbox = Tail(@)]
     ELSE /\ CASE net[s].link = "torn" ->
                    Goto(t, "stuck") /\ UNCHANGED job
               [] OTHER -> EndTurn(t, job[t].bad)
          /\ UNCHANGED net
  /\ UNCHANGED <<lock, threadVars, conn, want, dials, calls>>

(***************************************************************************)
(* read_packet on the connection's present file object.  An answer that is *)
(* cut off inside a packet keeps the thread in its inner loop for ever: the*)
(* read of a closed stream returns nothing.                                *)
(***************************************************************************)
Read(t) ==
  /\ pc[t] = "read"
  /\ LET s == conn.file_object IN
     IF net[s].link = "reset"
     THEN Raises(t, "io") /\ UNCHANGED net
     ELSE IF net[s].inbox # <<>>
     THEN /\ Goto(t, "react")
          /\ job' = [job EXCEPT ![t].pkt = Head(net[s].inbox), ![t].num = @ + 1]
          /\ net' = [net EXCEPT ![s].inbox = Tail(@)]
     ELSE /\ CASE net[s].link = "torn" ->
                    Goto(t, "stuck") /\ UNCHANGED job
               [] net[s].link \in {"half", "down"} -> Raises(t, "eof")
               [] OTHER -> EndTurn(t, job[t].bad)
          /\ UNCHANGED net
  /\ UNCHANGED <<lock, threadVars, conn, want, dials, calls>>

-----------------------------------------------------------------------------
(***************************************************************************)
(* _react: what the reactors do with a packet.                             *)
(***************************************************************************)

\* The packet is handled; a write error before a disconnect packet is forgotten.
Handled(t) ==
  Onward(t, job[t].num, IF job[t].pkt = "disconnect" THEN "none" ELSE job[t].bad)

\* Mutant: a plugin request is sent back as it is.
QueuesEcho(r, k) ==
  CASE r = "login" /\ k = "plugin request" -> <<k>>
    [] r = "play" /\ k \in {"keep alive", "position"} -> <<k>>
    [] r = "ping" /\ k \in Responses -> <<"ping">>
    [] OTHER -> <<>>

\* Packets that are answered through the queue, or only noted.
Queues(r, k) ==
  CASE r = "login" /\ k = "plugin request" -> <<"plugin response">>
    [] r = "play" /\ k \in {"keep alive", "position"} -> <<k>>
    [] r = "ping" /\ k \in Responses -> <<"ping">>
    [] OTHER -> <<>>

Disconnects(r, k) ==
  \/ r = "play" /\ k = "disconnect"
  \/ r \in {"status", "query"} /\ k \in Responses
  \/ r = "ping" /\ k = "pong"

React(t) ==
  LET r == conn.reactor
      k == job[t].pkt
  IN
  /\ pc[t] = "react"
  /\ CASE r = "login" /\ k = "encryption request" ->
            Goto(t, "join") /\ UNCHANGED <<job, conn, lock>>
       [] r = "login" /\ k = "offline encryption request" ->
            Goto(t, "answer") /\ UNCHANGED <<job, conn, lock>>
       [] r = "login" /\ k = "disconnect" ->
            Raises(t, "login") /\ UNCHANGED <<conn, lock>>
       [] Disconnects(r, k) ->
            /\ lock = None /\ lock' = t
            /\ conn' = [conn EXCEPT !.connected = FALSE]
            /\ job' = [job EXCEPT ![t].via = r]
            /\ Goto(t, "closing")
       [] OTHER ->
            /\ conn' = [conn EXCEPT
                 !.reactor = IF r = "login" /\ k = "success" THEN "play" ELSE @,
                 !.zip = @ \/ (r \in {"login", "play"} /\ k = "set compression"),
                 !.queue = @ \o Queues(r, k)]
            /\ Handled(t) /\ UNCHANGED lock
  /\ UNCHANGED <<threadVars, want, net, dials, calls>>

\* Mutant: the verdict of the session service is not looked at.
JoinAnyway(t, accepted) ==
  /\ pc[t] = "join" /\ accepted \in BOOLEAN
  /\ Goto(t, "answer")
  /\ UNCHANGED <<lock, threadVars, job, conn, want, net, dials, calls>>

\* auth_token.join with the session service; it raises unless accepted.
Join(t, accepted) ==
  /\ pc[t] = "join"
  /\ IF accepted THEN Goto(t, "answer") /\ UNCHANGED job ELSE Raises(t, "join")
  /\ UNCHANGED <<lock, threadVars, conn, want, net, dials, calls>>

\* write_packet(encryption_response, force=True)
Answer(t) ==
  /\ pc[t] = "answer" /\ lock = None
  /\ \/ Sent("encryption response") /\ Goto(t, "wrap") /\ UNCHANGED job
     \/ SendIOError /\ Raises(t, "io") /\ UNCHANGED net
     \/ NoSocket /\ Raises(t, "attribute") /\ UNCHANGED net
  /\ UNCHANGED <<lock, threadVars, conn, want, dials, calls>>

\* The wrappers are put around whatever the attributes hold by now; the key is
\* the one that was sent to the server of this thread.
Wrap(t) ==
  /\ pc[t] = "wrap"
  /\ conn' = [conn EXCEPT !.socket = IF @ = None THEN Hollow ELSE @,
                          !.key = t]
  /\ Handled(t)
  /\ UNCHANGED <<lock, threadVars, want, net, dials, calls>>

-----------------------------------------------------------------------------
(***************************************************************************)
(* disconnect(): flush the queue, interrupt the present thread, close the  *)
(* socket.  An error while flushing escapes before the last two.           *)
(***************************************************************************)
Interrupted ==
  IF networking_thread = None THEN interrupt
  ELSE [interrupt EXCEPT ![networking_thread] = TRUE]

\* What the server still knows of a closed connection is forgotten.
ClosedEnd(e) ==
  [e EXCEPT !.link = IF e.link = "torn" THEN "torn" ELSE "down",
            !.srv = IF e.srv = "confused" THEN "confused" ELSE "done",
            !.zip = FALSE, !.key = None]

ClosedEnds ==
  IF conn.socket \notin Ids THEN net
  ELSE [net EXCEPT ![conn.socket] = ClosedEnd(net[conn.socket])]

ClosedConn ==
  [conn EXCEPT !.connected = FALSE,
               !.socket = IF @ = Hollow THEN @ ELSE None]

\* Mutant: a write error is raised after a disconnect packet, too.
ResumesStrictly(t) ==
  LET k == job[t].pkt IN
  IF job[t].via = "query" /\ k = "empty" THEN Raises(t, "io")
  ELSE IF job[t].via = "query" /\ k = "wrong version" THEN Raises(t, "version")
  ELSE IF job[t].via = "query" THEN Goto(t, "narrow") /\ UNCHANGED job
  ELSE IF k = "disconnect" THEN
    /\ Goto(t, IF job[t].bad # "none" THEN "raise" ELSE "turn")
    /\ job' = [job EXCEPT ![t] =
                 [Locals(t, 0, "none", job[t].bad) EXCEPT !.kicked = TRUE]]
  ELSE EndTurn(t, job[t].bad)

\* What a networking thread does when disconnect() has returned to its reactor.
Resumes(t) ==
  LET k == job[t].pkt IN
  IF job[t].via = "query" /\ k = "empty" THEN Raises(t, "io")
  ELSE IF job[t].via = "query" /\ k = "wrong version" THEN Raises(t, "version")
  ELSE IF job[t].via = "query" THEN Goto(t, "narrow") /\ UNCHANGED job
  ELSE IF k = "disconnect" THEN
    /\ Goto(t, "turn")
    /\ job' = [job EXCEPT ![t] = [Locals(t, 0, "none", "none") EXCEPT !.kicked = TRUE]]
  ELSE EndTurn(t, job[t].bad)

Flush(p) ==
  /\ pc[p] = "closing" /\ lock = p
  /\ conn.socket # None /\ conn.queue # <<>>
  /\ conn' = [conn EXCEPT !.queue = Tail(@)]
  /\ \/ Sent(Head(conn.queue)) /\ UNCHANGED <<lock, pc, job>>
     \/ /\ (SendIOError \/ NoSocket)
        /\ lock' = None
        /\ IF p \in Ids THEN Raises(p, IF NoSocket THEN "attribute" ELSE "io")
           ELSE Goto(p, "idle") /\ UNCHANGED job
        /\ UNCHANGED net
  /\ UNCHANGED <<threadVars, want, dials, calls>>

Close(p) ==
  /\ pc[p] = "closing" /\ lock = p
  /\ conn.socket = None \/ conn.queue = <<>>
  /\ lock' = None
  /\ interrupt' = Interrupted /\ net' = ClosedEnds
  /\ conn' = ClosedConn
  /\ IF p \notin Ids THEN Goto(p, "idle") /\ UNCHANGED job
     ELSE IF conn.socket = Hollow THEN Raises(p, "attribute")
     ELSE Resumes(p)
  /\ UNCHANGED <<networking_thread, new_networking_thread, previous_thread,
                 want, dials, calls>>

-----------------------------------------------------------------------------
(***************************************************************************)
(* connect() and status(), called by a program or by a networking thread   *)
(* that has learnt the server's version.  The lock is held throughout.     *)
(***************************************************************************)

\* _check_connection
Busy ==
  \/ networking_thread # None /\ ~ interrupt[networking_thread]
  \/ new_networking_thread # None

\* The call of p has failed with an exception.
CallFails(p, exc) ==
  IF p \notin Ids THEN Goto(p, "idle") /\ UNCHANGED job
  ELSE IF job[p].via = "query" THEN Raises(p, exc)
  ELSE Goto(p, "report") /\ job' = [job EXCEPT ![p].exc = exc]

Dial(p, w) ==
  /\ lock = None
  /\ IF Busy
     THEN CallFails(p, "state") /\ UNCHANGED <<lock, conn, want, dials>>
     ELSE /\ dials < MaxDials /\ dials' = dials + 1
          /\ lock' = p /\ want' = w
          /\ conn' = [conn EXCEPT !.queue = <<>>]
          /\ Goto(p, "opening") /\ UNCHANGED job
  /\ UNCHANGED <<threadVars, net>>

\* The name does not resolve, or the new socket cannot be connected.
Refuse(p) ==
  /\ pc[p] = "opening" /\ lock = p
  /\ lock' = None /\ want' = "play"
  /\ conn' \in {conn, [conn EXCEPT !.socket = dials, !.key = None]}
  /\ CallFails(p, "io")
  /\ UNCHANGED <<threadVars, net, dials, calls>>

Direct == want = "play" /\ conn.allowed = "one"

\* Mutant: the compression of the last connection stays on.
OpenZipped(p) ==
  /\ pc[p] = "opening" /\ lock = p
  /\ net' = [net EXCEPT ![dials].link = "up"]
  /\ conn' = [Append1(conn, IF Direct THEN "hello login" ELSE "hello status")
               EXCEPT !.socket = dials, !.file_object = dials, !.key = None,
                      !.connected = TRUE]
  /\ Goto(p, "going")
  /\ UNCHANGED <<lock, threadVars, job, want, dials, calls>>

Open(p) ==
  /\ pc[p] = "opening" /\ lock = p
  /\ net' = [net EXCEPT ![dials].link = "up"]
  /\ conn' = [Append1(conn, IF Direct THEN "hello login" ELSE "hello status")
               EXCEPT !.socket = dials, !.file_object = dials, !.key = None,
                      !.zip = FALSE, !.connected = TRUE]
  /\ Goto(p, "going")
  /\ UNCHANGED <<lock, threadVars, job, want, dials, calls>>

\* Mutant: the reactor's handler does not return True, the handlers go on.
GoOn(p) ==
  /\ pc[p] = "going" /\ lock = p
  /\ lock' = None /\ want' = "play"
  /\ conn' = [Append1(conn, IF Direct THEN "start" ELSE "request")
               EXCEPT !.reactor = IF Direct THEN "login"
                                  ELSE IF want = "play" THEN "query" ELSE want]
  /\ IF networking_thread = None
     THEN networking_thread' = dials /\ UNCHANGED new_networking_thread
     ELSE new_networking_thread' = dials /\ UNCHANGED networking_thread
  /\ previous_thread' = [previous_thread EXCEPT ![dials] = networking_thread]
  /\ pc' = [pc EXCEPT
       ![dials] = IF networking_thread = None THEN "turn" ELSE "wait",
       ![p] = IF p \notin Ids THEN "idle"
              ELSE IF job[p].via = "handler" THEN "report"
              ELSE IF job[p].bad # "none" THEN "raise" ELSE "turn"]
  /\ job' = IF p \notin Ids THEN job
            ELSE [job EXCEPT ![p] =
                    [Locals(p, 0, "none", job[p].bad) EXCEPT !.next = TRUE]]
  /\ UNCHANGED <<interrupt, net, dials, calls>>

\* The second packet, the reactor, and _start_network_thread.  A networking
\* thread that has dialled has been interrupted: it goes on to its end.
Go(p) ==
  /\ pc[p] = "going" /\ lock = p
  /\ lock' = None /\ want' = "play"
  /\ conn' = [Append1(conn, IF Direct THEN "start" ELSE "request")
               EXCEPT !.reactor = IF Direct THEN "login"
                                  ELSE IF want = "play" THEN "query" ELSE want]
  /\ IF networking_thread = None
     THEN networking_thread' = dials /\ UNCHANGED new_networking_thread
     ELSE new_networking_thread' = dials /\ UNCHANGED networking_thread
  /\ previous_thread' = [previous_thread EXCEPT ![dials] = networking_thread]
  /\ pc' = [pc EXCEPT
       ![dials] = IF networking_thread = None THEN "turn" ELSE "wait",
       ![p] = IF p \notin Ids THEN "idle"
              ELSE IF job[p].via = "handler" THEN "final"
              ELSE IF job[p].bad # "none" THEN "raise" ELSE "turn"]
  /\ job' = IF p \notin Ids THEN job
            ELSE [job EXCEPT ![p] =
                    [Locals(p, 0, "none", job[p].bad) EXCEPT !.next = TRUE]]
  /\ UNCHANGED <<interrupt, net, dials, calls>>

\* handle_proto_version: the version that the server has told, or the default
\* one, is the only one from now on.
Narrow(t) ==
  /\ pc[t] = "narrow"
  /\ conn' = [conn EXCEPT !.allowed = "one"]
  /\ Goto(t, "dial")
  /\ UNCHANGED <<lock, threadVars, job, want, net, dials, calls>>

DialAgain(t) == pc[t] = "dial" /\ Dial(t, "play") /\ UNCHANGED calls

-----------------------------------------------------------------------------
(***************************************************************************)
(* run: the join with the previous thread, the exits and the clean-up.     *)
(***************************************************************************)
\* Mutant: the previous thread is not joined.
WaitNot(t) ==
  /\ pc[t] = "wait" /\ lock = None
  /\ networking_thread' = t /\ new_networking_thread' = None
  /\ Goto(t, "turn")
  /\ UNCHANGED <<lock, interrupt, previous_thread, job, conn, want, net,
                 dials, calls>>

Wait(t) ==
  /\ pc[t] = "wait" /\ lock = None
  /\ pc[previous_thread[t]] = "dead"
  /\ networking_thread' = t /\ new_networking_thread' = None
  /\ Goto(t, "turn")
  /\ UNCHANGED <<lock, interrupt, previous_thread, job, conn, want, net,
                 dials, calls>>

\* The except clause of run.
Raise(t) ==
  /\ pc[t] = "raise"
  /\ interrupt' = [interrupt EXCEPT ![t] = TRUE]
  /\ Goto(t, IF job[t].exc = "eof" THEN "handle" ELSE "report")
  /\ UNCHANGED <<lock, networking_thread, new_networking_thread,
                 previous_thread, job, conn, want, net, dials, calls>>

\* The present reactor's handle_exception, which is asked first.
Handle(t) ==
  /\ pc[t] = "handle"
  /\ Goto(t, IF conn.reactor = "query" THEN "clear" ELSE "report")
  /\ UNCHANGED <<lock, threadVars, job, conn, want, net, dials, calls>>

\* A server that hangs up instead of answering a status query is dialled with
\* the default version, after disconnect(immediate=True).
Clear(t) ==
  /\ pc[t] = "clear" /\ lock = None
  /\ interrupt' = Interrupted /\ net' = ClosedEnds /\ conn' = ClosedConn
  /\ job' = [job EXCEPT ![t].via = "handler"]
  /\ Goto(t, "narrow")
  /\ UNCHANGED <<lock, networking_thread, new_networking_thread,
                 previous_thread, want, dials, calls>>

\* Mutant: the connection is left open.
ReportOnly(t) ==
  /\ pc[t] = "report" /\ lock = None
  /\ job' = [job EXCEPT ![t] = [Locals(t, 0, "none", "none") EXCEPT !.told = "exception"]]
  /\ Goto(t, "final")
  /\ UNCHANGED <<lock, threadVars, conn, want, net, dials, calls>>

\* The user's handlers, then disconnect(immediate=True).
Report(t) ==
  /\ pc[t] = "report" /\ lock = None
  /\ job' = [job EXCEPT ![t] = [Locals(t, 0, "none", "none") EXCEPT !.told = "exception"]]
  /\ interrupt' = Interrupted /\ net' = ClosedEnds /\ conn' = ClosedConn
  /\ Goto(t, "final")
  /\ UNCHANGED <<lock, networking_thread, new_networking_thread,
                 previous_thread, want, dials, calls>>

\* Mutant: the test of `connected' the wrong way round.
ExitInverted(t) ==
  /\ pc[t] = "exit"
  /\ job' = [job EXCEPT ![t].told = IF conn.connected THEN "exit" ELSE @]
  /\ Goto(t, "final")
  /\ UNCHANGED <<lock, threadVars, conn, want, net, dials, calls>>

\* _handle_exit
Exit(t) ==
  /\ pc[t] = "exit"
  /\ job' = [job EXCEPT ![t].told = IF conn.connected THEN @ ELSE "exit"]
  /\ Goto(t, "final")
  /\ UNCHANGED <<lock, threadVars, conn, want, net, dials, calls>>

\* The finally clause.  What is left in the buffers of the thread's socket is
\* forgotten.
Final(t) ==
  /\ pc[t] = "final" /\ lock = None
  /\ networking_thread' = None
  /\ net' = [net EXCEPT ![t].inbox = <<>>]
  /\ Goto(t, "dead")
  /\ UNCHANGED <<lock, new_networking_thread, interrupt, previous_thread,
                 job, conn, want, dials, calls>>

-----------------------------------------------------------------------------
(***************************************************************************)
(* The program's calls.                                                    *)
(***************************************************************************)
Calls(c) ==
  /\ pc[c] = "idle" /\ calls < MaxCalls /\ calls' = calls + 1

Connect(c, w) ==
  /\ Calls(c)
  /\ Hasty \/ Busy \/ networking_thread = None
  /\ dials + (IF conn.allowed = "many" THEN 2 ELSE 1) <= MaxDials \* a bound
  /\ Dial(c, w)

Disconnect(c, immediate) ==
  /\ Calls(c) /\ lock = None /\ dials > 0
  /\ IF immediate
     THEN /\ interrupt' = Interrupted /\ net' = ClosedEnds
          /\ conn' = ClosedConn /\ UNCHANGED <<lock, pc>>
     ELSE /\ lock' = c /\ Goto(c, "closing")
          /\ conn' = [conn EXCEPT !.connected = FALSE]
          /\ UNCHANGED <<interrupt, net>>
  /\ UNCHANGED <<networking_thread, new_networking_thread, previous_thread,
                 job, want, dials>>

\* A chat line is early unless the connection is open for play.
ChatLine ==
  IF conn.reactor = "play" /\ \A p \in Procs : pc[p] \notin {"opening", "going"}
  THEN "chat" ELSE "early chat"

\* write_packet, at any time after the first call that connects.
Chat(c) ==
  /\ Calls(c) /\ dials > 0
  /\ conn' = Append1(conn, ChatLine)
  /\ UNCHANGED <<lock, threadVars, pc, job, want, net, dials>>

\* write_packet(force=True); an error is the caller's.
ChatNow(c) ==
  /\ Calls(c) /\ dials > 0 /\ lock = None
  /\ \/ Sent(ChatLine)
     \/ (SendIOError \/ NoSocket) /\ UNCHANGED net
  /\ UNCHANGED <<lock, threadVars, pc, job, conn, want, dials>>

-----------------------------------------------------------------------------
(***************************************************************************)
(* Servers (outside the repository): they answer in the order of the       *)
(* protocol, choose what they answer, and hang up whenever they like.      *)
(***************************************************************************)
Says(s, from, k, to) ==
  /\ net[s].link = "up" /\ net[s].srv = from
  /\ Len(net[s].inbox) < MaxInbox
  /\ net' = [net EXCEPT ![s].inbox = Append(@, k), ![s].srv = to,
                        ![s].zip = @ \/ k = "set compression"]

Serve(s) ==
  \/ \E k \in Responses : Says(s, "asked", k, "told")
  \/ Says(s, "pinged", "pong", "done")
  \/ \E k \in {"encryption request", "offline encryption request"} :
       Says(s, "named", k, "encrypt")
  \/ Says(s, "named", "success", "play")
  \/ ~ net[s].zip /\ Says(s, "ready", "set compression", "ready")
  \/ Says(s, "ready", "plugin request", "plugin")
  \/ Says(s, "ready", "success", "play")
  \/ \E k \in Questions : Says(s, "play", k, "play")

HangUp(s) ==
  \/ \E l \in {"half", "reset", "torn"} :
       net[s].link = "up" /\ net' = [net EXCEPT ![s].link = l]
  \/ /\ net[s].link = "up" /\ Len(net[s].inbox) < MaxInbox
     /\ net[s].srv \in Joining \cup {"offended login"}
     /\ net' = [net EXCEPT ![s].inbox = Append(@, "disconnect"),
                           ![s].link = "half"]

Server(s) ==
  /\ Serve(s) \/ HangUp(s)
  /\ UNCHANGED <<lock, threadVars, pc, job, conn, want, dials, calls>>

-----------------------------------------------------------------------------
ThreadStep(t) ==
  \/ Wait(t) \/ Turn(t) \/ Write(t) \/ Written(t) \/ Read(t) \/ React(t)
  \/ Answer(t) \/ Wrap(t) \/ Raise(t) \/ Handle(t) \/ Clear(t) \/ Report(t)
  \/ Exit(t) \/ Final(t) \/ Narrow(t) \/ DialAgain(t)

CallStep(p) == Flush(p) \/ Close(p) \/ Refuse(p) \/ Open(p) \/ Go(p)

CallerStep(c) ==
  \/ \E w \in {"play", "status", "ping"} : Connect(c, w)
  \/ \E i \in BOOLEAN : Disconnect(c, i)
  \/ Chat(c) \/ ChatNow(c)

Next ==
  \/ \E t \in Ids : ThreadStep(t) \/ \E a \in BOOLEAN : Join(t, a)
  \/ \E p \in Procs : CallStep(p)
  \/ \E c \in Callers : CallerStep(c)
  \/ \E s \in Ids : Server(s)

Spec == Init /\ [][Next]_vars

(***************************************************************************)
(* Python runs every thread, a lock that is given back again and again is  *)
(* had in the end, and a dial or a join with the service ends (both have a *)
(* timeout).  Nothing is assumed of programs and servers.                  *)
(***************************************************************************)
Fairness ==
  /\ \A t \in Ids : SF_vars(ThreadStep(t)) /\ WF_vars(\E a \in BOOLEAN : Join(t, a))
  /\ \A p \in Procs : WF_vars(CallStep(p))

FairSpec == Spec /\ Fairness
-----------------------------------------------------------------------------
(***************************************************************************)
(* Properties.                                                             *)
(***************************************************************************)
Active == ThreadPCs \ {"unborn", "wait", "dead"}

Errors == {"none", "io", "early"}
JobType ==
  [pkt : Clientbound \cup {"none"}, num : Nat, bad : Errors,
   exc : Errors \cup {"eof", "attribute", "login", "join", "version", "state"},
   via : Reactors \cup {"none", "handler"},
   told : {"none", "exit", "exception"}, next : BOOLEAN, kicked : BOOLEAN]
ConnType ==
  [connected : BOOLEAN, socket : Ids \cup {None, Hollow},
   file_object : Ids \cup {None}, reactor : Reactors, queue : Seq(Serverbound),
   zip : BOOLEAN, key : Ids \cup {None}, allowed : {"many", "one"}]
EndType ==
  [srv : Phases, link : Links, inbox : Seq(Clientbound), zip : BOOLEAN,
   key : Ids \cup {None}]

\* Type invariant.
TypeOK ==
  /\ lock \in Procs \cup {None}
  /\ networking_thread \in Ids \cup {None}
  /\ new_networking_thread \in Ids \cup {None}
  /\ pc \in [Procs -> ThreadPCs \cup CallerPCs]
  /\ \A c \in Callers : pc[c] \in CallerPCs
  /\ \A t \in Ids : pc[t] \in ThreadPCs
  /\ interrupt \in [Ids -> BOOLEAN]
  /\ previous_thread \in [Ids -> Ids \cup {None}]
  /\ job \in [Ids -> JobType] /\ conn \in ConnType /\ net \in [Ids -> EndType]
  /\ want \in {"play", "status", "ping"}
  /\ dials \in 0..MaxDials /\ calls \in 0..MaxCalls

\* A thread that reads, writes or reacts is the networking thread: two threads
\* never serve the connection at once, a successor waits for its predecessor
\* to be gone (connection.py:165-174, 536-544).
OneReader ==
  \A t \in Ids : pc[t] \in Active => networking_thread = t

\* Why OneReader holds, together with it: a waiting thread is the successor,
\* waits for the thread that is the networking thread (or nobody is), and is
\* alone in waiting; who calls connect has the lock and found no successor.
ThreadInv ==
  /\ OneReader
  /\ \A t \in Ids : pc[t] = "wait" =>
       /\ new_networking_thread = t
       /\ networking_thread \in {None, previous_thread[t]}
  /\ \A p \in Procs :
       /\ pc[p] \in {"writing", "closing", "opening", "going"} => lock = p
       /\ pc[p] \in {"opening", "going"} =>
            new_networking_thread = None /\ dials \in Ids
       /\ pc[p] = "going" => conn.file_object \in Ids
  /\ \A t \in Ids : pc[t] # "unborn" => conn.file_object \in Ids

\* An open connection has a thread that serves it, is about to serve it, or is
\* on the way to report a failure and to close it: it is never forgotten.
Served ==
  conn.connected /\ lock = None =>
    \E t \in Ids : /\ t \in {networking_thread, new_networking_thread}
                   /\ pc[t] \notin {"unborn", "exit", "final", "dead"}
                   /\ interrupt[t] =>
                        pc[t] \in {"handle", "clear", "narrow", "dial", "report"}

\* The first packet that a server cannot take, for its phase of the protocol,
\* its compression or its encryption, is never one that the library has written
\* of its own accord: across status queries, automatic and manual
\* reconnections, with whatever the program adds to the queue meanwhile, only
\* a chat line written before the play state can offend it.
NoConfusion == \A s \in Ids : net[s].srv # "confused"

\* A thread that has followed a server's disconnect packet ends with
\* handle_exit and reports no exception, although an earlier write may have
\* failed on the closing connection (connection.py:585-592).
KickIsNoError ==
  \A t \in Ids : job[t].kicked => job[t].told \in {"none", "exit"} /\ pc[t] # "raise"

\* No thread ends silently: the program has been told of the exit or of the
\* exception unless the thread itself has opened the next connection.
EndIsReported ==
  \A t \in Ids : pc[t] = "dead" => job[t].told # "none" \/ job[t].next

\* A networking thread on its way out does not close the connection that was
\* opened for its successor: only a program's call does (connect() "May safely
\* be called multiple times after the first"), or a thread that dials although
\* an early chat line of the program could not be written, and then raises the
\* remembered error (connection.py:591-592, 490).
SuccessorKept ==
  [][new_networking_thread # None /\ conn.connected /\ ~ conn'.connected
       => \A t \in Ids : pc'[t] = pc[t] \/ job[t].exc = "early"]_vars

\* When the server hangs up or resets, or the client closes, the thread of that
\* connection ends.  (A server that hangs up inside a packet is excluded: the
\* reader then turns for ever.)
ClosedThreadEnds ==
  \A t \in Ids :
    pc[t] # "unborn" /\ net[t].link \in {"half", "reset", "down"}
      ~> pc[t] = "dead"
=============================================================================
