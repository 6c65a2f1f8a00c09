------------------------------- MODULE RconClient -------------------------------
(***************************************************************************)
(* The class Rcon as the relay mcdrconnew.py uses it: one process that     *)
(* logs in, and for each inotify event sends one command under             *)
(* eventlet.Timeout(0.5, False), reconnecting and resending on any         *)
(* exception.  The Minecraft server is modelled from what the client       *)
(* relies on: it serves each connection's packets in order, answers a      *)
(* command with one or more packets, and the packet type 100 with          *)
(* "Unknown request 64".                                                   *)
(*                                                                         *)
(* The timer is one-shot and an exception that only the hub of eventlet    *)
(* raises: in time.sleep, and in calls on a socket made after              *)
(* monkey_patch().  The bare `except` of __send_command catches it like    *)
(* any other, so it never ends the `with` block.                           *)
(***************************************************************************)
EXTENDS Naturals, Sequences

CONSTANTS
  MaxRetry,    \* max_retry_time
  Calls,       \* bound: inotify events handled
  MaxFrag,     \* bound: packets of one response
  Faults       \* TRUE: the server closes or resets connections

ASSUME RconAssumption ==
  /\ MaxRetry \in Nat
  /\ Calls \in Nat
  /\ MaxFrag \in Nat \ {0}
  /\ Faults \in BOOLEAN

VARIABLES
  pc,          \* where the process stands
  call,        \* number of the event being, or last, handled; 0 before
  depth,       \* depth of the recursion of __send_command
  timer,       \* the Timeout of this event has not fired yet
  sock,        \* the connection in self.socket, 0 for None
  result,      \* the packets joined so far
  answer,      \* answer[k]: what send_command returned for event k (history)
  retries,     \* retries[k]: depth at which event k was answered (history)
  passwordOK,  \* the server accepts the password of ENV
  link,        \* link[c]: state of the c-th connection made
  toServer,    \* toServer[c]: packets the server has not served yet
  toClient,    \* toClient[c]: packets the client has not read yet
  executed     \* executed[k]: times the server ran the command of event k

clientVars == <<pc, call, depth, timer, sock, result, answer, retries>>
netVars == <<link, toServer, toClient>>
vars == <<pc, call, depth, timer, sock, result, answer, retries, passwordOK,
          link, toServer, toClient, executed>>

Events == 1..Calls
MaxConns == 1 + Calls * (MaxRetry + 1)
Conns == 1..Len(link)
\* The packets of a response; a packet is a tuple headed by its kind.
Response(k, n) == [i \in 1..n |-> <<"part", k, i, n>>]
Ready(c, kind) == toClient[c] # <<>> /\ Head(toClient[c])[1] = kind
None == <<>>

Init ==
  /\ pc = "connect"
  /\ call = 0 /\ depth = 0 /\ timer = FALSE /\ sock = 0
  /\ result = <<>>
  /\ answer = [k \in Events |-> None]
  /\ retries = [k \in Events |-> 0]
  /\ passwordOK \in BOOLEAN
  /\ link = <<>> /\ toServer = <<>> /\ toClient = <<>>
  /\ executed = [k \in Events |-> 0]

------------------------------------------------------------------------------
(* The client *)

Usable == sock # 0 /\ link[sock] \in {"open", "closed"}
\* Only the socket of the first connect() was made before monkey_patch().
Green(c) == c > 1

\* `self.socket.send`: a connection the server has closed takes the data.
Put(p) ==
  /\ Usable
  /\ toServer' = IF link[sock] = "open"
                   THEN [toServer EXCEPT ![sock] = Append(@, p)] ELSE toServer
  /\ UNCHANGED <<link, toClient>>

Drop(c) == IF c = 0 THEN link ELSE [link EXCEPT ![c] = "dropped"]

\* Mutant of Die: the None is echoed and the loop goes on.
GoOn ==
  /\ pc' = "idle"
  /\ UNCHANGED <<call, depth, timer, sock, result, answer, retries>>

\* send_command returned None: the concatenation at line 139 raises.
Die ==
  /\ pc' = "dead"
  /\ UNCHANGED <<call, depth, timer, sock, result, answer, retries>>

\* connect(): a new socket, and the login packet on it.
Connect ==
  /\ pc = "connect"
  /\ link' = Append(link, "open")
  /\ toServer' = Append(toServer, << <<"login">> >>)
  /\ toClient' = Append(toClient, <<>>)
  /\ sock' = Len(link')
  /\ pc' = "login"
  /\ UNCHANGED <<call, depth, timer, result, answer, retries, passwordOK, executed>>

\* Refused, or ended by the timer: at the start nothing catches it, in a
\* retry the inner `except` makes the call return None.
ConnectFails ==
  /\ pc = "connect"
  /\ Faults \/ timer
  /\ Die
  /\ UNCHANGED <<netVars, passwordOK, executed>>

LoginFails ==
  /\ pc = "login"
  /\ \/ link[sock] = "reset"
     \/ timer
     \/ call > 0 /\ Ready(sock, "login_fail")
  /\ Die
  /\ UNCHANGED <<netVars, passwordOK, executed>>

\* Mutant of LoggedIn: `<=` for `<`, one attempt too many.
LoggedInOffByOne ==
  /\ pc = "login"
  /\ Ready(sock, "login_ok")
  /\ toClient' = [toClient EXCEPT ![sock] = Tail(@)]
  /\ pc' = IF call = 0 THEN "idle" ELSE IF depth <= MaxRetry THEN "send" ELSE "dead"
  /\ depth' = IF call > 0 /\ depth <= MaxRetry THEN depth + 1 ELSE depth
  /\ UNCHANGED <<call, timer, sock, result, answer, retries, passwordOK,
                 link, toServer, executed>>

\* `if self.connect() and depth < max_retry_time`, or the connect() of the start.
LoggedIn ==
  /\ pc = "login"
  /\ Ready(sock, "login_ok")
  /\ toClient' = [toClient EXCEPT ![sock] = Tail(@)]
  /\ pc' = IF call = 0 THEN "idle" ELSE IF depth < MaxRetry THEN "send" ELSE "dead"
  /\ depth' = IF call > 0 /\ depth < MaxRetry THEN depth + 1 ELSE depth
  /\ UNCHANGED <<call, timer, sock, result, answer, retries, passwordOK,
                 link, toServer, executed>>

\* At the start a refused login is printed and the process goes on without socket.
NotLoggedIn ==
  /\ pc = "login" /\ call = 0
  /\ Ready(sock, "login_fail")
  /\ link' = Drop(sock)
  /\ sock' = 0
  /\ pc' = "idle"
  /\ UNCHANGED <<call, depth, timer, result, answer, retries, passwordOK,
                 toServer, toClient, executed>>

\* process_IN_MODIFY: arms the Timeout and calls send_command.
Event ==
  /\ pc = "idle" /\ call < Calls
  /\ call' = call + 1
  /\ depth' = 0
  /\ timer' = TRUE
  /\ pc' = "send"
  /\ UNCHANGED <<sock, result, answer, retries, passwordOK, netVars, executed>>

SendCommand ==
  /\ pc = "send"
  /\ Put(<<"cmd", call>>)
  /\ pc' = "sleep"
  /\ UNCHANGED <<call, depth, timer, sock, result, answer, retries, passwordOK, executed>>

\* Mutant of SendEnding: `result = ''` stands before the retries.
SendEndingKeepsResult ==
  /\ pc = "sleep"
  /\ Put(<<"end">>)
  /\ pc' = "sleep2"
  /\ UNCHANGED <<call, depth, timer, sock, result, answer, retries, passwordOK, executed>>

\* Mutant of SendEnding: no ending packet is sent.
SendNoEnding ==
  /\ pc = "sleep"
  /\ pc' = "sleep2"
  /\ result' = <<>>
  /\ UNCHANGED <<call, depth, timer, sock, answer, retries, passwordOK, netVars, executed>>

SendEnding ==
  /\ pc = "sleep"
  /\ Put(<<"end">>)
  /\ pc' = "sleep2"
  /\ result' = <<>>
  /\ UNCHANGED <<call, depth, timer, sock, answer, retries, passwordOK, executed>>

Wake ==
  /\ pc = "sleep2"
  /\ pc' = "recv"
  /\ UNCHANGED <<call, depth, timer, sock, result, answer, retries, passwordOK,
                 netVars, executed>>

\* Mutant of Receive: the first packet is taken for the whole response.
ReceiveOne ==
  /\ pc = "recv" /\ toClient[sock] # <<>>
  /\ link[sock] # "reset"
  /\ toClient' = [toClient EXCEPT ![sock] = Tail(@)]
  /\ pc' = "idle"
  /\ timer' = FALSE
  /\ answer' = [answer EXCEPT ![call] = <<Head(toClient[sock])>>]
  /\ retries' = [retries EXCEPT ![call] = depth]
  /\ UNCHANGED <<call, depth, sock, result, passwordOK, link, toServer, executed>>

Receive ==
  /\ pc = "recv" /\ toClient[sock] # <<>>
  /\ link[sock] # "reset"
  /\ toClient' = [toClient EXCEPT ![sock] = Tail(@)]
  /\ LET p == Head(toClient[sock]) IN
       IF p[1] = "unknown"
         THEN /\ pc' = "idle"
              /\ timer' = FALSE
              /\ answer' = [answer EXCEPT ![call] = result]
              /\ retries' = [retries EXCEPT ![call] = depth]
              /\ UNCHANGED result
         ELSE /\ result' = Append(result, p)
              /\ UNCHANGED <<pc, timer, answer, retries>>
  /\ UNCHANGED <<call, depth, sock, passwordOK, link, toServer, executed>>

\* An exception between acquire() and the end of the loop: the socket is None
\* or broken, or the timer fires.  The `except` disconnects and connects again.
Fail ==
  /\ \/ pc \in {"send", "sleep"} /\ ~Usable /\ UNCHANGED timer
     \/ pc = "recv" /\ link[sock] = "reset" /\ UNCHANGED timer
     \/ /\ \/ pc \in {"sleep", "sleep2"}
           \/ pc = "recv" /\ Green(sock)
        /\ timer
        /\ timer' = FALSE
  /\ link' = Drop(sock)
  /\ sock' = 0
  /\ pc' = "connect"
  /\ UNCHANGED <<call, depth, result, answer, retries, passwordOK,
                 toServer, toClient, executed>>

\* recv() returns b'' for ever on a connection the server has closed, and on a
\* green socket also on one it has reset.  It returns at once, so that the hub
\* never runs the timer.
Hang ==
  /\ pc \in {"login", "recv"}
  /\ toClient[sock] = <<>>
  /\ \/ link[sock] = "closed"
     \/ link[sock] = "reset" /\ Green(sock)
  /\ pc' = "hung"
  /\ UNCHANGED <<call, depth, timer, sock, result, answer, retries, passwordOK,
                 netVars, executed>>

------------------------------------------------------------------------------
(* The server *)

\* A packet already sent is served even when the client has dropped the
\* connection; its answer is lost then.
Reply(c, ps) ==
  toClient' = IF link[c] = "open" THEN [toClient EXCEPT ![c] = @ \o ps] ELSE toClient

Serve(c) ==
  /\ toServer[c] # <<>>
  /\ toServer' = [toServer EXCEPT ![c] = Tail(@)]
  /\ LET p == Head(toServer[c]) IN
       \/ /\ p[1] = "login"
          /\ Reply(c, << <<IF passwordOK THEN "login_ok" ELSE "login_fail">> >>)
          /\ UNCHANGED executed
       \/ /\ p[1] = "end"
          /\ Reply(c, << <<"unknown">> >>)
          /\ UNCHANGED executed
       \/ /\ p[1] = "cmd"
          /\ \E n \in 1..MaxFrag : Reply(c, Response(p[2], n))
          /\ executed' = [executed EXCEPT ![p[2]] = @ + 1]
  /\ UNCHANGED <<clientVars, passwordOK, link>>

CutOff(c) ==
  /\ Faults
  /\ link[c] = "open"
  /\ \E how \in {"closed", "reset"} : link' = [link EXCEPT ![c] = how]
  /\ toServer' = [toServer EXCEPT ![c] = <<>>]
  /\ UNCHANGED <<clientVars, passwordOK, toClient, executed>>

------------------------------------------------------------------------------

ClientStep ==
  \/ Connect \/ LoggedIn \/ NotLoggedIn \/ SendCommand \/ SendEnding \/ Wake
  \/ Receive \/ Fail \/ ConnectFails \/ LoginFails \/ Hang

Next ==
  \/ ClientStep \/ Event
  \/ \E c \in Conns : Serve(c) \/ CutOff(c)

Spec == Init /\ [][Next]_vars

\* The process and the server's RCON thread run on; events need not come.
FairSpec == Spec /\ WF_vars(ClientStep)
                 /\ \A c \in 1..MaxConns : WF_vars(c \in Conns /\ Serve(c))

------------------------------------------------------------------------------
(* Properties *)

PartsOf(k, n) == {<<"part", k, i, n>> : i \in 1..n}
Packets(kinds) ==
  {<<k>> : k \in kinds} \cup {<<"cmd", k>> : k \in Events}
    \cup UNION {PartsOf(k, n) : k \in Events, n \in 1..MaxFrag}

TypeOK ==
  /\ pc \in {"connect", "login", "idle", "send", "sleep", "sleep2", "recv",
            "hung", "dead"}
  /\ call \in 0..Calls
  /\ depth \in 0..MaxRetry
  /\ timer \in BOOLEAN
  /\ sock \in 0..Len(link)
  /\ Len(link) <= MaxConns
  /\ Len(toServer) = Len(link) /\ Len(toClient) = Len(link)
  /\ \A c \in Conns :
       /\ link[c] \in {"open", "dropped", "closed", "reset"}
       /\ toServer[c] \in Seq(Packets({"login", "end"}))
       /\ toClient[c] \in Seq(Packets({"login_ok", "login_fail", "unknown"}))
  /\ retries \in [Events -> 0..MaxRetry]

\* A command is run at most once per attempt of __send_command, although every
\* attempt that failed may have reached the server, and may reach it later.
ExecutionBound ==
  \A k \in Events :
    /\ executed[k] <= 1 + MaxRetry
    /\ answer[k] # None => executed[k] \in 1..(retries[k] + 1)

\* What the relay echoes is one whole response to the command of its event:
\* never a part of it, nor packets of another attempt or of an earlier event.
AnswerComplete ==
  \A k \in Events : answer[k] # None => \E n \in 1..MaxFrag : answer[k] = Response(k, n)

\* The commands of two events are first run in the order of the events.
FirstRunsInOrder ==
  \A j, k \in Events : j < k /\ executed[k] > 0 => executed[j] > 0

\* Between two events nothing is under way on a connection in use: the next
\* command starts with the first packet of its own response.
NothingUnread ==
  pc = "idle" /\ sock # 0 /\ link[sock] = "open" =>
    toServer[sock] = <<>> /\ toClient[sock] = <<>>

\* Every event is handled to an end: the response is echoed, or the process
\* dies and the watchdog can start another one; it hangs only on a connection
\* that the server has cut off.
HandlerEnds ==
  pc = "send" ~> \/ pc \in {"idle", "dead"}
                 \/ pc = "hung" /\ link[sock] # "open"

===============================================================================
