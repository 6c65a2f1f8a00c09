---------------------------- MODULE RconClientProofs ----------------------------
(***************************************************************************)
(* Proofs about RconClient, for any number of events and retries, any      *)
(* length of a response, and with or without faults.                       *)
(*                                                                         *)
(* The inductive invariant has three layers: what the queues hold and      *)
(* which connection is in use (Queues), what the connection in use holds   *)
(* at each place of the client (Answers), and how often each command was   *)
(* and may still be run (Runs).  The first two need each other, and the    *)
(* third needs both.                                                       *)
(***************************************************************************)
EXTENDS RconClient, FiniteSetTheorems, SequenceTheorems, TLAPS

Login == <<"login">>
End == <<"end">>
Cmd(k) == <<"cmd", k>>
Unknown == <<"unknown">>
Part(k, i, n) == <<"part", k, i, n>>
Requests == Packets({"login", "end"})
Replies == Packets({"login_ok", "login_fail", "unknown"})
Attempting == {"send", "sleep", "sleep2", "recv"}

Types ==
  /\ pc \in {"connect", "login", "idle", "send", "sleep", "sleep2", "recv",
            "hung", "dead"}
  /\ call \in 0..Calls
  /\ depth \in 0..MaxRetry
  /\ timer \in BOOLEAN
  /\ sock \in 0..Len(link)
  /\ link \in Seq({"open", "dropped", "closed", "reset"})
  /\ toServer \in Seq(Seq(Requests)) /\ Len(toServer) = Len(link)
  /\ toClient \in Seq(Seq(Replies)) /\ Len(toClient) = Len(link)
  /\ result \in Seq(Replies)
  /\ answer \in [Events -> Seq(Replies)]
  /\ retries \in [Events -> 0..MaxRetry]
  /\ executed \in [Events -> Nat]

\* Every connection but the one in use was dropped by the client.
Sockets ==
  /\ pc = "connect" => sock = 0
  /\ pc \in {"login", "sleep", "sleep2", "recv"} => sock # 0
  /\ pc = "login" => sock = Len(link)
  /\ call = 0 => pc \notin Attempting
  /\ \A c \in Conns : link[c] = "dropped" <=> c # sock

\* One connection at the start, and at most one per attempt at a command.
Budget ==
  Len(link) <= IF call = 0 THEN IF pc = "connect" THEN 0 ELSE 1
               ELSE 1 + (call - 1) * (MaxRetry + 1) + depth
                      + IF pc \in {"login", "hung", "dead"} THEN 1 ELSE 0

\* What waits for the server on a connection is part of one attempt.
Shapes ==
  \A c \in Conns :
    \/ toServer[c] \in {<<>>, <<Login>>, <<End>>}
    \/ \E k \in 1..call : toServer[c] \in {<<Cmd(k)>>, <<Cmd(k), End>>}

\* A connection the server has cut off takes no more packets.
Lost == \A c \in Conns : link[c] \in {"closed", "reset"} => toServer[c] = <<>>

Queues == Types /\ Sockets /\ Budget /\ Shapes /\ Lost

\* `read` and then `rest` are the n parts of the response to event k, with e
\* ending packets after them.
Stream(read, rest, k, n, e) ==
  /\ Len(read) <= n /\ Len(read) + Len(rest) = n + e
  /\ \A i \in 1..Len(read) : read[i] = Part(k, i, n)
  /\ \A i \in 1..Len(rest) :
       rest[i] = IF Len(read) + i <= n THEN Part(k, Len(read) + i, n) ELSE Unknown

\* The command was run, and its response is joined or on its way.
Responding(read, e) ==
  /\ executed[call] > 0
  /\ \E n \in 1..MaxFrag : Stream(read, toClient[sock], call, n, e)

Cut == link[sock] # "open" /\ toServer[sock] = <<>>

\* The connection in use while the client waits for the answer to its login.
LoginWire ==
  pc = "login" =>
    \/ toServer[sock] = <<Login>> /\ toClient[sock] = <<>>
    \/ toServer[sock] = <<>> /\ toClient[sock] \in {<< <<"login_ok">> >>, << <<"login_fail">> >>}
    \/ Cut /\ toClient[sock] = <<>>

\* Between two attempts nothing is under way.
QuietWire ==
  pc \in {"idle", "send"} /\ sock # 0 => toServer[sock] = <<>> /\ toClient[sock] = <<>>

\* The command is sent.
CommandWire ==
  pc = "sleep" =>
    \/ toServer[sock] = <<Cmd(call)>> /\ toClient[sock] = <<>>
    \/ toServer[sock] = <<>> /\ Responding(<<>>, 0)
    \/ Cut /\ toClient[sock] = <<>>

\* The command and the ending packet are sent.
AnswerWire ==
  pc \in {"sleep2", "recv"} =>
    /\ pc = "sleep2" => result = <<>>
    /\ \/ toServer[sock] = <<Cmd(call), End>> /\ toClient[sock] = <<>> /\ result = <<>>
       \/ toServer[sock] = <<End>> /\ Responding(result, 0)
       \/ toServer[sock] = <<>> /\ Responding(result, 1)
       \/ Cut /\ Responding(result, 0)
       \/ Cut /\ toClient[sock] = <<>> /\ result = <<>>

\* The events answered are the ones before the current one, and that one
\* when the client is idle.
Answered ==
  \A k \in Events :
    /\ answer[k] # None <=> k < call \/ (k = call /\ pc = "idle")
    /\ answer[k] # None => /\ executed[k] > 0
                           /\ \E n \in 1..MaxFrag : answer[k] = Response(k, n)

Answers == LoginWire /\ QuietWire /\ CommandWire /\ AnswerWire /\ Answered

\* The connections on which the server may still run the command of event k.
Pending(k) == {c \in Conns : toServer[c] \in {<<Cmd(k)>>, <<Cmd(k), End>>}}

\* The attempts at event k that may have sent its command.
Attempts(k) ==
  IF k > call THEN 0
  ELSE IF answer[k] # None THEN retries[k] + 1
  ELSE IF pc = "send" THEN depth ELSE depth + 1

Runs == \A k \in Events : executed[k] + Cardinality(Pending(k)) <= Attempts(k)

RconInv == Queues /\ Answers /\ Runs

------------------------------------------------------------------------------
(* The packets and the queues they make *)

LEMMA PacketKinds ==
  /\ Login \in Requests /\ End \in Requests /\ \A k \in Events : Cmd(k) \in Requests
  /\ <<"login_ok">> \in Replies /\ <<"login_fail">> \in Replies /\ Unknown \in Replies
  /\ \A k \in Events, n \in 1..MaxFrag : \A i \in 1..n : Part(k, i, n) \in Replies
<1>1. Login \in Requests /\ End \in Requests /\ \A k \in Events : Cmd(k) \in Requests
  BY DEF Requests, Packets, Login, End, Cmd
<1>2. <<"login_ok">> \in Replies /\ <<"login_fail">> \in Replies /\ Unknown \in Replies
  BY DEF Replies, Packets, Unknown
<1>3. \A k \in Events, n \in 1..MaxFrag : \A i \in 1..n : Part(k, i, n) \in Replies
  <2>1. TAKE k \in Events, n \in 1..MaxFrag
  <2>2. TAKE i \in 1..n
  <2>3. Part(k, i, n) \in PartsOf(k, n)
    BY DEF Part, PartsOf
  <2> QED
    BY <2>3 DEF Replies, Packets
<1> QED
  BY <1>1, <1>2, <1>3

LEMMA PacketsDiffer ==
  /\ Login[1] = "login" /\ End[1] = "end" /\ Unknown[1] = "unknown"
  /\ \A k : Cmd(k)[1] = "cmd" /\ Cmd(k)[2] = k
  /\ \A k, i, n : Part(k, i, n)[1] = "part"
BY DEF Login, End, Unknown, Cmd, Part

LEMMA ResponseType ==
  ASSUME NEW k \in Events, NEW n \in 1..MaxFrag
  PROVE  /\ Response(k, n) \in Seq(Replies) /\ Len(Response(k, n)) = n
         /\ \A i \in 1..n : Response(k, n)[i] = Part(k, i, n)
         /\ Response(k, n) # None
<1>1. n \in Nat \ {0} /\ \A i \in 1..n : <<"part", k, i, n>> \in Replies
  BY PacketKinds, RconAssumption DEF Part
<1>2. Response(k, n) \in [1..n -> Replies]
  BY <1>1 DEF Response
<1>3. Response(k, n) \in Seq(Replies) /\ Len(Response(k, n)) = n
  BY <1>1, <1>2
<1> QED
  BY <1>1, <1>2, <1>3 DEF Response, Part, None

LEMMA ShortQueues ==
  ASSUME NEW S, NEW a \in S, NEW b \in S
  PROVE  /\ <<>> \in Seq(S) /\ <<a>> \in Seq(S) /\ <<a, b>> \in Seq(S)
         /\ Append(<<>>, a) = <<a>> /\ Append(<<a>>, b) = <<a, b>>
         /\ Tail(<<a>>) = <<>> /\ Tail(<<a, b>>) = <<b>>
         /\ Head(<<a>>) = a /\ Head(<<a, b>>) = a
         /\ <<a>> # <<>> /\ <<a, b>> # <<>>
<1>1. <<>> \in Seq(S) /\ <<a>> \in Seq(S) /\ <<a, b>> \in Seq(S)
  OBVIOUS
<1>2. Append(<<>>, a) = <<a>> /\ Append(<<a>>, b) = <<a, b>>
  <2>1. Append(<<>>, a) = <<a>>
    OBVIOUS
  <2>2. /\ Append(<<a>>, b) \in Seq(S) /\ Len(Append(<<a>>, b)) = 2
        /\ Append(<<a>>, b)[1] = a /\ Append(<<a>>, b)[2] = b
    OBVIOUS
  <2>3. <<a, b>> \in Seq(S) /\ Len(<<a, b>>) = 2
    OBVIOUS
  <2>4. \A s, t \in Seq(S) : Len(s) = 2 /\ Len(t) = 2 /\ s[1] = t[1] /\ s[2] = t[2] => s = t
    <3> SUFFICES ASSUME NEW s \in Seq(S), NEW t \in Seq(S), Len(s) = 2, Len(t) = 2,
                        s[1] = t[1], s[2] = t[2]
                 PROVE  s = t
      OBVIOUS
    <3>1. \A i \in 1..Len(s) : s[i] = t[i]
      OBVIOUS
    <3> QED
      BY <3>1, SeqEqual
  <2>5. Append(<<a>>, b) = <<a, b>>
    BY <2>2, <2>3, <2>4
  <2> QED
    BY <2>1, <2>5
<1>3. Tail(<<a>>) = <<>> /\ Head(<<a>>) = a /\ Head(<<a, b>>) = a
  OBVIOUS
<1>4. Tail(<<a, b>>) = <<b>>
  <2>1. /\ Len(Tail(<<a, b>>)) = 1 /\ Tail(<<a, b>>)[1] = b
        /\ Tail(<<a, b>>) \in Seq(S)
    OBVIOUS
  <2>2. <<b>> \in Seq(S) /\ Len(<<b>>) = 1 /\ <<b>>[1] = b
    OBVIOUS
  <2> QED
    BY <2>1, <2>2, SeqEqual
<1>5. <<a>> # <<>> /\ <<a, b>> # <<>>
  OBVIOUS
<1> QED
  BY <1>1, <1>2, <1>3, <1>4, <1>5

LEMMA ConcatReplies ==
  ASSUME NEW s \in Seq(Replies), NEW t \in Seq(Replies)
  PROVE  /\ s \o t \in Seq(Replies)
         /\ s = <<>> => s \o t = t
         /\ Len(s \o t) = Len(s) + Len(t)
         /\ \A i \in 1..Len(s) + Len(t) :
               (s \o t)[i] = IF i <= Len(s) THEN s[i] ELSE t[i - Len(s)]
BY ConcatProperties, ConcatEmptySeq, ZenonT(60)

------------------------------------------------------------------------------
(* What the operators the actions share do to the queues *)

\* The three ways the server serves the first packet of connection c.
ServesLogin(c) ==
  /\ toServer[c] = <<Login>> /\ toServer' = [toServer EXCEPT ![c] = <<>>]
  /\ \E kind \in {"login_ok", "login_fail"} : Reply(c, << <<kind>> >>)
  /\ executed' = executed

ServesEnd(c) ==
  /\ toServer[c] = <<End>> /\ toServer' = [toServer EXCEPT ![c] = <<>>]
  /\ Reply(c, <<Unknown>>)
  /\ executed' = executed

ServesCommand(c, k, n) ==
  /\ \/ toServer[c] = <<Cmd(k)>> /\ toServer' = [toServer EXCEPT ![c] = <<>>]
     \/ toServer[c] = <<Cmd(k), End>> /\ toServer' = [toServer EXCEPT ![c] = <<End>>]
  /\ Reply(c, Response(k, n))
  /\ executed' = [executed EXCEPT ![k] = @ + 1]

LEMMA ServeCases ==
  ASSUME Queues, NEW c \in Conns, Serve(c)
  PROVE  /\ UNCHANGED <<clientVars, passwordOK, link>>
         /\ \/ ServesLogin(c) \/ ServesEnd(c)
            \/ \E k \in 1..call, n \in 1..MaxFrag : ServesCommand(c, k, n)
<1> DEFINE p == Head(toServer[c])
<1>1. /\ UNCHANGED <<clientVars, passwordOK, link>>
      /\ toServer[c] # <<>>
      /\ toServer' = [toServer EXCEPT ![c] = Tail(toServer[c])]
      /\ \/ /\ p[1] = "login"
            /\ Reply(c, << <<IF passwordOK THEN "login_ok" ELSE "login_fail">> >>)
            /\ executed' = executed
         \/ p[1] = "end" /\ Reply(c, <<Unknown>>) /\ executed' = executed
         \/ /\ p[1] = "cmd"
            /\ \E n \in 1..MaxFrag : Reply(c, Response(p[2], n))
            /\ executed' = [executed EXCEPT ![p[2]] = @ + 1]
  BY Zenon DEF Serve, Unknown
<1>2. CASE toServer[c] = <<Login>>
  <2>1. p = Login /\ Tail(toServer[c]) = <<>> /\ p[1] = "login"
    BY <1>2, PacketsDiffer
  <2> QED
    BY <1>1, <1>2, <2>1, Zenon DEF ServesLogin
<1>3. CASE toServer[c] = <<End>>
  <2>1. p = End /\ Tail(toServer[c]) = <<>> /\ p[1] = "end"
    BY <1>3, PacketsDiffer
  <2> QED
    BY <1>1, <1>3, <2>1 DEF ServesEnd
<1>4. ASSUME NEW k \in 1..call, toServer[c] \in {<<Cmd(k)>>, <<Cmd(k), End>>}
      PROVE  \E n \in 1..MaxFrag : ServesCommand(c, k, n)
  <2>1. /\ p = Cmd(k) /\ p[1] = "cmd" /\ p[2] = k
        /\ toServer[c] = <<Cmd(k)>> => Tail(toServer[c]) = <<>>
        /\ toServer[c] = <<Cmd(k), End>> => Tail(toServer[c]) = <<End>>
    <3>1. \A a, b : Head(<<a>>) = a /\ Head(<<a, b>>) = a
      OBVIOUS
    <3>2. \A a, b : Tail(<<a>>) = <<>> /\ Tail(<<a, b>>) = <<b>>
      <4>1. TAKE a, b
      <4>2. a \in {a, b} /\ b \in {a, b}
        OBVIOUS
      <4> QED
        BY <4>2, ShortQueues
    <3>3. /\ toServer[c] = <<Cmd(k)>> => p = Cmd(k) /\ Tail(toServer[c]) = <<>>
          /\ toServer[c] = <<Cmd(k), End>> => p = Cmd(k) /\ Tail(toServer[c]) = <<End>>
      BY <3>1, <3>2, Zenon
    <3> QED
      BY <1>4, <3>3, PacketsDiffer
  <2> QED
    BY <1>1, <1>4, <2>1 DEF ServesCommand
<1> QED
  BY <1>1, <1>2, <1>3, <1>4 DEF Queues, Shapes

LEMMA ReplyEffect ==
  ASSUME Types, NEW c \in Conns, NEW ps \in Seq(Replies), Reply(c, ps)
  PROVE  /\ toClient' \in Seq(Seq(Replies)) /\ Len(toClient') = Len(toClient)
         /\ \A d \in Conns :
              toClient'[d] = IF d = c /\ link[c] = "open" THEN toClient[c] \o ps
                             ELSE toClient[d]
<1>1. c \in 1..Len(toClient) /\ toClient[c] \in Seq(Replies)
  BY DEF Types, Conns
<1>2. toClient[c] \o ps \in Seq(Replies)
  BY <1>1, ConcatReplies
<1> QED
  BY <1>1, <1>2, SMTT(30) DEF Reply, Types, Conns

LEMMA PutEffect ==
  ASSUME Types, NEW p \in Requests, Put(p)
  PROVE  /\ sock \in Conns /\ link[sock] \in {"open", "closed"}
         /\ UNCHANGED <<link, toClient>>
         /\ toServer' \in Seq(Seq(Requests)) /\ Len(toServer') = Len(toServer)
         /\ \A d \in Conns :
              toServer'[d] = IF d = sock /\ link[sock] = "open"
                               THEN Append(toServer[sock], p) ELSE toServer[d]
<1>1. sock \in 1..Len(toServer) /\ toServer[sock] \in Seq(Requests)
  BY DEF Types, Put, Usable
<1>2. Append(toServer[sock], p) \in Seq(Requests)
  BY <1>1
<1> QED
  BY <1>1, <1>2 DEF Put, Usable, Types, Conns

LEMMA DropEffect ==
  ASSUME Types, link' = Drop(sock)
  PROVE  /\ link' \in Seq({"open", "dropped", "closed", "reset"})
         /\ Len(link') = Len(link)
         /\ \A d \in Conns : link'[d] = IF d = sock THEN "dropped" ELSE link[d]
<1>1. CASE sock = 0
  BY <1>1 DEF Types, Drop, Conns
<1>2. CASE sock # 0
  <2>1. sock \in 1..Len(link)
    BY <1>2 DEF Types
  <2>2. link' = [link EXCEPT ![sock] = "dropped"]
    BY <1>2 DEF Drop
  <2> QED
    BY <2>1, <2>2 DEF Types, Conns
<1> QED
  BY <1>1, <1>2

------------------------------------------------------------------------------
(* The first layer: the queues *)

LEMMA TypesNext == Queues /\ [Next]_vars => Types'
<1> SUFFICES ASSUME Queues, [Next]_vars PROVE Types'
  OBVIOUS
<1>0. Types
  BY DEF Queues
<1> USE RconAssumption
<1>1. CASE Connect
  <2>1. /\ link' = Append(link, "open") /\ toServer' = Append(toServer, <<Login>>)
        /\ toClient' = Append(toClient, <<>>)
        /\ sock' = Len(link') /\ pc' = "login"
        /\ UNCHANGED <<call, depth, timer, result, answer, retries, passwordOK, executed>>
    BY <1>1 DEF Connect, Login
  <2>2. <<Login>> \in Seq(Requests) /\ <<>> \in Seq(Replies)
    BY PacketKinds
  <2>3. link' \in Seq({"open", "dropped", "closed", "reset"}) /\ Len(link') = Len(link) + 1
    BY <1>0, <2>1 DEF Types
  <2>4. toServer' \in Seq(Seq(Requests)) /\ Len(toServer') = Len(toServer) + 1
    BY <1>0, <2>1, <2>2, AppendProperties, Zenon DEF Types
  <2>5. toClient' \in Seq(Seq(Replies)) /\ Len(toClient') = Len(toClient) + 1
    BY <1>0, <2>1, <2>2, AppendProperties, Zenon DEF Types
  <2> QED
    BY <1>0, <2>1, <2>3, <2>4, <2>5 DEF Types
<1>2. CASE LoggedIn
  <2>1. sock \in 1..Len(toClient) /\ toClient[sock] # <<>>
    BY <1>0, <1>2 DEF LoggedIn, Ready, Queues, Sockets, Types
  <2>2. Tail(toClient[sock]) \in Seq(Replies)
    BY <1>0, <2>1 DEF Types
  <2>3. toClient' \in Seq(Seq(Replies)) /\ Len(toClient') = Len(toClient)
    BY <1>0, <1>2, <2>1, <2>2 DEF Types, LoggedIn
  <2> QED
    BY <1>0, <1>2, <2>3 DEF Types, LoggedIn
<1>3. CASE NotLoggedIn \/ Fail
  <2>1. /\ link' \in Seq({"open", "dropped", "closed", "reset"}) /\ Len(link') = Len(link)
    BY <1>0, <1>3, DropEffect, Zenon DEF NotLoggedIn, Fail
  <2>2. /\ timer' \in BOOLEAN /\ pc' \in {"idle", "connect"} /\ sock' = 0
        /\ UNCHANGED <<call, depth, result, answer, retries, toServer, toClient, executed>>
    BY <1>0, <1>3 DEF NotLoggedIn, Fail, Types
  <2> QED
    BY <1>0, <2>1, <2>2 DEF Types
<1>4. CASE SendCommand \/ SendEnding
  <2>1. call \in Events /\ Cmd(call) \in Requests /\ End \in Requests
    <3>1. call # 0
      BY <1>4 DEF SendCommand, SendEnding, Queues, Sockets, Attempting
    <3> QED
      BY <1>0, <3>1, PacketKinds DEF Types, Events
  <2>2. Put(Cmd(call)) \/ Put(End)
    BY <1>4 DEF SendCommand, SendEnding, Cmd, End
  <2>3. /\ UNCHANGED <<link, toClient>>
        /\ toServer' \in Seq(Seq(Requests)) /\ Len(toServer') = Len(toServer)
    BY <1>0, <2>1, <2>2, PutEffect, Zenon
  <2>4. /\ pc' \in {"sleep", "sleep2"} /\ result' \in Seq(Replies)
        /\ UNCHANGED <<call, depth, timer, sock, answer, retries, executed>>
    <3>1. <<>> \in Seq(Replies)
      OBVIOUS
    <3> QED
      BY <1>0, <1>4, <3>1 DEF SendCommand, SendEnding, Types
  <2> QED
    BY <1>0, <2>3, <2>4 DEF Types
<1>5. CASE Receive
  <2>1. sock \in 1..Len(toClient) /\ toClient[sock] # <<>> /\ call \in Events
    BY <1>0, <1>5 DEF Receive, Queues, Sockets, Types, Attempting, Events
  <2>2. Head(toClient[sock]) \in Replies /\ Tail(toClient[sock]) \in Seq(Replies)
    BY <1>0, <2>1 DEF Types
  <2>3. toClient' \in Seq(Seq(Replies)) /\ Len(toClient') = Len(toClient)
    BY <1>0, <1>5, <2>1, <2>2 DEF Types, Receive
  <2>4. /\ UNCHANGED <<call, depth, sock, link, toServer, executed>>
        /\ \/ /\ pc' = "idle" /\ timer' = FALSE
              /\ answer' = [answer EXCEPT ![call] = result]
              /\ retries' = [retries EXCEPT ![call] = depth]
              /\ result' = result
           \/ /\ result' = Append(result, Head(toClient[sock]))
              /\ UNCHANGED <<pc, timer, answer, retries>>
    BY <1>5 DEF Receive
  <2>5. /\ result' \in Seq(Replies) /\ answer' \in [Events -> Seq(Replies)]
        /\ retries' \in [Events -> 0..MaxRetry]
    <3>1. result' = result \/ result' = Append(result, Head(toClient[sock]))
      BY <2>4
    <3>2. result' \in Seq(Replies)
      <4>1. result \in Seq(Replies)
        BY <1>0 DEF Types
      <4>2. Append(result, Head(toClient[sock])) \in Seq(Replies)
        BY <2>2, <4>1, AppendProperties, Zenon
      <4> QED
        BY <3>1, <4>1, <4>2, Zenon
    <3>3. answer' = answer \/ answer' = [answer EXCEPT ![call] = result]
      BY <2>4
    <3>4. answer' \in [Events -> Seq(Replies)]
      BY <1>0, <2>1, <3>3 DEF Types
    <3>5. retries' = retries \/ retries' = [retries EXCEPT ![call] = depth]
      BY <2>4
    <3>6. retries' \in [Events -> 0..MaxRetry]
      BY <1>0, <2>1, <3>5 DEF Types
    <3> QED
      BY <3>2, <3>4, <3>6
  <2>6. timer' \in BOOLEAN
    BY <1>0, <2>4 DEF Types
  <2> QED
    BY <1>0, <2>3, <2>4, <2>5, <2>6 DEF Types
<1>6. CASE Wake \/ ConnectFails \/ LoginFails \/ Hang \/ Event
  <2>1. /\ UNCHANGED <<sock, result, answer, retries, link, toServer, toClient, executed>>
        /\ timer' = timer \/ timer' = TRUE
        /\ (call' = call /\ depth' = depth) \/ (call < Calls /\ call' = call + 1 /\ depth' = 0)
        /\ pc' \in {"recv", "dead", "hung", "send"}
    BY <1>6, Zenon DEF Wake, ConnectFails, LoginFails, Hang, Event, Die, netVars
  <2>2. call' \in 0..Calls /\ depth' \in 0..MaxRetry
    BY <1>0, <2>1 DEF Types
  <2> QED
    BY <1>0, <2>1, <2>2 DEF Types
<1>7. ASSUME NEW c \in Conns, Serve(c) PROVE Types'
  <2>1. /\ UNCHANGED <<pc, call, depth, timer, sock, result, answer, retries, link>>
        /\ \/ ServesLogin(c) \/ ServesEnd(c)
           \/ \E k \in 1..call, n \in 1..MaxFrag : ServesCommand(c, k, n)
    BY <1>7, ServeCases DEF clientVars
  <2>2. /\ toServer' \in Seq(Seq(Requests)) /\ Len(toServer') = Len(toServer)
    <3>1. <<>> \in Seq(Requests) /\ <<End>> \in Seq(Requests)
      BY PacketKinds
    <3>2. toServer' = [toServer EXCEPT ![c] = <<>>] \/ toServer' = [toServer EXCEPT ![c] = <<End>>]
      BY <2>1, Zenon DEF ServesLogin, ServesEnd, ServesCommand
    <3>3. toServer \in Seq(Seq(Requests)) /\ c \in 1..Len(toServer)
      BY <1>0 DEF Types, Conns
    <3>4. PICK e \in Seq(Requests) : toServer' = [toServer EXCEPT ![c] = e]
      BY <3>1, <3>2, Zenon
    <3>5. /\ [toServer EXCEPT ![c] = e] \in Seq(Seq(Requests))
          /\ Len([toServer EXCEPT ![c] = e]) = Len(toServer)
      BY <3>3, ExceptSeq
    <3> QED
      BY <3>4, <3>5, Zenon
  <2>3. /\ toClient' \in Seq(Seq(Replies)) /\ Len(toClient') = Len(toClient)
        /\ executed' \in [Events -> Nat]
    <3>1. \A q \in Replies : <<q>> \in Seq(Replies)
      BY ShortQueues, Zenon
    <3>2. CASE ServesLogin(c) \/ ServesEnd(c)
      <4>1. /\ executed' = executed
            /\ \E q \in Replies : Reply(c, <<q>>)
        BY <3>2, PacketKinds DEF ServesLogin, ServesEnd
      <4> QED
        BY <1>0, <3>1, <4>1, ReplyEffect DEF Types
    <3>3. ASSUME NEW k \in 1..call, NEW n \in 1..MaxFrag, ServesCommand(c, k, n)
          PROVE  /\ toClient' \in Seq(Seq(Replies)) /\ Len(toClient') = Len(toClient)
                 /\ executed' \in [Events -> Nat]
      <4>1. k \in Events
        BY <1>0 DEF Types, Events
      <4>2. Response(k, n) \in Seq(Replies)
        BY <4>1, ResponseType
      <4>3. executed' \in [Events -> Nat]
        BY <1>0, <3>3, <4>1, SMTT(30) DEF ServesCommand, Types
      <4> QED
        BY <1>0, <3>3, <4>2, <4>3, ReplyEffect, Zenon DEF ServesCommand
    <3> QED
      BY <2>1, <3>2, <3>3
  <2> QED
    BY <1>0, <2>1, <2>2, <2>3 DEF Types
<1>8. ASSUME NEW c \in Conns, CutOff(c) PROVE Types'
  <2>1. PICK how \in {"closed", "reset"} : link' = [link EXCEPT ![c] = how]
    BY <1>8 DEF CutOff
  <2>2. /\ UNCHANGED <<pc, call, depth, timer, sock, result, answer, retries, toClient, executed>>
        /\ toServer' = [toServer EXCEPT ![c] = <<>>]
    BY <1>8 DEF CutOff, clientVars
  <2>3. <<>> \in Seq(Requests)
    OBVIOUS
  <2> QED
    BY <1>0, <2>1, <2>2, <2>3 DEF Types, Conns
<1>9. CASE UNCHANGED vars
  BY <1>0, <1>9 DEF vars, Types
<1> QED
  BY <1>1, <1>2, <1>3, <1>4, <1>5, <1>6, <1>7, <1>8, <1>9 DEF Next, ClientStep

LEMMA SocketsNext == Queues /\ [Next]_vars => Sockets'
<1> SUFFICES ASSUME Queues, [Next]_vars PROVE Sockets'
  OBVIOUS
<1>0. Types /\ Sockets
  BY DEF Queues
<1> USE DEF Sockets, Conns, Attempting
<1>1. CASE Connect
  <2>1. /\ link' = Append(link, "open") /\ Len(link') = Len(link) + 1
        /\ link'[Len(link) + 1] = "open" /\ \A c \in Conns : link'[c] = link[c]
        /\ sock = 0 /\ sock' = Len(link') /\ pc' = "login" /\ call' = call
        /\ Len(link) \in Nat
    BY <1>0, <1>1 DEF Connect, Types
  <2> QED
    BY <1>0, <2>1
<1>2. CASE LoggedIn
  BY <1>0, <1>2 DEF LoggedIn
<1>3. CASE NotLoggedIn \/ Fail
  <2>1. /\ Len(link') = Len(link)
        /\ \A d \in Conns : link'[d] = IF d = sock THEN "dropped" ELSE link[d]
    BY <1>0, <1>3, DropEffect, Zenon DEF NotLoggedIn, Fail
  <2>2. pc' \in {"idle", "connect"} /\ sock' = 0
    BY <1>3 DEF NotLoggedIn, Fail
  <2> QED
    BY <1>0, <2>1, <2>2
<1>4. CASE SendCommand \/ SendEnding
  <2>1. sock # 0 /\ UNCHANGED <<link, sock, call>>
    BY <1>4 DEF SendCommand, SendEnding, Put, Usable
  <2>2. pc \in {"send", "sleep"} /\ pc' \in {"sleep", "sleep2"}
    BY <1>4 DEF SendCommand, SendEnding
  <2> QED
    BY <1>0, <2>1, <2>2
<1>5. CASE Receive
  <2>1. pc = "recv" /\ pc' \in {"idle", "recv"} /\ UNCHANGED <<link, sock, call>>
    BY <1>5 DEF Receive
  <2> QED
    BY <1>0, <2>1
<1>6. CASE Wake \/ ConnectFails \/ LoginFails \/ Hang \/ Event
  <2>1. /\ UNCHANGED <<sock, link>>
        /\ \/ pc = "sleep2" /\ pc' = "recv" /\ call' = call
           \/ pc' \in {"dead", "hung"} /\ call' = call
           \/ pc' = "send" /\ call' = call + 1
    BY <1>6, Zenon DEF Wake, ConnectFails, LoginFails, Hang, Event, Die, netVars
  <2> QED
    BY <1>0, <2>1 DEF Types
<1>7. ASSUME NEW c \in Conns, Serve(c) PROVE Sockets'
  <2>1. UNCHANGED <<pc, call, sock, link>>
    BY <1>7 DEF Serve, clientVars
  <2> QED
    BY <1>0, <2>1
<1>8. ASSUME NEW c \in Conns, CutOff(c) PROVE Sockets'
  <2>1. PICK how \in {"closed", "reset"} : link' = [link EXCEPT ![c] = how]
    BY <1>8 DEF CutOff
  <2>2. UNCHANGED <<pc, call, sock>> /\ link[c] = "open"
    BY <1>8 DEF CutOff, clientVars
  <2>3. Len(link') = Len(link) /\ \A d \in Conns : link'[d] = IF d = c THEN how ELSE link[d]
    BY <1>0, <2>1 DEF Types
  <2> QED
    BY <1>0, <2>2, <2>3
<1>9. CASE UNCHANGED vars
  BY <1>0, <1>9 DEF vars
<1> QED
  BY <1>1, <1>2, <1>3, <1>4, <1>5, <1>6, <1>7, <1>8, <1>9 DEF Next, ClientStep

\* Each event adds at most one connection per attempt to the budget.
LEMMA BudgetSteps ==
  \A k \in Nat \ {0} :
    /\ (k - 1) * (MaxRetry + 1) \in Nat
    /\ ((k + 1) - 1) * (MaxRetry + 1) = (k - 1) * (MaxRetry + 1) + MaxRetry + 1
    /\ k <= Calls => (k - 1) * (MaxRetry + 1) + MaxRetry + 2 <= MaxConns
<1> SUFFICES ASSUME NEW k \in Nat \ {0}
             PROVE  /\ (k - 1) * (MaxRetry + 1) \in Nat
                    /\ ((k + 1) - 1) * (MaxRetry + 1) = (k - 1) * (MaxRetry + 1) + MaxRetry + 1
                    /\ k <= Calls => (k - 1) * (MaxRetry + 1) + MaxRetry + 2 <= MaxConns
  OBVIOUS
<1>1. PICK r \in Nat \ {0} : r = MaxRetry + 1
  BY RconAssumption
<1>2. PICK j \in Nat : j = k - 1
  OBVIOUS
<1>3. j * r \in Nat /\ (j + 1) * r = j * r + r
  OBVIOUS
<1>4. \A a, b \in Nat : a <= b => a * r <= b * r
  <2>1. TAKE a, b \in Nat
  <2>2. HAVE a <= b
  <2>3. PICK d \in Nat : b = a + d
    BY <2>2
  <2>4. (a + d) * r = a * r + d * r /\ d * r \in Nat /\ a * r \in Nat
    OBVIOUS
  <2> QED
    BY <2>3, <2>4
<1>5. k <= Calls => (j + 1) * r <= Calls * r
  BY <1>2, <1>4, RconAssumption
<1>6. Calls * r \in Nat /\ MaxConns = 1 + Calls * r
  BY <1>1, RconAssumption DEF MaxConns
<1>7. (k - 1) * (MaxRetry + 1) = j * r /\ ((k + 1) - 1) * (MaxRetry + 1) = (j + 1) * r
  BY <1>1, <1>2, RconAssumption
<1> QED
  BY <1>1, <1>3, <1>5, <1>6, <1>7, RconAssumption

LEMMA BudgetNext == Queues /\ [Next]_vars => Budget'
<1> SUFFICES ASSUME Queues, [Next]_vars PROVE Budget'
  OBVIOUS
<1> USE RconAssumption
<1>0. /\ Budget /\ call \in 0..Calls /\ depth \in 0..MaxRetry /\ Len(link) \in Nat
      /\ call = 0 => pc \notin Attempting
  BY DEF Queues, Types, Sockets
<1>1. ASSUME Len(link') = Len(link), call' = call, depth' = depth,
             \/ pc = "login" /\ pc' = "dead"
             \/ call = 0 /\ pc = "login" /\ pc' = "idle"
             \/ pc = "connect" /\ pc' = "dead"
             \/ call # 0 /\ pc \in Attempting /\ pc' \in Attempting \cup {"idle", "connect"}
             \/ pc \in {"login", "recv"} /\ pc' = "hung"
             \/ pc' = pc
      PROVE  Budget'
  <2>1. call # 0 => (call - 1) * (MaxRetry + 1) \in Nat
    BY <1>0, BudgetSteps
  <2>2. CASE call = 0
    BY <1>0, <1>1, <2>2 DEF Budget, Attempting
  <2>3. CASE call # 0
    <3> DEFINE b == (call - 1) * (MaxRetry + 1)
    <3>1. b \in Nat /\ Len(link) <= 1 + b + depth + IF pc \in {"login", "hung", "dead"} THEN 1 ELSE 0
      BY <1>0, <2>1, <2>3 DEF Budget
    <3>2. Len(link) <= 1 + b + depth + IF pc' \in {"login", "hung", "dead"} THEN 1 ELSE 0
      <4> HIDE DEF b
      <4> QED
        BY <1>0, <1>1, <2>3, <3>1 DEF Attempting
    <3> QED
      BY <1>1, <2>3, <3>2 DEF Budget
  <2> QED
    BY <2>2, <2>3
<1>2. CASE Connect
  <2>1. Len(link') = Len(link) + 1 /\ pc = "connect" /\ pc' = "login"
        /\ call' = call /\ depth' = depth
    BY <1>2 DEF Connect, Queues, Types
  <2>2. CASE call = 0
    BY <1>0, <2>1, <2>2 DEF Budget
  <2>3. CASE call # 0
    <3> DEFINE b == (call - 1) * (MaxRetry + 1)
    <3>1. b \in Nat /\ Len(link) <= 1 + b + depth + 0
      BY <1>0, <2>1, <2>3, BudgetSteps DEF Budget
    <3>2. Len(link') <= 1 + b + depth + 1
      <4> HIDE DEF b
      <4> QED
        BY <1>0, <2>1, <3>1
    <3> QED
      BY <2>1, <2>3, <3>2 DEF Budget
  <2> QED
    BY <2>2, <2>3
<1>3. CASE LoggedIn
  <2>1. /\ pc = "login" /\ Len(link') = Len(link) /\ call' = call
        /\ \/ call # 0 /\ pc' = "send" /\ depth' = depth + 1
           \/ pc' = "dead" /\ depth' = depth
           \/ call = 0 /\ pc' = "idle" /\ depth' = depth
    <3>1. /\ pc = "login" /\ link' = link /\ call' = call
          /\ pc' = IF call = 0 THEN "idle" ELSE IF depth < MaxRetry THEN "send" ELSE "dead"
          /\ depth' = IF call > 0 /\ depth < MaxRetry THEN depth + 1 ELSE depth
      BY <1>3 DEF LoggedIn
    <3>2. call > 0 <=> call # 0
      BY <1>0
    <3>3. CASE call = 0
      BY <3>1, <3>2, <3>3
    <3>4. CASE call # 0 /\ depth < MaxRetry
      BY <3>1, <3>2, <3>4
    <3>5. CASE call # 0 /\ ~(depth < MaxRetry)
      BY <3>1, <3>2, <3>5
    <3> QED
      BY <3>3, <3>4, <3>5
  <2>2. CASE depth' = depth /\ (pc' = "dead" \/ (call = 0 /\ pc' = "idle"))
    BY <1>1, <2>1, <2>2
  <2>3. CASE call # 0 /\ pc' = "send" /\ depth' = depth + 1
    <3> DEFINE b == (call - 1) * (MaxRetry + 1)
    <3>1. b \in Nat /\ Len(link) <= 1 + b + depth + 1
      BY <1>0, <2>1, <2>3, BudgetSteps DEF Budget
    <3>2. Len(link') <= 1 + b + (depth + 1) + 0
      <4> HIDE DEF b
      <4> QED
        BY <1>0, <2>1, <3>1
    <3> QED
      BY <2>1, <2>3, <3>2 DEF Budget
  <2> QED
    BY <2>1, <2>2, <2>3
<1>4. CASE Event
  <2>1. /\ pc = "idle" /\ pc' = "send" /\ Len(link') = Len(link)
        /\ call' = call + 1 /\ depth' = 0
    BY <1>4 DEF Event, netVars
  <2>2. Len(link) <= 1 + ((call + 1) - 1) * (MaxRetry + 1) + 0 + 0
    <3>1. CASE call = 0
      <4>1. Len(link) <= 1 /\ ((call + 1) - 1) * (MaxRetry + 1) \in Nat
        BY <1>0, <2>1, <3>1, BudgetSteps DEF Budget
      <4> QED
        BY <1>0, <4>1
    <3>2. CASE call # 0
      <4> DEFINE b == (call - 1) * (MaxRetry + 1)
      <4>1. b \in Nat /\ Len(link) <= 1 + b + depth + 0
        BY <1>0, <2>1, <3>2, BudgetSteps DEF Budget
      <4>2. ((call + 1) - 1) * (MaxRetry + 1) = b + MaxRetry + 1
        BY <1>0, <3>2, BudgetSteps
      <4> HIDE DEF b
      <4> QED
        BY <1>0, <4>1, <4>2
    <3> QED
      BY <3>1, <3>2
  <2> QED
    BY <1>0, <2>1, <2>2 DEF Budget
<1>5. CASE NotLoggedIn \/ Fail
  <2>1. Len(link') = Len(link)
    BY <1>5, DropEffect, Zenon DEF NotLoggedIn, Fail, Queues
  <2>2. /\ call' = call /\ depth' = depth
        /\ \/ call = 0 /\ pc = "login" /\ pc' = "idle"
           \/ pc \in Attempting /\ pc' = "connect"
    BY <1>5 DEF NotLoggedIn, Fail, Attempting
  <2> QED
    BY <1>0, <1>1, <2>1, <2>2
<1>6. CASE SendCommand \/ SendEnding \/ Receive \/ Wake
  <2>1. Len(link') = Len(link)
    BY <1>6 DEF SendCommand, SendEnding, Receive, Wake, Put, netVars
  <2>2. /\ call' = call /\ depth' = depth /\ pc \in Attempting
        /\ pc' \in Attempting \cup {"idle"}
    BY <1>6 DEF SendCommand, SendEnding, Receive, Wake, Attempting
  <2> QED
    BY <1>0, <1>1, <2>1, <2>2
<1>7. CASE ConnectFails \/ LoginFails \/ Hang
  <2>1. /\ Len(link') = Len(link) /\ call' = call /\ depth' = depth
        /\ \/ pc \in {"connect", "login"} /\ pc' = "dead"
           \/ pc \in {"login", "recv"} /\ pc' = "hung"
    BY <1>7, Zenon DEF ConnectFails, LoginFails, Hang, Die, netVars
  <2> QED
    BY <1>1, <2>1
<1>8. ASSUME NEW c \in Conns, Serve(c) \/ CutOff(c) PROVE Budget'
  <2>1. UNCHANGED <<pc, call, depth>> /\ Len(link') = Len(link)
    BY <1>8 DEF Serve, CutOff, clientVars, Queues, Types
  <2> QED
    BY <1>1, <2>1
<1>9. CASE UNCHANGED vars
  BY <1>1, <1>9 DEF vars
<1> QED
  BY <1>2, <1>3, <1>4, <1>5, <1>6, <1>7, <1>8, <1>9 DEF Next, ClientStep

LEMMA ShapesNext == Queues /\ Answers /\ [Next]_vars => Shapes'
<1> SUFFICES ASSUME Queues, Answers, [Next]_vars PROVE Shapes'
  OBVIOUS
<1>0. Types /\ Sockets /\ Shapes
  BY DEF Queues
<1>1. CASE Connect
  <2>1. <<Login>> \in Seq(Requests) /\ toServer' = Append(toServer, <<Login>>)
    BY <1>1, PacketKinds DEF Connect, Login
  <2>2. /\ Len(link') = Len(link) + 1 /\ Len(link) = Len(toServer) /\ call' = call
        /\ Len(link) \in Nat
    BY <1>0, <1>1 DEF Connect, Types
  <2>3. toServer'[Len(link) + 1] = <<Login>> /\ \A c \in Conns : toServer'[c] = toServer[c]
    BY <1>0, <2>1, <2>2, AppendProperties DEF Types, Conns
  <2>4. \A c \in 1..Len(link') : c \in Conns \/ c = Len(link) + 1
    BY <2>2 DEF Conns
  <2>5. \A c \in 1..Len(link') : toServer'[c] = <<Login>> \/ (c \in Conns /\ toServer'[c] = toServer[c])
    BY <2>3, <2>4
  <2> QED
    BY <1>0, <2>2, <2>5 DEF Shapes, Conns
<1>2. ASSUME UNCHANGED toServer, Len(link') = Len(link), call' \in {call, call + 1}
      PROVE  Shapes'
  BY <1>0, <1>2 DEF Shapes, Conns, Types
<1>3. CASE NotLoggedIn \/ Fail
  <2>1. Len(link') = Len(link)
    BY <1>0, <1>3, DropEffect, Zenon DEF NotLoggedIn, Fail
  <2>2. UNCHANGED toServer /\ call' = call
    BY <1>3 DEF NotLoggedIn, Fail
  <2> QED
    BY <1>2, <2>1, <2>2
<1>4. CASE SendCommand
  <2>1. /\ sock \in Conns /\ toServer[sock] = <<>> /\ call \in Events
        /\ call \in 1..call
    BY <1>0, <1>4 DEF SendCommand, Put, Usable, Answers, QuietWire, Types, Sockets,
                      Attempting, Conns, Events
  <2>2. Cmd(call) \in Requests /\ Append(<<>>, Cmd(call)) = <<Cmd(call)>>
    BY <2>1, PacketKinds, ShortQueues
  <2>3. /\ call' = call /\ link' = link
        /\ \A d \in Conns : toServer'[d] = toServer[d] \/ toServer'[d] = <<Cmd(call)>>
    BY <1>0, <1>4, <2>1, <2>2, PutEffect DEF SendCommand, Cmd
  <2> QED
    BY <1>0, <2>1, <2>3 DEF Shapes, Conns
<1>5. CASE SendEnding
  <2>1. /\ sock \in Conns /\ call \in Events /\ call \in 1..call
        /\ toServer[sock] \in {<<>>, <<Cmd(call)>>}
    <3>1. pc = "sleep"
      BY <1>5 DEF SendEnding
    <3>2. sock \in Conns /\ call \in Events /\ call \in 1..call
      BY <1>0, <3>1 DEF Types, Sockets, Attempting, Conns, Events
    <3> QED
      BY <3>1, <3>2 DEF Answers, CommandWire, Cut
  <2>2. /\ End \in Requests /\ Append(<<>>, End) = <<End>>
        /\ Append(<<Cmd(call)>>, End) = <<Cmd(call), End>>
    BY <2>1, PacketKinds, ShortQueues, ZenonT(60)
  <2>3. /\ call' = call /\ link' = link
        /\ \A d \in Conns : toServer'[d] \in {toServer[d], <<End>>, <<Cmd(call), End>>}
    BY <1>0, <1>5, <2>1, <2>2, PutEffect DEF SendEnding, End
  <2> QED
    BY <1>0, <2>1, <2>3 DEF Shapes, Conns
<1>7. CASE LoggedIn \/ Receive \/ Wake \/ ConnectFails \/ LoginFails \/ Hang \/ Event
  <2>1. UNCHANGED <<toServer, link>> /\ call' \in {call, call + 1}
    BY <1>7 DEF LoggedIn, Receive, Wake, ConnectFails, LoginFails, Hang, Event, Die, netVars
  <2> QED
    BY <1>2, <2>1
<1>8. ASSUME NEW c \in Conns, CutOff(c) PROVE Shapes'
  <2>1. Len(link') = Len(link) /\ call' = call
        /\ \A d \in Conns : toServer'[d] = IF d = c THEN <<>> ELSE toServer[d]
    BY <1>0, <1>8 DEF CutOff, clientVars, Types, Conns
  <2> QED
    BY <1>0, <2>1 DEF Shapes, Conns
<1>9. ASSUME NEW c \in Conns, Serve(c) PROVE Shapes'
  <2>1. Len(link') = Len(link) /\ call' = call
        /\ \/ ServesLogin(c) \/ ServesEnd(c)
           \/ \E k \in 1..call, n \in 1..MaxFrag : ServesCommand(c, k, n)
    BY <1>9, ServeCases DEF clientVars
  <2>2. PICK q \in {<<>>, <<End>>} : toServer' = [toServer EXCEPT ![c] = q]
    BY <2>1, Zenon DEF ServesLogin, ServesEnd, ServesCommand
  <2>3. \A d \in Conns : toServer'[d] = IF d = c THEN q ELSE toServer[d]
    BY <1>0, <2>2, SMTT(30) DEF Types, Conns
  <2> QED
    BY <1>0, <2>1, <2>3 DEF Shapes, Conns
<1>10. CASE UNCHANGED vars
  BY <1>2, <1>10 DEF vars
<1> QED
  BY <1>1, <1>3, <1>4, <1>5, <1>7, <1>8, <1>9, <1>10 DEF Next, ClientStep

LEMMA LostNext == Queues /\ [Next]_vars => Lost'
<1> SUFFICES ASSUME Queues, [Next]_vars PROVE Lost'
  OBVIOUS
<1>0. Types /\ Sockets /\ Lost
  BY DEF Queues
<1>1. CASE Connect
  <2>1. /\ Len(link') = Len(link) + 1 /\ Len(link) = Len(toServer) /\ Len(link) \in Nat
        /\ link'[Len(link) + 1] = "open" /\ \A c \in Conns : link'[c] = link[c]
    BY <1>0, <1>1 DEF Connect, Types, Conns
  <2>2. <<Login>> \in Seq(Requests) /\ toServer' = Append(toServer, <<Login>>)
    BY <1>1, PacketKinds DEF Connect, Login
  <2>3. \A c \in Conns : toServer'[c] = toServer[c]
    BY <1>0, <2>1, <2>2, AppendProperties DEF Types, Conns
  <2>4. \A c \in 1..Len(link') : c \in Conns \/ c = Len(link) + 1
    BY <2>1 DEF Conns
  <2>5. \A c \in 1..Len(link') :
          link'[c] = "open" \/ (c \in Conns /\ link'[c] = link[c] /\ toServer'[c] = toServer[c])
    BY <2>1, <2>3, <2>4
  <2> QED
    BY <1>0, <2>5 DEF Lost, Conns
<1>3. CASE NotLoggedIn \/ Fail
  <2>1. /\ Len(link') = Len(link)
        /\ \A d \in Conns : link'[d] = IF d = sock THEN "dropped" ELSE link[d]
    BY <1>0, <1>3, DropEffect, Zenon DEF NotLoggedIn, Fail
  <2>2. UNCHANGED toServer
    BY <1>3 DEF NotLoggedIn, Fail
  <2> QED
    BY <1>0, <2>1, <2>2 DEF Lost, Conns
<1>4. CASE SendCommand \/ SendEnding
  <2>1. call \in Events
    BY <1>0, <1>4 DEF SendCommand, SendEnding, Types, Sockets, Attempting, Events
  <2>2. PICK p \in Requests : Put(p)
    BY <1>4, <2>1, PacketKinds DEF SendCommand, SendEnding, Cmd, End
  <2>3. /\ link' = link
        /\ \A d \in Conns : toServer'[d] = toServer[d] \/ link[d] = "open"
    BY <1>0, <2>2, PutEffect
  <2> QED
    BY <1>0, <2>3 DEF Lost, Conns
<1>5. CASE LoggedIn \/ Receive \/ Wake \/ ConnectFails \/ LoginFails \/ Hang \/ Event
  <2>1. UNCHANGED <<toServer, link>>
    BY <1>5 DEF LoggedIn, Receive, Wake, ConnectFails, LoginFails, Hang, Event, Die, netVars
  <2> QED
    BY <1>0, <2>1 DEF Lost, Conns
<1>6. ASSUME NEW c \in Conns, CutOff(c) PROVE Lost'
  <2>1. PICK how \in {"closed", "reset"} : link' = [link EXCEPT ![c] = how]
    BY <1>6 DEF CutOff
  <2>2. /\ Len(link') = Len(link)
        /\ \A d \in Conns : /\ link'[d] = IF d = c THEN how ELSE link[d]
                            /\ toServer'[d] = IF d = c THEN <<>> ELSE toServer[d]
    BY <1>0, <1>6, <2>1, SMTT(30) DEF CutOff, Types, Conns
  <2> QED
    BY <1>0, <2>2 DEF Lost, Conns
<1>7. ASSUME NEW c \in Conns, Serve(c) PROVE Lost'
  <2>1. /\ link' = link /\ toServer[c] # <<>>
        /\ \A d \in Conns : d # c => toServer'[d] = toServer[d]
    BY <1>0, <1>7 DEF Serve, Types, Conns
  <2> QED
    BY <1>0, <2>1 DEF Lost, Conns
<1>8. CASE UNCHANGED vars
  BY <1>0, <1>8 DEF vars, Lost, Conns
<1> QED
  BY <1>1, <1>3, <1>4, <1>5, <1>6, <1>7, <1>8 DEF Next, ClientStep

------------------------------------------------------------------------------
(* The parts of a response on their way *)

LEMMA StreamStart ==
  ASSUME NEW k \in Events, NEW n \in 1..MaxFrag
  PROVE  Stream(<<>>, Response(k, n), k, n, 0)
<1>1. /\ n \in Nat /\ Len(<<>>) = 0 /\ Len(Response(k, n)) = n
      /\ \A i \in 1..n : Response(k, n)[i] = Part(k, i, n)
  BY ResponseType, RconAssumption
<1> QED
  BY <1>1 DEF Stream

LEMMA StreamEnd ==
  ASSUME NEW read \in Seq(Replies), NEW rest \in Seq(Replies), NEW k \in Events,
         NEW n \in 1..MaxFrag, Stream(read, rest, k, n, 0)
  PROVE  Stream(read, rest \o <<Unknown>>, k, n, 1)
<1>1. <<Unknown>> \in Seq(Replies) /\ Len(<<Unknown>>) = 1 /\ <<Unknown>>[1] = Unknown
  BY PacketKinds
<1> DEFINE longer == rest \o <<Unknown>>
<1>2. /\ Len(longer) = Len(rest) + 1
      /\ \A i \in 1..Len(rest) + 1 :
           longer[i] = IF i <= Len(rest) THEN rest[i] ELSE <<Unknown>>[i - Len(rest)]
  BY <1>1, ConcatReplies
<1>3. n \in Nat /\ Len(read) \in Nat /\ Len(rest) \in Nat
  BY RconAssumption
<1>4. /\ Len(read) <= n /\ Len(read) + Len(rest) = n
      /\ \A i \in 1..Len(read) : read[i] = Part(k, i, n)
      /\ \A i \in 1..Len(rest) : rest[i] = Part(k, Len(read) + i, n)
  BY <1>3 DEF Stream
<1>5. \A i \in 1..Len(longer) :
        longer[i] = IF Len(read) + i <= n THEN Part(k, Len(read) + i, n) ELSE Unknown
  <2>1. TAKE i \in 1..Len(longer)
  <2>2. CASE i <= Len(rest)
    BY <1>2, <1>3, <1>4, <2>2
  <2>3. CASE i = Len(rest) + 1
    <3>1. ~(Len(read) + i <= n) /\ i - Len(rest) = 1 /\ ~(i <= Len(rest))
      BY <1>3, <1>4, <2>3
    <3> QED
      BY <1>1, <1>2, <1>3, <2>3, <3>1
  <2> QED
    BY <1>2, <1>3, <2>2, <2>3
<1> HIDE DEF longer
<1>6. Stream(read, longer, k, n, 1)
  BY <1>2, <1>3, <1>4, <1>5 DEF Stream
<1> QED
  BY <1>6 DEF longer

LEMMA StreamRead ==
  ASSUME NEW read \in Seq(Replies), NEW rest \in Seq(Replies), NEW k \in Events,
         NEW n \in 1..MaxFrag, NEW e \in {0, 1}, Stream(read, rest, k, n, e), rest # <<>>,
         Head(rest)[1] # "unknown"
  PROVE  Stream(Append(read, Head(rest)), Tail(rest), k, n, e)
<1>1. /\ n \in Nat /\ Len(read) \in Nat /\ Len(rest) \in Nat \ {0}
      /\ Head(rest) = rest[1] /\ Head(rest) \in Replies
      /\ Len(Tail(rest)) = Len(rest) - 1
      /\ \A i \in 1..Len(Tail(rest)) : Tail(rest)[i] = rest[i + 1]
  BY RconAssumption
<1> DEFINE longer == Append(read, Head(rest))
           shorter == Tail(rest)
<1>2. /\ Len(longer) = Len(read) + 1
      /\ \A i \in 1..Len(read) : longer[i] = read[i]
      /\ longer[Len(read) + 1] = rest[1]
  BY <1>1, AppendProperties
<1>3. Len(read) + 1 <= n /\ rest[1] = Part(k, Len(read) + 1, n)
  <2>1. rest[1] = IF Len(read) + 1 <= n THEN Part(k, Len(read) + 1, n) ELSE Unknown
    BY <1>1 DEF Stream
  <2> QED
    BY <1>1, <2>1, PacketsDiffer
<1>4. \A i \in 1..Len(longer) : longer[i] = Part(k, i, n)
  <2>1. \A i \in 1..Len(longer) : i \in 1..Len(read) \/ i = Len(read) + 1
    BY <1>1, <1>2
  <2> QED
    BY <1>2, <1>3, <2>1 DEF Stream
<1>5. \A i \in 1..Len(shorter) :
        shorter[i] = IF Len(longer) + i <= n THEN Part(k, Len(longer) + i, n) ELSE Unknown
  <2>1. TAKE i \in 1..Len(shorter)
  <2>2. i + 1 \in 1..Len(rest) /\ Len(read) + (i + 1) = Len(longer) + i
    BY <1>1, <1>2
  <2> QED
    BY <1>1, <2>2 DEF Stream
<1>6. Len(longer) <= n /\ Len(longer) + Len(shorter) = n + e
  BY <1>1, <1>2, <1>3 DEF Stream
<1> HIDE DEF longer, shorter
<1>7. Stream(longer, shorter, k, n, e)
  BY <1>4, <1>5, <1>6 DEF Stream
<1> QED
  BY <1>7 DEF longer, shorter

LEMMA StreamDone ==
  ASSUME NEW read \in Seq(Replies), NEW rest \in Seq(Replies), NEW k \in Events,
         NEW n \in 1..MaxFrag, NEW e \in {0, 1}, Stream(read, rest, k, n, e), rest # <<>>,
         Head(rest)[1] = "unknown"
  PROVE  e = 1 /\ read = Response(k, n) /\ Tail(rest) = <<>>
<1>1. /\ n \in Nat /\ Len(read) \in Nat /\ Len(rest) \in Nat \ {0} /\ Head(rest) = rest[1]
      /\ Len(Tail(rest)) = Len(rest) - 1 /\ Tail(rest) \in Seq(Replies)
  BY RconAssumption
<1>2. ~(Len(read) + 1 <= n)
  <2>1. rest[1] = IF Len(read) + 1 <= n THEN Part(k, Len(read) + 1, n) ELSE Unknown
    BY <1>1 DEF Stream
  <2> QED
    BY <1>1, <2>1, PacketsDiffer
<1>3. Len(read) = n /\ Len(rest) = e
  <2>1. Len(read) <= n /\ Len(read) + Len(rest) = n + e
    BY DEF Stream
  <2>2. n \in Nat /\ Len(read) \in Nat /\ Len(rest) \in Nat /\ e \in Nat
    BY <1>1
  <2>3. Len(read) = n
    BY <1>2, <2>1, <2>2
  <2> QED
    BY <2>1, <2>2, <2>3
<1>4. e = 1 /\ Len(Tail(rest)) = 0
  BY <1>1, <1>3
<1>5. read = Response(k, n)
  <2>1. /\ Response(k, n) \in Seq(Replies) /\ Len(Response(k, n)) = n
        /\ \A i \in 1..Len(read) : read[i] = Response(k, n)[i]
    BY <1>3, ResponseType DEF Stream
  <2> QED
    BY <1>3, <2>1, SeqEqual
<1> QED
  BY <1>1, <1>4, <1>5, EmptySeq

------------------------------------------------------------------------------
(* The second layer: what the connection in use holds *)

\* What the server does on another connection the client does not see.
LEMMA ServeElsewhere ==
  ASSUME Queues, NEW c \in Conns, Serve(c), sock \in Conns, c # sock
  PROVE  toServer'[sock] = toServer[sock] /\ toClient'[sock] = toClient[sock]
<1>0. Types /\ link[c] = "dropped"
  BY DEF Queues, Sockets
<1>1. toClient' = toClient
  <2>1. \A ps : Reply(c, ps) => toClient' = toClient
    BY <1>0 DEF Reply
  <2> QED
    BY <2>1, ServeCases DEF ServesLogin, ServesEnd, ServesCommand
<1> QED
  BY <1>0, <1>1 DEF Serve, Types, Conns

LEMMA ServeExecutes ==
  ASSUME Queues, NEW c \in Conns, Serve(c)
  PROVE  \A k \in Events : executed[k] > 0 => executed'[k] > 0
<1>0. Types
  BY DEF Queues
<1>1. executed' = executed \/ \E k \in 1..call : executed' = [executed EXCEPT ![k] = @ + 1]
  BY ServeCases, Zenon DEF ServesLogin, ServesEnd, ServesCommand
<1>2. CASE executed' = executed
  BY <1>2
<1>3. ASSUME NEW k \in 1..call, executed' = [executed EXCEPT ![k] = @ + 1]
      PROVE  \A j \in Events : executed[j] > 0 => executed'[j] > 0
  <2>1. k \in Events
    BY <1>0, RconAssumption DEF Types, Events
  <2> QED
    BY <1>0, <1>3, <2>1 DEF Types
<1> QED
  BY <1>1, <1>2, <1>3

LEMMA ServeHere ==
  ASSUME Queues, sock \in Conns, Serve(sock)
  PROVE  /\ link[sock] = "open"
         /\ \/ /\ toServer[sock] = <<Login>> /\ toServer'[sock] = <<>>
               /\ \E kind \in {"login_ok", "login_fail"} :
                    toClient'[sock] = toClient[sock] \o << <<kind>> >>
            \/ /\ toServer[sock] = <<End>> /\ toServer'[sock] = <<>>
               /\ toClient'[sock] = toClient[sock] \o <<Unknown>>
            \/ \E k \in Events, n \in 1..MaxFrag :
               /\ \/ toServer[sock] = <<Cmd(k)>> /\ toServer'[sock] = <<>>
                  \/ toServer[sock] = <<Cmd(k), End>> /\ toServer'[sock] = <<End>>
               /\ toClient'[sock] = toClient[sock] \o Response(k, n)
               /\ executed'[k] > 0
<1>0. Types
  BY DEF Queues
<1>1. link[sock] = "open"
  <2>1. toServer[sock] # <<>>
    BY DEF Serve
  <2>2. link[sock] \in {"open", "dropped", "closed", "reset"}
    BY <1>0 DEF Types, Conns
  <2> QED
    BY <2>1, <2>2 DEF Queues, Sockets, Lost
<1>2. \A ps \in Seq(Replies) : Reply(sock, ps) => toClient'[sock] = toClient[sock] \o ps
  BY <1>0, <1>1, ReplyEffect
<1>3. \A q : toServer' = [toServer EXCEPT ![sock] = q] => toServer'[sock] = q
  BY <1>0 DEF Types, Conns
<1>4. \A q \in Replies : <<q>> \in Seq(Replies)
  BY ShortQueues, Zenon
<1>5. CASE ServesLogin(sock)
  BY <1>1, <1>2, <1>3, <1>4, <1>5, PacketKinds DEF ServesLogin
<1>6. CASE ServesEnd(sock)
  BY <1>1, <1>2, <1>3, <1>4, <1>6, PacketKinds DEF ServesEnd
<1>7. ASSUME NEW k \in 1..call, NEW n \in 1..MaxFrag, ServesCommand(sock, k, n)
      PROVE  /\ k \in Events
             /\ \/ toServer[sock] = <<Cmd(k)>> /\ toServer'[sock] = <<>>
                \/ toServer[sock] = <<Cmd(k), End>> /\ toServer'[sock] = <<End>>
             /\ toClient'[sock] = toClient[sock] \o Response(k, n)
             /\ executed'[k] > 0
  <2>1. k \in Events
    BY <1>0, RconAssumption DEF Types, Events
  <2>2. Response(k, n) \in Seq(Replies)
    BY <2>1, ResponseType
  <2>3. executed'[k] > 0
    BY <1>0, <1>7, <2>1 DEF ServesCommand, Types
  <2> QED
    BY <1>2, <1>3, <1>7, <2>1, <2>2, <2>3 DEF ServesCommand
<1> QED
  BY <1>1, <1>5, <1>6, <1>7, ServeCases

\* The queues an attempt makes are told apart.
LEMMA QueuesDiffer ==
  /\ <<Login>> # <<End>> /\ <<Login>> # <<>> /\ <<End>> # <<>>
  /\ \A k : /\ <<Cmd(k)>> # <<>> /\ <<Cmd(k), End>> # <<>>
            /\ <<Cmd(k)>> # <<Login>> /\ <<Cmd(k)>> # <<End>>
            /\ <<Cmd(k), End>> # <<Login>> /\ <<Cmd(k), End>> # <<End>>
  /\ \A j, k : /\ <<Cmd(j)>> # <<Cmd(k), End>>
               /\ <<Cmd(j)>> = <<Cmd(k)>> => j = k
               /\ <<Cmd(j), End>> = <<Cmd(k), End>> => j = k
<1>1. Login # End /\ \A k : Cmd(k) # Login /\ Cmd(k) # End
  BY PacketsDiffer
<1>2. \A j, k : Cmd(j) = Cmd(k) => j = k
  BY PacketsDiffer
<1>3. \A a, b : <<a>> = <<b>> => a = b
  OBVIOUS
<1>4. \A a, b, c : <<a>> # <<>> /\ <<a, b>> # <<>> /\ <<a, b>> # <<c>>
  OBVIOUS
<1>5. \A a, b, c, d : <<a, b>> = <<c, d>> => a = c
  OBVIOUS
<1> QED
  BY <1>1, <1>2, <1>3, <1>4, <1>5, Zenon

\* A step of the server keeps what the connection in use is known to hold.
LEMMA WiresServe ==
  ASSUME Queues, Answers, NEW c \in Conns, Serve(c)
  PROVE  LoginWire' /\ QuietWire' /\ CommandWire' /\ AnswerWire'
<1>0. Types /\ UNCHANGED <<pc, call, sock, result, link>>
  BY DEF Queues, Serve, clientVars
<1>1. sock # 0 => sock \in Conns
  BY <1>0 DEF Types, Conns
<1>2. pc \in {"login", "sleep", "sleep2", "recv"} => sock # 0
  BY DEF Queues, Sockets
<1>3. CASE sock = 0
  BY <1>0, <1>2, <1>3 DEF LoginWire, QuietWire, CommandWire, AnswerWire
<1>4. CASE sock # 0 /\ c # sock
  <2>1. toServer'[sock] = toServer[sock] /\ toClient'[sock] = toClient[sock]
    BY <1>1, <1>4, ServeElsewhere
  <2>2. call \in Events => (executed[call] > 0 => executed'[call] > 0)
    BY ServeExecutes
  <2>3. pc \in Attempting => call \in Events
    BY <1>0 DEF Queues, Sockets, Types, Events
  <2>4. \A r, e : pc \in Attempting /\ Responding(r, e) =>
          /\ executed'[call] > 0
          /\ \E n \in 1..MaxFrag : Stream(r, toClient'[sock], call, n, e)
    BY <2>1, <2>2, <2>3 DEF Responding
  <2>5. LoginWire'
    BY <1>0, <2>1 DEF Answers, LoginWire, Cut
  <2>6. QuietWire'
    BY <1>0, <2>1 DEF Answers, QuietWire
  <2>7. CommandWire'
    BY <1>0, <2>1, <2>4 DEF Answers, CommandWire, Cut, Responding, Attempting
  <2>8. AnswerWire'
    BY <1>0, <2>1, <2>4 DEF Answers, AnswerWire, Cut, Responding, Attempting
  <2> QED
    BY <2>5, <2>6, <2>7, <2>8
<1>5. CASE sock # 0 /\ c = sock
  <2>0. Serve(sock) /\ sock \in Conns /\ toServer[sock] # <<>> /\ toClient[sock] \in Seq(Replies)
    <3>1. Serve(sock) /\ sock \in Conns
      BY <1>1, <1>5
    <3>2. toServer[sock] # <<>>
      BY <3>1 DEF Serve
    <3>3. toClient[sock] \in Seq(Replies)
      BY <1>0, <3>1 DEF Types, Conns
    <3> QED
      BY <3>1, <3>2, <3>3
  <2>1. \A q : <<>> \o <<q>> = <<q>>
    OBVIOUS
  <2>5. LoginWire'
    <3>1. SUFFICES ASSUME pc = "login" PROVE LoginWire'
      BY <1>0 DEF LoginWire
    <3>2. toServer[sock] = <<Login>> /\ toClient[sock] = <<>>
      BY <2>0, <3>1 DEF Answers, LoginWire, Cut
    <3>3. /\ toServer'[sock] = <<>>
          /\ \E kind \in {"login_ok", "login_fail"} : toClient'[sock] = << <<kind>> >>
      BY <2>0, <2>1, <3>2, ServeHere, QueuesDiffer
    <3> QED
      BY <1>0, <3>3 DEF LoginWire
  <2>6. QuietWire'
    BY <1>0, <2>0 DEF Answers, QuietWire
  <2>7. CommandWire'
    <3>1. SUFFICES ASSUME pc = "sleep" PROVE CommandWire'
      BY <1>0 DEF CommandWire
    <3>2. toServer[sock] = <<Cmd(call)>> /\ toClient[sock] = <<>>
      BY <2>0, <3>1 DEF Answers, CommandWire, Cut
    <3>3. PICK k \in Events, n \in 1..MaxFrag :
            /\ k = call /\ toServer'[sock] = <<>>
            /\ toClient'[sock] = <<>> \o Response(k, n) /\ executed'[k] > 0
      BY <2>0, <3>2, ServeHere, QueuesDiffer
    <3>4. toClient'[sock] = Response(k, n)
      <4>1. Response(k, n) \in Seq(Replies) /\ <<>> \in Seq(Replies)
        BY ResponseType
      <4> QED
        BY <3>3, <4>1, ConcatReplies
    <3>5. Stream(<<>>, Response(k, n), k, n, 0)
      BY StreamStart
    <3> QED
      BY <1>0, <3>3, <3>4, <3>5 DEF CommandWire, Responding
  <2>8. AnswerWire'
    <3>1. SUFFICES ASSUME pc \in {"sleep2", "recv"} PROVE AnswerWire'
      BY <1>0 DEF AnswerWire
    <3>2. call \in Events /\ result \in Seq(Replies) /\ (pc = "sleep2" => result = <<>>)
      BY <1>0, <3>1 DEF Queues, Sockets, Types, Events, Attempting, Answers, AnswerWire
    <3>3. CASE toServer[sock] = <<Cmd(call), End>> /\ toClient[sock] = <<>> /\ result = <<>>
      <4>1. PICK k \in Events, n \in 1..MaxFrag :
              /\ k = call /\ toServer'[sock] = <<End>>
              /\ toClient'[sock] = <<>> \o Response(k, n) /\ executed'[k] > 0
        BY <2>0, <3>3, ServeHere, QueuesDiffer
      <4>2. toClient'[sock] = Response(k, n)
        <5>1. Response(k, n) \in Seq(Replies) /\ <<>> \in Seq(Replies)
          BY ResponseType
        <5> QED
          BY <4>1, <5>1, ConcatReplies
      <4>3. Stream(<<>>, Response(k, n), k, n, 0)
        BY StreamStart
      <4> QED
        BY <1>0, <3>3, <4>1, <4>2, <4>3 DEF AnswerWire, Responding
    <3>4. CASE toServer[sock] = <<End>> /\ Responding(result, 0)
      <4>1. toServer'[sock] = <<>> /\ toClient'[sock] = toClient[sock] \o <<Unknown>>
        BY <2>0, <3>4, ServeHere, QueuesDiffer
      <4>2. PICK n \in 1..MaxFrag : Stream(result, toClient[sock], call, n, 0)
        BY <3>4 DEF Responding
      <4>3. Stream(result, toClient'[sock], call, n, 1)
        BY <2>0, <3>2, <4>1, <4>2, StreamEnd
      <4>4. executed'[call] > 0
        BY <3>2, <3>4, ServeExecutes DEF Responding
      <4> QED
        BY <1>0, <3>2, <4>1, <4>3, <4>4 DEF AnswerWire, Responding
    <3> QED
      BY <2>0, <3>1, <3>3, <3>4 DEF Answers, AnswerWire, Cut
  <2> QED
    BY <2>5, <2>6, <2>7, <2>8
<1> QED
  BY <1>3, <1>4, <1>5

\* What the server has not served when it cuts a connection off is lost.
LEMMA WiresCutOff ==
  ASSUME Queues, Answers, NEW c \in Conns, CutOff(c)
  PROVE  LoginWire' /\ QuietWire' /\ CommandWire' /\ AnswerWire'
<1>0. Types /\ UNCHANGED <<pc, call, sock, result, toClient, executed>>
  BY DEF Queues, CutOff, clientVars
<1>1. PICK how \in {"closed", "reset"} : link' = [link EXCEPT ![c] = how]
  BY DEF CutOff
<1>2. \/ sock # 0 /\ sock # c /\ toServer'[sock] = toServer[sock] /\ link'[sock] = link[sock]
      \/ sock # 0 /\ toServer'[sock] = <<>> /\ link'[sock] # "open"
      \/ sock = 0
  BY <1>0, <1>1 DEF CutOff, Types, Conns
<1>3. pc \in {"login", "sleep", "sleep2", "recv"} => sock # 0
  BY DEF Queues, Sockets
<1>4. CASE sock # 0 /\ sock # c /\ toServer'[sock] = toServer[sock] /\ link'[sock] = link[sock]
  BY <1>0, <1>4 DEF Answers, LoginWire, QuietWire, CommandWire, AnswerWire, Cut, Responding
<1>5. CASE sock # 0 /\ toServer'[sock] = <<>> /\ link'[sock] # "open"
  <2>1. LoginWire'
    BY <1>0, <1>5 DEF Answers, LoginWire, Cut
  <2>2. QuietWire'
    BY <1>0, <1>5 DEF Answers, QuietWire
  <2>3. CommandWire'
    BY <1>0, <1>5 DEF Answers, CommandWire, Cut, Responding
  <2>4. AnswerWire'
    BY <1>0, <1>5 DEF Answers, AnswerWire, Cut, Responding
  <2> QED
    BY <2>1, <2>2, <2>3, <2>4
<1>6. CASE sock = 0
  BY <1>0, <1>3, <1>6 DEF LoginWire, QuietWire, CommandWire, AnswerWire
<1> QED
  BY <1>2, <1>4, <1>5, <1>6

LEMMA ReceiveEffect ==
  ASSUME Queues, Receive
  PROVE  /\ pc = "recv" /\ sock \in Conns /\ call \in Events
         /\ toClient[sock] \in Seq(Replies) /\ toClient[sock] # <<>> /\ result \in Seq(Replies)
         /\ UNCHANGED <<call, depth, sock, link, toServer, executed>>
         /\ toClient'[sock] = Tail(toClient[sock])
         /\ \/ /\ Head(toClient[sock])[1] = "unknown"
               /\ pc' = "idle" /\ result' = result
               /\ answer' = [answer EXCEPT ![call] = result]
               /\ retries' = [retries EXCEPT ![call] = depth]
            \/ /\ Head(toClient[sock])[1] # "unknown"
               /\ result' = Append(result, Head(toClient[sock]))
               /\ UNCHANGED <<pc, answer, retries>>
<1>0. Types /\ Sockets
  BY DEF Queues
<1>1. /\ pc = "recv" /\ toClient[sock] # <<>>
      /\ UNCHANGED <<call, depth, sock, link, toServer, executed>>
      /\ toClient' = [toClient EXCEPT ![sock] = Tail(toClient[sock])]
  BY DEF Receive
<1>2. \/ /\ Head(toClient[sock])[1] = "unknown"
         /\ pc' = "idle" /\ result' = result
         /\ answer' = [answer EXCEPT ![call] = result]
         /\ retries' = [retries EXCEPT ![call] = depth]
      \/ /\ Head(toClient[sock])[1] # "unknown"
         /\ result' = Append(result, Head(toClient[sock]))
         /\ UNCHANGED <<pc, answer, retries>>
  BY DEF Receive
<1>3. sock \in Conns /\ sock \in 1..Len(toClient)
  BY <1>0, <1>1 DEF Sockets, Types, Conns
<1>4. call \in Events
  BY <1>0, <1>1 DEF Sockets, Types, Events, Attempting
<1>5. toClient[sock] \in Seq(Replies) /\ result \in Seq(Replies)
  BY <1>0, <1>3 DEF Types
<1>6. toClient'[sock] = Tail(toClient[sock])
  BY <1>0, <1>1, <1>3 DEF Types
<1> QED
  BY <1>1, <1>2, <1>3, <1>4, <1>5, <1>6

LEMMA LoginWireNext == Queues /\ Answers /\ [Next]_vars => LoginWire'
<1> SUFFICES ASSUME Queues, Answers, [Next]_vars PROVE LoginWire'
  OBVIOUS
<1>0. Types
  BY DEF Queues
<1>1. CASE Connect
  <2>1. <<Login>> \in Seq(Requests) /\ <<>> \in Seq(Replies)
    BY PacketKinds
  <2>2. /\ toServer' = Append(toServer, <<Login>>) /\ toClient' = Append(toClient, <<>>)
        /\ sock' = Len(link) + 1
    BY <1>0, <1>1 DEF Connect, Login, Types
  <2>3. toServer'[Len(toServer) + 1] = <<Login>> /\ toClient'[Len(toClient) + 1] = <<>>
    BY <1>0, <2>1, <2>2, AppendProperties DEF Types
  <2>4. toServer'[sock'] = <<Login>> /\ toClient'[sock'] = <<>>
    BY <1>0, <2>2, <2>3 DEF Types
  <2> QED
    BY <2>4 DEF LoginWire
<1>2. ASSUME NEW c \in Conns, Serve(c) \/ CutOff(c) PROVE LoginWire'
  BY <1>2, WiresServe, WiresCutOff
<1>3. CASE UNCHANGED vars
  BY <1>3 DEF vars, Answers, LoginWire, Cut
<1>4. CASE \/ LoggedIn \/ NotLoggedIn \/ SendCommand \/ SendEnding \/ Wake \/ Receive
           \/ Fail \/ ConnectFails \/ LoginFails \/ Hang \/ Event
  <2>1. pc' # "login"
    BY <1>4 DEF LoggedIn, NotLoggedIn, SendCommand, SendEnding, Wake, Receive, Fail,
                ConnectFails, LoginFails, Hang, Event, Die
  <2> QED
    BY <2>1 DEF LoginWire
<1> QED
  BY <1>1, <1>2, <1>3, <1>4 DEF Next, ClientStep

LEMMA QuietWireNext == Queues /\ Answers /\ [Next]_vars => QuietWire'
<1> SUFFICES ASSUME Queues, Answers, [Next]_vars PROVE QuietWire'
  OBVIOUS
<1>0. Types /\ Sockets
  BY DEF Queues
<1>1. CASE LoggedIn
  <2>1. /\ pc = "login" /\ toClient[sock] # <<>> /\ UNCHANGED <<sock, toServer>>
        /\ toClient' = [toClient EXCEPT ![sock] = Tail(toClient[sock])]
        /\ sock \in 1..Len(toClient)
    BY <1>0, <1>1 DEF LoggedIn, Ready, Sockets, Types
  <2>2. /\ toServer[sock] = <<>>
        /\ toClient[sock] \in {<< <<"login_ok">> >>, << <<"login_fail">> >>}
    BY <2>1 DEF Answers, LoginWire
  <2>3. \A a : Tail(<<a>>) = <<>>
    OBVIOUS
  <2>4. toClient'[sock] = <<>>
    <3>1. Tail(toClient[sock]) = <<>>
      BY <2>2, <2>3
    <3> QED
      BY <2>1, <3>1, <1>0 DEF Types
  <2> QED
    BY <2>1, <2>2, <2>4 DEF QuietWire
<1>2. CASE Receive
  <2>1. CASE Head(toClient[sock])[1] # "unknown"
    BY <1>2, <2>1, ReceiveEffect DEF QuietWire
  <2>2. CASE Head(toClient[sock])[1] = "unknown"
    <3>0. /\ pc = "recv" /\ call \in Events /\ toClient[sock] # <<>>
          /\ toClient[sock] \in Seq(Replies) /\ result \in Seq(Replies)
          /\ UNCHANGED <<sock, toServer>> /\ toClient'[sock] = Tail(toClient[sock])
      BY <1>2, ReceiveEffect
    <3>1. PICK e \in {0, 1} : /\ Responding(result, e)
                              /\ e = 1 => toServer[sock] = <<>>
      BY <3>0 DEF Answers, AnswerWire
    <3>2. PICK n \in 1..MaxFrag : Stream(result, toClient[sock], call, n, e)
      BY <3>1 DEF Responding
    <3>3. e = 1 /\ Tail(toClient[sock]) = <<>>
      BY <2>2, <3>0, <3>2, StreamDone
    <3> QED
      BY <3>0, <3>1, <3>3 DEF QuietWire
  <2> QED
    BY <2>1, <2>2
<1>3. CASE Event
  BY <1>3 DEF Event, netVars, Answers, QuietWire
<1>4. ASSUME NEW c \in Conns, Serve(c) \/ CutOff(c) PROVE QuietWire'
  BY <1>4, WiresServe, WiresCutOff
<1>5. CASE UNCHANGED vars
  BY <1>5 DEF vars, Answers, QuietWire
<1>6. CASE \/ Connect \/ NotLoggedIn \/ SendCommand \/ SendEnding \/ Wake \/ Fail
           \/ ConnectFails \/ LoginFails \/ Hang
  <2>1. pc' \notin {"idle", "send"} \/ sock' = 0
    BY <1>6 DEF Connect, NotLoggedIn, SendCommand, SendEnding, Wake, Fail,
                ConnectFails, LoginFails, Hang, Die
  <2> QED
    BY <2>1 DEF QuietWire
<1> QED
  BY <1>1, <1>2, <1>3, <1>4, <1>5, <1>6 DEF Next, ClientStep

LEMMA CommandWireNext == Queues /\ Answers /\ [Next]_vars => CommandWire'
<1> SUFFICES ASSUME Queues, Answers, [Next]_vars PROVE CommandWire'
  OBVIOUS
<1>0. Types /\ Sockets
  BY DEF Queues
<1>1. CASE SendCommand
  <2>1. /\ sock \in Conns /\ toServer[sock] = <<>> /\ toClient[sock] = <<>> /\ call \in Events
        /\ call' = call /\ sock' = sock
    BY <1>0, <1>1, SMTT(30) DEF SendCommand, Put, Usable, Answers, QuietWire, Types, Sockets,
                      Attempting, Conns, Events
  <2>2. Cmd(call) \in Requests /\ Append(<<>>, Cmd(call)) = <<Cmd(call)>>
    BY <2>1, PacketKinds, ShortQueues
  <2>3. /\ link' = link /\ toClient' = toClient
        /\ toServer'[sock] = IF link[sock] = "open" THEN <<Cmd(call)>> ELSE <<>>
    BY <1>0, <1>1, <2>1, <2>2, PutEffect DEF SendCommand, Cmd
  <2> QED
    BY <2>1, <2>3 DEF CommandWire, Cut
<1>2. ASSUME NEW c \in Conns, Serve(c) \/ CutOff(c) PROVE CommandWire'
  BY <1>2, WiresServe, WiresCutOff
<1>3. CASE UNCHANGED vars
  BY <1>3 DEF vars, Answers, CommandWire, Cut, Responding
<1>4. CASE \/ Connect \/ LoggedIn \/ NotLoggedIn \/ SendEnding \/ Wake \/ Receive
           \/ Fail \/ ConnectFails \/ LoginFails \/ Hang \/ Event
  <2>1. pc' # "sleep"
    BY <1>4 DEF Connect, LoggedIn, NotLoggedIn, SendEnding, Wake, Receive, Fail,
                ConnectFails, LoginFails, Hang, Event, Die
  <2> QED
    BY <2>1 DEF CommandWire
<1> QED
  BY <1>1, <1>2, <1>3, <1>4 DEF Next, ClientStep

LEMMA AnswerWireNext == Queues /\ Answers /\ [Next]_vars => AnswerWire'
<1> SUFFICES ASSUME Queues, Answers, [Next]_vars PROVE AnswerWire'
  OBVIOUS
<1>0. Types /\ Sockets
  BY DEF Queues
<1>1. CASE SendEnding
  <2>1. /\ pc = "sleep" /\ pc' = "sleep2" /\ result' = <<>> /\ Put(End)
        /\ UNCHANGED <<call, sock, executed>>
    BY <1>1 DEF SendEnding, End
  <2>2. /\ sock \in Conns /\ call \in Events /\ link[sock] # "dropped"
        /\ link[sock] \in {"open", "dropped", "closed", "reset"}
    BY <1>0, <2>1 DEF Types, Sockets, Attempting, Conns, Events
  <2>3. /\ Append(<<>>, End) = <<End>> /\ Append(<<Cmd(call)>>, End) = <<Cmd(call), End>>
        /\ End \in Requests
    BY <2>2, PacketKinds, ShortQueues, ZenonT(60)
  <2>4. /\ link' = link /\ toClient' = toClient
        /\ toServer'[sock] = IF link[sock] = "open" THEN Append(toServer[sock], End)
                             ELSE toServer[sock]
    BY <1>0, <2>1, <2>3, PutEffect
  <2>5. CASE toServer[sock] = <<Cmd(call)>> /\ toClient[sock] = <<>>
    <3>1. link[sock] = "open"
      BY <2>2, <2>5, QueuesDiffer DEF Queues, Lost
    <3> QED
      BY <2>1, <2>3, <2>4, <2>5, <3>1 DEF AnswerWire
  <2>6. CASE toServer[sock] = <<>> /\ Responding(<<>>, 0)
    <3>1. Responding(result, 0)'
      BY <2>1, <2>4, <2>6 DEF Responding
    <3>2. toServer'[sock] = <<End>> \/ Cut'
      BY <2>1, <2>3, <2>4, <2>6 DEF Cut
    <3> QED
      BY <2>1, <3>1, <3>2 DEF AnswerWire
  <2>7. CASE Cut /\ toClient[sock] = <<>>
    BY <2>1, <2>4, <2>7 DEF AnswerWire, Cut
  <2> QED
    BY <2>1, <2>5, <2>6, <2>7 DEF Answers, CommandWire
<1>2. CASE Wake
  <2>1. /\ pc = "sleep2" /\ pc' = "recv"
        /\ UNCHANGED <<call, sock, result, link, toServer, toClient, executed>>
    BY <1>2 DEF Wake, netVars
  <2> QED
    BY <2>1 DEF Answers, AnswerWire, Cut, Responding
<1>3. CASE Receive
  <2>1. CASE Head(toClient[sock])[1] = "unknown"
    <3>1. pc' = "idle"
      BY <1>3, <2>1, ReceiveEffect
    <3> QED
      BY <3>1 DEF AnswerWire
  <2>2. CASE Head(toClient[sock])[1] # "unknown"
    <3>0. /\ pc = "recv" /\ call \in Events /\ toClient[sock] # <<>>
          /\ toClient[sock] \in Seq(Replies) /\ result \in Seq(Replies)
          /\ UNCHANGED <<pc, call, sock, link, toServer, executed>>
          /\ toClient'[sock] = Tail(toClient[sock])
          /\ result' = Append(result, Head(toClient[sock]))
      BY <1>3, <2>2, ReceiveEffect
    <3>1. PICK e \in {0, 1} :
            /\ Responding(result, e)
            /\ \/ e = 0 /\ (toServer[sock] = <<End>> \/ Cut)
               \/ e = 1 /\ toServer[sock] = <<>>
      BY <3>0 DEF Answers, AnswerWire
    <3>2. PICK n \in 1..MaxFrag : Stream(result, toClient[sock], call, n, e)
      BY <3>1 DEF Responding
    <3>3. Stream(result', toClient'[sock], call, n, e)
      BY <2>2, <3>0, <3>2, StreamRead
    <3>4. Responding(result, e)'
      BY <3>0, <3>1, <3>3 DEF Responding
    <3> QED
      BY <3>0, <3>1, <3>4 DEF AnswerWire, Cut
  <2> QED
    BY <2>1, <2>2
<1>4. ASSUME NEW c \in Conns, Serve(c) \/ CutOff(c) PROVE AnswerWire'
  BY <1>4, WiresServe, WiresCutOff
<1>5. CASE UNCHANGED vars
  BY <1>5 DEF vars, Answers, AnswerWire, Cut, Responding
<1>6. CASE \/ Connect \/ LoggedIn \/ NotLoggedIn \/ SendCommand
           \/ Fail \/ ConnectFails \/ LoginFails \/ Hang \/ Event
  <2>1. pc' \notin {"sleep2", "recv"}
    BY <1>6 DEF Connect, LoggedIn, NotLoggedIn, SendCommand, Fail,
                ConnectFails, LoginFails, Hang, Event, Die
  <2> QED
    BY <2>1 DEF AnswerWire
<1> QED
  BY <1>1, <1>2, <1>3, <1>4, <1>5, <1>6 DEF Next, ClientStep

LEMMA AnsweredNext == Queues /\ Answers /\ [Next]_vars => Answered'
<1> SUFFICES ASSUME Queues, Answers, [Next]_vars PROVE Answered'
  OBVIOUS
<1>0. Types /\ Sockets /\ Answered
  BY DEF Queues, Answers
<1>1. ASSUME answer' = answer, \A k \in Events : executed[k] > 0 => executed'[k] > 0,
             \A k \in Events : k < call \/ (k = call /\ pc = "idle")
                                 <=> k < call' \/ (k = call' /\ pc' = "idle")
      PROVE  Answered'
  BY <1>0, <1>1 DEF Answered
<1>2. CASE Receive
  <2>1. CASE Head(toClient[sock])[1] # "unknown"
    <3>1. UNCHANGED <<pc, call, answer, executed>>
      BY <1>2, <2>1, ReceiveEffect
    <3> QED
      BY <1>1, <3>1
  <2>2. CASE Head(toClient[sock])[1] = "unknown"
    <3>0. /\ pc = "recv" /\ pc' = "idle" /\ call \in Events /\ toClient[sock] # <<>>
          /\ toClient[sock] \in Seq(Replies) /\ result \in Seq(Replies)
          /\ UNCHANGED <<call, executed>>
          /\ answer' = [answer EXCEPT ![call] = result]
      BY <1>2, <2>2, ReceiveEffect
    <3>1. PICK e \in {0, 1} : Responding(result, e)
      BY <3>0 DEF Answers, AnswerWire
    <3>2. PICK n \in 1..MaxFrag : Stream(result, toClient[sock], call, n, e)
      BY <3>1 DEF Responding
    <3>3. result = Response(call, n) /\ Response(call, n) # None
      BY <2>2, <3>0, <3>2, StreamDone, ResponseType
    <3>4. \A k \in Events : answer'[k] = IF k = call THEN Response(call, n) ELSE answer[k]
      BY <1>0, <3>0, <3>3 DEF Types
    <3>5. executed[call] > 0
      BY <3>1 DEF Responding
    <3>6. \A k \in Events : k < call => k # call
      BY <1>0, RconAssumption DEF Types, Events
    <3> QED
      BY <1>0, <3>0, <3>3, <3>4, <3>5, <3>6 DEF Answered
  <2> QED
    BY <2>1, <2>2
<1>3. CASE Event
  <2>1. pc = "idle" /\ pc' = "send" /\ call' = call + 1 /\ UNCHANGED <<answer, executed>>
    BY <1>3 DEF Event
  <2>2. \A k \in Events : k < call + 1 <=> k < call \/ k = call
    BY <1>0, RconAssumption DEF Types, Events
  <2> QED
    BY <1>1, <2>1, <2>2
<1>4. CASE LoggedIn \/ NotLoggedIn
  <2>1. /\ pc = "login" /\ (pc' # "idle" \/ call = 0) /\ call' = call
        /\ UNCHANGED <<answer, executed>>
    BY <1>4 DEF LoggedIn, NotLoggedIn
  <2>2. \A k \in Events : k # 0
    BY RconAssumption DEF Events
  <2> QED
    BY <1>1, <2>1, <2>2
<1>5. ASSUME NEW c \in Conns, Serve(c) PROVE Answered'
  <2>1. UNCHANGED <<pc, call, answer>>
    BY <1>5 DEF Serve, clientVars
  <2> QED
    BY <1>1, <1>5, <2>1, ServeExecutes
<1>6. ASSUME NEW c \in Conns, CutOff(c) PROVE Answered'
  <2>1. UNCHANGED <<pc, call, answer, executed>>
    BY <1>6 DEF CutOff, clientVars
  <2> QED
    BY <1>1, <2>1
<1>7. CASE UNCHANGED vars
  BY <1>1, <1>7 DEF vars
<1>8. CASE \/ Connect \/ SendCommand \/ SendEnding \/ Wake \/ Fail \/ ConnectFails
           \/ LoginFails \/ Hang
  <2>1. pc # "idle" /\ pc' # "idle" /\ UNCHANGED <<call, answer, executed>>
    BY <1>8 DEF Connect, SendCommand, SendEnding, Wake, Fail, ConnectFails, LoginFails,
                Hang, Die
  <2> QED
    BY <1>1, <2>1
<1> QED
  BY <1>2, <1>3, <1>4, <1>5, <1>6, <1>7, <1>8 DEF Next, ClientStep

LEMMA WiresHold == Spec => [](Queues /\ Answers)
<1>1. Init => Queues /\ Answers
  <2> SUFFICES ASSUME Init PROVE Queues /\ Answers
    OBVIOUS
  <2>1. /\ pc = "connect" /\ call = 0 /\ depth = 0 /\ timer = FALSE /\ sock = 0 /\ result = <<>>
        /\ answer = [k \in Events |-> None] /\ retries = [k \in Events |-> 0]
        /\ link = <<>> /\ toServer = <<>> /\ toClient = <<>>
        /\ executed = [k \in Events |-> 0]
    BY DEF Init
  <2>2. \A S : <<>> \in Seq(S) /\ Len(<<>>) = 0
    OBVIOUS
  <2>3. answer \in [Events -> Seq(Replies)]
    BY <2>1, <2>2 DEF None
  <2>4. Types
    <3>1. /\ link \in Seq({"open", "dropped", "closed", "reset"}) /\ result \in Seq(Replies)
          /\ toServer \in Seq(Seq(Requests)) /\ toClient \in Seq(Seq(Replies))
          /\ Len(link) = 0 /\ Len(toServer) = 0 /\ Len(toClient) = 0
      BY <2>1, <2>2
    <3>2. /\ retries \in [Events -> 0..MaxRetry] /\ executed \in [Events -> Nat]
          /\ call \in 0..Calls /\ depth \in 0..MaxRetry /\ sock \in 0..0
      BY <2>1, RconAssumption
    <3> QED
      BY <2>1, <2>3, <3>1, <3>2 DEF Types
  <2>5. Conns = {}
    BY <2>1, <2>2 DEF Conns
  <2>6. Sockets /\ Shapes /\ Lost
    BY <2>1, <2>5 DEF Sockets, Shapes, Lost, Attempting
  <2>7. Budget
    BY <2>1, <2>2 DEF Budget
  <2>8. Answers
    BY <2>1, RconAssumption DEF Answers, LoginWire, QuietWire, CommandWire, AnswerWire,
                                Answered, Events
  <2> QED
    BY <2>4, <2>6, <2>7, <2>8 DEF Queues
<1>2. (Queues /\ Answers) /\ [Next]_vars => (Queues /\ Answers)'
  BY TypesNext, SocketsNext, BudgetNext, ShapesNext, LostNext, LoginWireNext, QuietWireNext,
     CommandWireNext, AnswerWireNext, AnsweredNext DEF Queues, Answers
<1> QED
  BY <1>1, <1>2, PTL DEF Spec

\* The variables have their types: no more connections are made than attempts
\* allow, and the retries are bounded although a retry is a recursive call.
THEOREM TypeCorrect == Spec => []TypeOK
<1>1. Queues => TypeOK
  <2> SUFFICES ASSUME Queues PROVE TypeOK
    OBVIOUS
  <2>1. Types /\ Budget
    BY DEF Queues
  <2>2. Len(link) <= MaxConns
    <3>1. CASE call = 0
      <4>1. MaxConns >= 1
        <5>1. PICK r \in Nat : r = MaxRetry + 1
          BY RconAssumption
        <5>2. Calls * r \in Nat /\ MaxConns = 1 + Calls * r
          BY <5>1, RconAssumption DEF MaxConns
        <5> QED
          BY <5>2
      <4>2. MaxConns \in Nat
        BY RconAssumption DEF MaxConns
      <4> QED
        BY <2>1, <3>1, <4>1, <4>2 DEF Budget, Types
    <3>2. CASE call # 0
      <4> DEFINE b == (call - 1) * (MaxRetry + 1)
      <4>1. /\ call \in Nat \ {0} /\ call <= Calls /\ depth \in 0..MaxRetry /\ Len(link) \in Nat
        BY <2>1, <3>2, RconAssumption DEF Types
      <4>2. b \in Nat /\ b + MaxRetry + 2 <= MaxConns
        BY <4>1, BudgetSteps
      <4>3. Len(link) <= 1 + b + depth + IF pc \in {"login", "hung", "dead"} THEN 1 ELSE 0
        BY <2>1, <3>2 DEF Budget
      <4>4. MaxConns \in Nat
        BY RconAssumption DEF MaxConns
      <4> HIDE DEF b
      <4> QED
        BY <4>1, <4>2, <4>3, <4>4, RconAssumption
    <3> QED
      BY <3>1, <3>2
  <2> QED
    BY <2>1, <2>2 DEF Types, TypeOK, Conns, Requests, Replies
<1> QED
  BY <1>1, WiresHold, PTL

\* Whatever fails or is cut off, what the relay echoes for an event is one whole
\* response of the server to the command of that event.
THEOREM AnswersAreComplete == Spec => []AnswerComplete
<1>1. Answers => AnswerComplete
  BY DEF Answers, Answered, AnswerComplete
<1> QED
  BY <1>1, WiresHold, PTL

\* No packet of an earlier attempt waits on the connection the next command
\* is sent on.
THEOREM NothingIsUnread == Spec => []NothingUnread
<1>1. Answers => NothingUnread
  BY DEF Answers, QuietWire, NothingUnread
<1> QED
  BY <1>1, WiresHold, PTL

------------------------------------------------------------------------------
(* The third layer: how often a command is run *)

LEMMA BoundedSets ==
  ASSUME NEW n \in Nat, NEW S \in SUBSET (1..n)
  PROVE  IsFiniteSet(S) /\ Cardinality(S) \in Nat
<1>1. S \in SUBSET Nat /\ \A v \in S : v <= n
  OBVIOUS
<1>2. IsFiniteSet(S)
  BY <1>1, FS_BoundedSetOfNaturals
<1> QED
  BY <1>2, FS_CardinalityType

\* What a step does to the connections that hold the command of event k.
LEMMA PendingSame ==
  ASSUME Conns \subseteq Conns', NEW k,
         \A c \in Conns : toServer'[c] = toServer[c],
         \A c \in Conns' \ Conns : toServer'[c] = <<Login>>
  PROVE  Pending(k)' = Pending(k)
BY QueuesDiffer DEF Pending

\* What a step that replaces the packets waiting on one connection leaves.
LEMMA SwapQueue ==
  ASSUME Types, NEW c \in Conns, NEW q \in {<<>>, <<End>>},
         toServer' = [toServer EXCEPT ![c] = q]
  PROVE  /\ toServer'[c] = q
         /\ \A d \in Conns : d # c => toServer'[d] = toServer[d]
<1>1. toServer \in Seq(Seq(Requests)) /\ Len(toServer) = Len(link) /\ c \in 1..Len(toServer)
  BY DEF Types, Conns
<1>2. <<>> \in Seq(Requests) /\ <<End>> \in Seq(Requests)
  BY PacketKinds
<1>3. q \in Seq(Requests)
  BY <1>2, Zenon
<1>4. \A d \in 1..Len(toServer) :
        [toServer EXCEPT ![c] = q][d] = IF d = c THEN q ELSE toServer[d]
  BY <1>1, <1>3, ExceptSeq, SMTT(30)
<1> QED
  BY <1>1, <1>4, Zenon DEF Conns

LEMMA RunsNext == Queues /\ Queues' /\ Answers /\ Runs /\ [Next]_vars => Runs'
<1> SUFFICES ASSUME Queues, Queues', Answers, Runs, [Next]_vars PROVE Runs'
  OBVIOUS
<1>0. Types /\ Types' /\ Sockets /\ Answered
  BY DEF Queues, Answers
<1>1. \A k \in Events : /\ k \in Nat /\ k # 0
                        /\ Pending(k) \in SUBSET (1..Len(link)) /\ IsFiniteSet(Pending(k))
                        /\ Cardinality(Pending(k)) \in Nat /\ executed[k] \in Nat
                        /\ executed[k] + Cardinality(Pending(k)) <= Attempts(k)
                        /\ Attempts(k) \in Nat
  <2>1. TAKE k \in Events
  <2>2. Pending(k) \in SUBSET (1..Len(link)) /\ Len(link) \in Nat
    BY <1>0 DEF Pending, Conns, Types
  <2>3. Attempts(k) \in Nat
    BY <1>0, RconAssumption, SMTT(30) DEF Attempts, Types
  <2>4. k \in Nat /\ k # 0
    BY RconAssumption DEF Events
  <2>5. executed[k] \in Nat
    BY <1>0 DEF Types
  <2> QED
    BY <2>2, <2>3, <2>4, <2>5, BoundedSets DEF Runs
<1>2. call \in Nat /\ call' \in Nat /\ depth \in Nat /\ depth' \in Nat
  BY <1>0, RconAssumption DEF Types
<1>3. \A k \in Events : /\ k < call => answer[k] # None
                        /\ k = call => (answer[k] # None <=> pc = "idle")
                        /\ k > call => answer[k] = None
  BY <1>1, <1>2, <1>0 DEF Answered
<1>4. \A k \in Events : Attempts(k)' \in Nat
  <2>1. TAKE k \in Events
  <2>2. retries'[k] \in Nat
    BY <1>0, RconAssumption DEF Types
  <2>3. 0 \in Nat /\ \A m \in Nat : m + 1 \in Nat
    OBVIOUS
  <2> QED
    BY <1>2, <2>2, <2>3, Zenon DEF Attempts
\* A step that neither sends nor serves a command.
<1>5. ASSUME \A k \in Events : Pending(k)' = Pending(k), executed' = executed,
             \A k \in Events : Attempts(k) <= Attempts(k)'
      PROVE  Runs'
  BY <1>1, <1>4, <1>5 DEF Runs
<1>6. ASSUME UNCHANGED <<toServer, executed>>, Len(link') = Len(link),
             \A k \in Events : Attempts(k) <= Attempts(k)'
      PROVE  Runs'
  <2>1. \A k \in Events : Pending(k)' = Pending(k)
    BY <1>6 DEF Pending, Conns
  <2> QED
    BY <1>5, <1>6, <2>1
<1>7. ASSUME UNCHANGED <<call, answer, retries, depth>>, pc' # "send" \/ pc' = pc
      PROVE  \A k \in Events : Attempts(k) <= Attempts(k)'
  <2>1. TAKE k \in Events
  <2>2. retries[k] \in Nat
    BY <1>0, RconAssumption DEF Types
  <2> QED
    BY <1>2, <1>7, <2>2 DEF Attempts
<1>10. CASE Connect
  <2>1. /\ pc' = "login" /\ UNCHANGED <<call, answer, retries, depth, executed>>
        /\ toServer' = Append(toServer, <<Login>>)
        /\ Len(link') = Len(link) + 1 /\ Len(link) \in Nat /\ Len(toServer) = Len(link)
    BY <1>0, <1>10 DEF Connect, Login, Types
  <2>2. <<Login>> \in Seq(Requests)
    BY PacketKinds
  <2>3. /\ \A c \in 1..Len(link) : toServer'[c] = toServer[c]
        /\ toServer'[Len(link) + 1] = <<Login>>
    BY <1>0, <2>1, <2>2, AppendProperties DEF Types
  <2>4. /\ Conns \subseteq Conns' /\ \A c \in Conns : toServer'[c] = toServer[c]
        /\ \A c \in Conns' \ Conns : toServer'[c] = <<Login>>
    BY <2>1, <2>3 DEF Conns
  <2>5. \A k \in Events : Pending(k)' = Pending(k)
    BY <2>4, PendingSame
  <2> QED
    BY <1>5, <1>7, <2>1, <2>5
<1>11. CASE LoggedIn
  <2>1. /\ pc = "login" /\ UNCHANGED <<toServer, executed, link, call, answer, retries>>
        /\ \/ pc' # "send" /\ depth' = depth
           \/ pc' = "send" /\ depth' = depth + 1
    <3>1. /\ pc = "login" /\ UNCHANGED <<toServer, executed, link, call, answer, retries>>
          /\ pc' = IF call = 0 THEN "idle" ELSE IF depth < MaxRetry THEN "send" ELSE "dead"
          /\ depth' = IF call > 0 /\ depth < MaxRetry THEN depth + 1 ELSE depth
      BY <1>11 DEF LoggedIn
    <3>2. call > 0 <=> call # 0
      BY <1>2
    <3>3. CASE call = 0 \/ ~(depth < MaxRetry)
      BY <3>1, <3>2, <3>3
    <3>4. CASE call # 0 /\ depth < MaxRetry
      BY <3>1, <3>2, <3>4
    <3> QED
      BY <3>3, <3>4
  <2>2. \A k \in Events : Attempts(k) <= Attempts(k)'
    <3>1. TAKE k \in Events
    <3>2. retries[k] \in Nat
      BY <1>0, RconAssumption DEF Types
    <3>3. CASE pc' # "send" /\ depth' = depth
      BY <1>2, <2>1, <3>2, <3>3 DEF Attempts
    <3>4. CASE pc' = "send" /\ depth' = depth + 1
      <4>1. pc # "send" /\ depth + 1 <= depth' /\ retries[k] + 1 <= retries[k] + 1 /\ 0 <= 0
        BY <1>2, <2>1, <3>2, <3>4
      <4> QED
        BY <2>1, <3>4, <4>1, Zenon DEF Attempts
    <3> QED
      BY <2>1, <3>3, <3>4
  <2> QED
    BY <1>6, <2>1, <2>2
<1>12. CASE NotLoggedIn \/ Fail
  <2>1. Len(link') = Len(link)
    BY <1>0, <1>12, DropEffect, Zenon DEF NotLoggedIn, Fail
  <2>2. pc' # "send" /\ UNCHANGED <<toServer, executed, call, answer, retries, depth>>
    BY <1>12 DEF NotLoggedIn, Fail
  <2> QED
    BY <1>6, <1>7, <2>1, <2>2
<1>13. CASE Wake \/ ConnectFails \/ LoginFails \/ Hang
  <2>1. pc' # "send" /\ UNCHANGED <<toServer, executed, link, call, answer, retries, depth>>
    BY <1>13 DEF Wake, ConnectFails, LoginFails, Hang, Die, netVars
  <2> QED
    BY <1>6, <1>7, <2>1
<1>14. CASE Event
  <2>1. /\ pc = "idle" /\ pc' = "send" /\ call' = call + 1 /\ depth' = 0
        /\ UNCHANGED <<toServer, executed, link, answer, retries>>
    BY <1>14 DEF Event, netVars
  <2>2. \A k \in Events : Attempts(k) <= Attempts(k)'
    <3>1. TAKE k \in Events
    <3>2. retries[k] \in Nat /\ k \in Nat
      BY <1>0, <1>1, RconAssumption DEF Types
    <3>3. CASE k > call
      BY <1>2, <1>3, <2>1, <3>2, <3>3 DEF Attempts
    <3>4. CASE ~(k > call)
      <4>1. answer[k] # None /\ ~(k > call')
        BY <1>2, <1>3, <2>1, <3>2, <3>4
      <4> QED
        BY <2>1, <3>2, <3>4, <4>1 DEF Attempts
    <3> QED
      BY <3>3, <3>4
  <2> QED
    BY <1>6, <2>1, <2>2
<1>15. CASE Receive
  <2>1. CASE Head(toClient[sock])[1] # "unknown"
    BY <1>6, <1>7, <1>15, <2>1, ReceiveEffect
  <2>2. CASE Head(toClient[sock])[1] = "unknown"
    <3>1. /\ pc = "recv" /\ pc' = "idle" /\ call \in Events
          /\ UNCHANGED <<toServer, executed, link, call, depth>>
          /\ answer' = [answer EXCEPT ![call] = result]
          /\ retries' = [retries EXCEPT ![call] = depth]
      BY <1>15, <2>2, ReceiveEffect
    <3>2. \A k \in Events : Attempts(k) <= Attempts(k)'
      <4>1. TAKE k \in Events
      <4>2. retries[k] \in Nat
        BY <1>0, RconAssumption DEF Types
      <4>3. CASE k = call
        <5>1. answer[k] = None /\ retries'[k] = depth /\ ~(k > call)
          BY <1>0, <1>2, <1>3, <3>1, <4>3 DEF Types
        <5> QED
          BY <1>2, <3>1, <5>1 DEF Attempts
      <4>4. CASE k # call
        <5>1. answer'[k] = answer[k] /\ retries'[k] = retries[k]
          BY <1>0, <3>1, <4>4 DEF Types
        <5>2. k < call \/ k > call
          BY <1>1, <1>2, <4>4
        <5> QED
          BY <1>2, <1>3, <3>1, <4>2, <5>1, <5>2 DEF Attempts
      <4> QED
        BY <4>3, <4>4
    <3> QED
      BY <1>6, <3>1, <3>2
  <2> QED
    BY <2>1, <2>2
<1>16. CASE SendCommand
  <2>1. /\ pc = "send" /\ pc' = "sleep" /\ Put(Cmd(call))
        /\ UNCHANGED <<call, depth, sock, answer, retries, executed>>
    BY <1>16 DEF SendCommand, Cmd
  <2>2. /\ sock \in Conns /\ toServer[sock] = <<>> /\ call \in Events
    BY <1>0, <2>1 DEF Put, Usable, Answers, QuietWire, Types, Sockets, Attempting, Conns, Events
  <2>3. Cmd(call) \in Requests /\ Append(<<>>, Cmd(call)) = <<Cmd(call)>>
    BY <2>2, PacketKinds, ShortQueues
  <2>4. /\ link' = link
        /\ \A d \in Conns : d # sock => toServer'[d] = toServer[d]
        /\ toServer'[sock] \in {<<>>, <<Cmd(call)>>}
    BY <1>0, <2>1, <2>2, <2>3, PutEffect
  <2>5. ASSUME NEW k \in Events, k # call
        PROVE  executed'[k] + Cardinality(Pending(k)') <= Attempts(k)'
    <3>1. Pending(k)' = Pending(k)
      BY <2>2, <2>4, <2>5, QueuesDiffer DEF Pending, Conns
    <3>2. Attempts(k) = Attempts(k)'
      BY <1>1, <1>2, <1>3, <2>1, <2>5 DEF Attempts
    <3> QED
      BY <1>1, <2>1, <3>1, <3>2
  <2>6. executed'[call] + Cardinality(Pending(call)') <= Attempts(call)'
    <3>1. sock \notin Pending(call) /\ IsFiniteSet(Pending(call))
      BY <1>1, <2>2, QueuesDiffer DEF Pending
    <3>2. Pending(call)' \in {Pending(call), Pending(call) \cup {sock}}
      BY <2>1, <2>2, <2>4, QueuesDiffer DEF Pending, Conns
    <3>3. Cardinality(Pending(call)') \in {Cardinality(Pending(call)), Cardinality(Pending(call)) + 1}
      BY <3>1, <3>2, FS_AddElement
    <3>4. Attempts(call) = depth /\ Attempts(call)' = depth + 1
      BY <1>2, <1>3, <2>1, <2>2 DEF Attempts
    <3> QED
      BY <1>1, <1>2, <2>1, <2>2, <3>3, <3>4
  <2> QED
    BY <2>1, <2>5, <2>6 DEF Runs
<1>17. CASE SendEnding
  <2>1. /\ pc = "sleep" /\ pc' = "sleep2" /\ Put(End)
        /\ UNCHANGED <<call, depth, sock, answer, retries, executed>>
    BY <1>17 DEF SendEnding, End
  <2>2. sock \in Conns /\ call \in Events /\ toServer[sock] \in {<<>>, <<Cmd(call)>>}
    <3>1. sock \in Conns /\ call \in Events
      BY <1>0, <2>1 DEF Types, Sockets, Attempting, Conns, Events
    <3> QED
      BY <2>1, <3>1 DEF Answers, CommandWire, Cut
  <2>3. /\ Append(<<>>, End) = <<End>> /\ Append(<<Cmd(call)>>, End) = <<Cmd(call), End>>
        /\ End \in Requests
    BY <2>2, PacketKinds, ShortQueues, ZenonT(60)
  <2>4. /\ link' = link
        /\ \A d \in Conns : d # sock => toServer'[d] = toServer[d]
        /\ toServer'[sock] \in {toServer[sock], Append(toServer[sock], End)}
    BY <1>0, <2>1, <2>2, <2>3, PutEffect
  <2>5. \A k \in Events : Pending(k)' = Pending(k)
    <3>1. TAKE k \in Events
    <3>2. \/ toServer'[sock] = toServer[sock]
          \/ toServer[sock] = <<>> /\ toServer'[sock] = <<End>>
          \/ toServer[sock] = <<Cmd(call)>> /\ toServer'[sock] = <<Cmd(call), End>>
      BY <2>2, <2>3, <2>4
    <3>3. toServer'[sock] \in {<<Cmd(k)>>, <<Cmd(k), End>>}
            <=> toServer[sock] \in {<<Cmd(k)>>, <<Cmd(k), End>>}
      BY <3>2, QueuesDiffer
    <3> QED
      BY <2>4, <3>3 DEF Pending, Conns
  <2> QED
    BY <1>5, <1>7, <2>1, <2>5
<1>18. ASSUME NEW c \in Conns, CutOff(c) PROVE Runs'
  <2>1. /\ UNCHANGED <<pc, call, depth, answer, retries, executed>>
        /\ Len(link') = Len(link) /\ toServer'[c] = <<>>
        /\ \A d \in Conns : d # c => toServer'[d] = toServer[d]
    BY <1>0, <1>18 DEF CutOff, clientVars, Types, Conns
  <2>2. ASSUME NEW k \in Events
        PROVE  executed'[k] + Cardinality(Pending(k)') <= Attempts(k)'
    <3>1. Pending(k)' = Pending(k) \ {c} /\ IsFiniteSet(Pending(k))
      BY <1>1, <2>1, QueuesDiffer DEF Pending, Conns
    <3>2. Cardinality(Pending(k)') \in Nat /\ Cardinality(Pending(k)') <= Cardinality(Pending(k))
      <4>1. /\ IsFiniteSet(Pending(k)')
            /\ Cardinality(Pending(k)') = IF c \in Pending(k) THEN Cardinality(Pending(k)) - 1
                                          ELSE Cardinality(Pending(k))
        BY <3>1, FS_RemoveElement
      <4>2. Cardinality(Pending(k)') \in Nat
        BY <4>1, FS_CardinalityType
      <4> QED
        BY <1>1, <4>1, <4>2
    <3>3. Attempts(k) <= Attempts(k)' /\ Attempts(k)' \in Nat
      BY <1>4, <1>7, <2>1
    <3> QED
      BY <1>1, <2>1, <3>2, <3>3
  <2> QED
    BY <2>2 DEF Runs
<1>19. ASSUME NEW c \in Conns, Serve(c) PROVE Runs'
  <2>1. /\ UNCHANGED <<pc, call, depth, answer, retries, link>>
        /\ \/ ServesLogin(c) \/ ServesEnd(c)
           \/ \E k \in 1..call, n \in 1..MaxFrag : ServesCommand(c, k, n)
    BY <1>19, ServeCases DEF clientVars
  <2>2. \A k \in Events : Attempts(k) <= Attempts(k)' /\ Attempts(k)' \in Nat
    BY <1>4, <1>7, <2>1
  <2>3. CASE ServesLogin(c) \/ ServesEnd(c)
    <3>1. /\ toServer[c] \in {<<Login>>, <<End>>} /\ toServer'[c] = <<>> /\ executed' = executed
          /\ \A d \in Conns : d # c => toServer'[d] = toServer[d]
      <4>1. /\ toServer[c] \in {<<Login>>, <<End>>} /\ executed' = executed
            /\ toServer' = [toServer EXCEPT ![c] = <<>>]
        BY <2>3 DEF ServesLogin, ServesEnd
      <4>2. <<>> \in {<<>>, <<End>>}
        OBVIOUS
      <4> QED
        BY <1>0, <4>1, <4>2, SwapQueue
    <3>2. \A k \in Events : Pending(k)' = Pending(k)
      BY <2>1, <3>1, QueuesDiffer DEF Pending, Conns
    <3> QED
      BY <1>5, <2>2, <3>1, <3>2
  <2>4. ASSUME NEW j \in 1..call, NEW n \in 1..MaxFrag, ServesCommand(c, j, n)
        PROVE  Runs'
    <3>1. j \in Events
      BY <1>0, RconAssumption DEF Types, Events
    <3>2. /\ toServer[c] \in {<<Cmd(j)>>, <<Cmd(j), End>>} /\ toServer'[c] \in {<<>>, <<End>>}
          /\ \A d \in Conns : d # c => toServer'[d] = toServer[d]
      <4>1. /\ toServer[c] \in {<<Cmd(j)>>, <<Cmd(j), End>>}
            /\ \E q \in {<<>>, <<End>>} : toServer' = [toServer EXCEPT ![c] = q]
        BY <2>4 DEF ServesCommand
      <4>2. PICK q \in {<<>>, <<End>>} : toServer' = [toServer EXCEPT ![c] = q]
        BY <4>1
      <4>3. toServer'[c] = q /\ \A d \in Conns : d # c => toServer'[d] = toServer[d]
        BY <1>0, <4>2, SwapQueue
      <4> QED
        BY <4>1, <4>3, Zenon
    <3>3. \A k \in Events : executed'[k] = IF k = j THEN executed[k] + 1 ELSE executed[k]
      BY <1>0, <2>4, <3>1 DEF ServesCommand, Types
    <3>4. \A k \in Events : k # j => Pending(k)' = Pending(k)
      BY <2>1, <3>2, QueuesDiffer DEF Pending, Conns
    <3>5. c \in Pending(j) /\ Pending(j)' = Pending(j) \ {c}
      BY <2>1, <3>2, QueuesDiffer DEF Pending, Conns
    <3>6. Cardinality(Pending(j)') = Cardinality(Pending(j)) - 1
      BY <1>1, <3>1, <3>5, FS_RemoveElement
    <3>7. ASSUME NEW k \in Events
          PROVE  executed'[k] + Cardinality(Pending(k)') <= Attempts(k)'
      <4>1. CASE k = j
        BY <1>1, <2>2, <3>3, <3>6, <4>1
      <4>2. CASE k # j
        BY <1>1, <2>2, <3>3, <3>4, <4>2
      <4> QED
        BY <4>1, <4>2
    <3> QED
      BY <3>7 DEF Runs
  <2> QED
    BY <2>1, <2>3, <2>4
<1>20. CASE UNCHANGED vars
  BY <1>6, <1>7, <1>20 DEF vars
<1> QED
  BY <1>10, <1>11, <1>12, <1>13, <1>14, <1>15, <1>16, <1>17, <1>18, <1>19, <1>20
     DEF Next, ClientStep

LEMMA RunsHold == Spec => []RconInv
<1>1. Init => Runs
  <2> SUFFICES ASSUME Init PROVE Runs
    OBVIOUS
  <2>1. \A k \in Events : Pending(k) = {} /\ executed[k] = 0
    BY DEF Init, Pending, Conns
  <2>2. \A k \in Events : Attempts(k) = 0
    BY RconAssumption DEF Init, Attempts, Events
  <2> QED
    BY <2>1, <2>2, FS_EmptySet DEF Runs
<1>2. (Queues /\ Answers) /\ (Queues /\ Answers)' /\ Runs /\ [Next]_vars => Runs'
  BY RunsNext
<1> QED
  BY <1>1, <1>2, WiresHold, PTL DEF Spec, RconInv

\* A command is never run more often than __send_command was entered for it,
\* although every attempt that failed may still be on its way to the server;
\* and what is echoed was run.
THEOREM ExecutionsAreBounded == Spec => []ExecutionBound
<1>1. RconInv => ExecutionBound
  <2> SUFFICES ASSUME RconInv, NEW k \in Events
               PROVE  /\ executed[k] <= 1 + MaxRetry
                      /\ answer[k] # None => executed[k] \in 1..(retries[k] + 1)
    BY DEF ExecutionBound
  <2>1. /\ Types /\ Answered /\ executed[k] + Cardinality(Pending(k)) <= Attempts(k)
    BY DEF RconInv, Queues, Answers, Runs
  <2>2. /\ k \in Nat /\ k # 0 /\ call \in Nat /\ depth \in 0..MaxRetry /\ retries[k] \in 0..MaxRetry
        /\ executed[k] \in Nat
    BY <2>1, RconAssumption DEF Types, Events
  <2>3. Cardinality(Pending(k)) \in Nat
    <3>1. Pending(k) \in SUBSET (1..Len(link)) /\ Len(link) \in Nat
      BY <2>1 DEF Pending, Conns, Types
    <3> QED
      BY <3>1, BoundedSets
  <2>4. Attempts(k) \in 0..(MaxRetry + 1)
    BY <2>2, RconAssumption DEF Attempts
  <2>5. executed[k] <= Attempts(k)
    BY <2>1, <2>2, <2>3, <2>4, RconAssumption
  <2>6. ASSUME answer[k] # None PROVE executed[k] > 0 /\ Attempts(k) = retries[k] + 1
    BY <2>1, <2>2, <2>6 DEF Answered, Attempts
  <2> QED
    BY <2>2, <2>4, <2>5, <2>6, RconAssumption
<1> QED
  BY <1>1, RunsHold, PTL

\* Although a command may be run late, from a connection given up, no command
\* is first run before the commands of the earlier events.
THEOREM FirstRunsAreInOrder == Spec => []FirstRunsInOrder
<1>1. RconInv => FirstRunsInOrder
  <2> SUFFICES ASSUME RconInv, NEW j \in Events, NEW k \in Events, j < k, executed[k] > 0
               PROVE  executed[j] > 0
    BY DEF FirstRunsInOrder
  <2>1. /\ Types /\ Answered /\ executed[k] + Cardinality(Pending(k)) <= Attempts(k)
    BY DEF RconInv, Queues, Answers, Runs
  <2>2. /\ k \in Nat /\ j \in Nat /\ call \in Nat /\ executed[k] \in Nat
    BY <2>1, RconAssumption DEF Types, Events
  <2>3. Cardinality(Pending(k)) \in Nat
    <3>1. Pending(k) \in SUBSET (1..Len(link)) /\ Len(link) \in Nat
      BY <2>1 DEF Pending, Conns, Types
    <3> QED
      BY <3>1, BoundedSets
  <2>4. k <= call
    <3>1. CASE k > call
      BY <2>1, <2>2, <2>3, <3>1 DEF Attempts
    <3> QED
      BY <2>2, <3>1
  <2> QED
    BY <2>1, <2>2, <2>4 DEF Answered
<1> QED
  BY <1>1, RunsHold, PTL

================================================================================
