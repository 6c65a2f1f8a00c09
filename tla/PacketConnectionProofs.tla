------------------------ MODULE PacketConnectionProofs ------------------------
(***************************************************************************)
(* Proofs about PacketConnection, for any numbers of callers, dials, calls *)
(* and packets, and whether callers are hasty or not.                      *)
(***************************************************************************)
EXTENDS PacketConnection, TLAPS

USE DEF None, Hollow

-----------------------------------------------------------------------------
(***************************************************************************)
(* Types of the operators that the actions are built from.                 *)
(***************************************************************************)

\* Callers and threads have different names.
LEMMA ProcsApart == Callers \cap Ids = {} /\ None \notin Procs
<1>1. Callers \cap Int = {}
  BY DialAssumption
<1>2. Ids \subseteq Int /\ 0 \in Int /\ 0 \notin Ids
  BY SMT DEF Ids
<1> QED BY <1>1, <1>2 DEF Procs

LEMMA NoJobType == NoJob \in JobType
BY DEF NoJob, JobType, Errors

Excs == {"io", "early", "eof", "attribute", "login", "join", "version", "state"}

\* The locals with which a thread goes on are well formed.
LEMMA LocalsType ==
  ASSUME job \in [Ids -> JobType], NEW t \in Ids, NEW n \in Nat,
         NEW bad \in Errors,
         NEW exc \in Errors \cup Excs
  PROVE  Locals(t, n, bad, exc) \in JobType
BY NoJobType DEF Locals, NoJob, JobType, Errors, Excs

\* Where the end of a turn, a failure or a handled packet leads a thread.
Goes(t, ls) ==
  /\ \E l \in ls : pc' = [pc EXCEPT ![t] = l]
  /\ job' \in [Ids -> JobType]

LEMMA RaisesGoes ==
  ASSUME TypeOK, NEW t \in Ids, NEW exc \in Excs, Raises(t, exc)
  PROVE  Goes(t, {"raise"})
<1>1. Locals(t, 0, "none", exc) \in JobType
  BY LocalsType DEF TypeOK, Errors
<1> QED BY <1>1 DEF Raises, Goto, Goes, TypeOK

LEMMA EndTurnGoes ==
  ASSUME TypeOK, NEW t \in Ids, NEW bad \in Errors, EndTurn(t, bad)
  PROVE  Goes(t, {"raise", "turn"})
<1>1. Locals(t, 0, "none", "none") \in JobType
  BY LocalsType DEF TypeOK, Errors
<1>2. CASE bad # "none"
  <2>1. bad \in Excs /\ Raises(t, bad)
    BY <1>2 DEF EndTurn, Errors, Excs
  <2> QED BY <2>1, RaisesGoes, Zenon DEF Goes
<1>3. CASE bad = "none"
  BY <1>1, <1>3 DEF EndTurn, NewTurn, Goto, Goes, TypeOK
<1> QED BY <1>2, <1>3

LEMMA OnwardGoes ==
  ASSUME TypeOK, NEW t \in Ids, NEW n \in Nat, NEW bad \in Errors,
         Onward(t, n, bad)
  PROVE  Goes(t, {"read", "raise", "turn"})
<1>1. Locals(t, n, bad, "none") \in JobType
  BY LocalsType DEF TypeOK, Errors
<1>2. CASE EndTurn(t, bad)
  BY <1>2, EndTurnGoes, Zenon DEF Goes
<1>3. CASE Goto(t, "read") /\ job' = [job EXCEPT ![t] = Locals(t, n, bad, "none")]
  BY <1>1, <1>3 DEF Goto, Goes, TypeOK
<1> QED BY <1>2, <1>3 DEF Onward

LEMMA HandledGoes ==
  ASSUME TypeOK, NEW t \in Ids, Handled(t)
  PROVE  Goes(t, {"read", "raise", "turn"})
<1>1. job[t].num \in Nat /\ job[t].bad \in Errors
  BY DEF TypeOK, JobType
<1>2. (IF job[t].pkt = "disconnect" THEN "none" ELSE job[t].bad) \in Errors
  BY <1>1 DEF Errors
<1> QED BY <1>1, <1>2, OnwardGoes, Zenon DEF Handled

LEMMA ResumesGoes ==
  ASSUME TypeOK, NEW t \in Ids, Resumes(t)
  PROVE  Goes(t, {"raise", "turn", "narrow"})
<1>1. CASE Raises(t, "io") \/ Raises(t, "version")
  BY <1>1, RaisesGoes, Zenon DEF Goes, Excs
<1>2. CASE Goto(t, "narrow") /\ UNCHANGED job
  BY <1>2 DEF Goto, Goes, TypeOK
<1>3. CASE /\ Goto(t, "turn")
           /\ job' = [job EXCEPT ![t] =
                [Locals(t, 0, "none", "none") EXCEPT !.kicked = TRUE]]
  <2>1. Locals(t, 0, "none", "none") \in JobType
    BY LocalsType DEF TypeOK, Errors
  <2>2. [Locals(t, 0, "none", "none") EXCEPT !.kicked = TRUE] \in JobType
    BY <2>1 DEF JobType
  <2> QED BY <1>3, <2>2 DEF Goto, Goes, TypeOK
<1>4. CASE EndTurn(t, job[t].bad)
  <2>1. job[t].bad \in Errors
    BY DEF TypeOK, JobType
  <2> QED BY <1>4, <2>1, EndTurnGoes, Zenon DEF Goes
<1> QED BY <1>1, <1>2, <1>3, <1>4, Zenon DEF Resumes

\* A failed call returns to a program, or fails the thread that made it.
LEMMA CallFailsGoes ==
  ASSUME TypeOK, NEW p \in Procs, NEW exc \in Excs, CallFails(p, exc)
  PROVE  Goes(p, IF p \in Ids THEN {"raise", "report"} ELSE {"idle"})
<1>1. CASE p \notin Ids
  BY <1>1 DEF CallFails, Goto, Goes, TypeOK
<1>2. CASE p \in Ids /\ Raises(p, exc)
  BY <1>2, RaisesGoes, Zenon DEF Goes
<1>3. CASE p \in Ids /\ Goto(p, "report") /\ job' = [job EXCEPT ![p].exc = exc]
  <2>1. job[p] \in JobType
    BY <1>3 DEF TypeOK
  <2>2. [job[p] EXCEPT !.exc = exc] \in JobType
    BY <2>1 DEF JobType, Excs, Errors
  <2> QED BY <1>3, <2>2 DEF Goto, Goes, TypeOK
<1> QED BY <1>1, <1>2, <1>3, Zenon DEF CallFails

PcOK ==
  /\ pc \in [Procs -> ThreadPCs \cup CallerPCs]
  /\ \A c \in Callers : pc[c] \in CallerPCs
  /\ \A t \in Ids : pc[t] \in ThreadPCs

LEMMA PcType ==
  ASSUME TypeOK, NEW p \in Procs, NEW l, pc' = [pc EXCEPT ![p] = l],
         p \in Ids => l \in ThreadPCs, p \notin Ids => l \in CallerPCs
  PROVE  PcOK'
<1>1. p \in Ids \/ p \in Callers
  BY DEF Procs
<1>2. p \in Callers => p \notin Ids
  BY ProcsApart
<1>3. pc' \in [Procs -> ThreadPCs \cup CallerPCs]
  BY <1>1, <1>2 DEF TypeOK
<1>4. ASSUME NEW c \in Callers PROVE pc'[c] \in CallerPCs
  BY <1>1, <1>2, ProcsApart DEF TypeOK, Procs
<1>5. ASSUME NEW t \in Ids PROVE pc'[t] \in ThreadPCs
  BY <1>1, <1>2 DEF TypeOK, Procs
<1> QED BY <1>3, <1>4, <1>5 DEF PcOK

LEMMA GoesType ==
  ASSUME TypeOK, NEW t \in Ids, NEW ls \in SUBSET ThreadPCs, Goes(t, ls)
  PROVE  PcOK' /\ job' \in [Ids -> JobType]
<1>1. PICK l \in ls : pc' = [pc EXCEPT ![t] = l]
  BY DEF Goes
<1>2. t \in Procs
  BY DEF Procs
<1> QED BY <1>1, <1>2, PcType DEF Goes

\* The server's next phase is a phase, and a packet that is sent or lost leaves
\* well-formed ends.
LEMMA SentType ==
  ASSUME TypeOK, NEW k \in Serverbound, Sent(k)
  PROVE  net' \in [Ids -> EndType]
<1>1. CASE UNCHANGED net
  BY <1>1 DEF TypeOK
<1>2. ASSUME conn.socket \in Ids, NEW to \in Phases,
             net' = [net EXCEPT ![conn.socket].srv = to,
               ![conn.socket].key =
                  IF k = "encryption response" THEN conn.socket ELSE @]
      PROVE  net' \in [Ids -> EndType]
  <2> DEFINE s == conn.socket
  <2>1. s \in Ids /\ net[s] \in EndType
    BY <1>2 DEF TypeOK
  <2>2. [net[s] EXCEPT !.srv = to,
           !.key = IF k = "encryption response" THEN s ELSE @] \in EndType
    BY <2>1, <1>2 DEF EndType
  <2> QED BY <1>2, <2>1, <2>2 DEF TypeOK
<1> QED BY <1>1, <1>2 DEF Sent

LEMMA ClosedType ==
  ASSUME TypeOK
  PROVE  /\ ClosedEnds \in [Ids -> EndType]
         /\ ClosedConn \in ConnType
         /\ Interrupted \in [Ids -> BOOLEAN]
<1>1. ClosedEnds \in [Ids -> EndType]
  <2>1. ASSUME NEW e \in EndType PROVE ClosedEnd(e) \in EndType
    BY DEF ClosedEnd, EndType, Links, Phases
  <2> QED BY <2>1 DEF ClosedEnds, TypeOK
<1>2. ClosedConn \in ConnType
  BY DEF ClosedConn, ConnType, TypeOK
<1>3. Interrupted \in [Ids -> BOOLEAN]
  BY DEF Interrupted, TypeOK
<1> QED BY <1>1, <1>2, <1>3

-----------------------------------------------------------------------------
(***************************************************************************)
(* Type correctness.  Reading is typed because a thread that has begun has *)
(* a file object to read from, which is part of ThreadInv.                 *)
(***************************************************************************)
USE DEF threadVars

LEMMA InitType == Init => TypeOK
<1> SUFFICES ASSUME Init PROVE TypeOK
  OBVIOUS
<1>1. job \in [Ids -> JobType]
  BY NoJobType DEF Init
<1>2. net \in [Ids -> EndType]
  BY DEF Init, NoEnd, EndType, Phases, Links
<1>3. conn \in ConnType
  BY DEF Init, ConnType, Reactors
<1>4. PcOK
  <2>1. \A t \in Ids : t \notin Callers
    BY ProcsApart
  <2> QED BY <2>1 DEF Init, PcOK, Procs, ThreadPCs, CallerPCs
<1>5. dials \in 0..MaxDials /\ calls \in 0..MaxCalls
  <2>1. MaxDials \in Nat /\ MaxCalls \in Nat
    BY DialAssumption
  <2>2. dials = 0 /\ calls = 0
    BY DEF Init
  <2> QED BY <2>1, <2>2
<1>6. /\ interrupt \in [Ids -> BOOLEAN] /\ previous_thread \in [Ids -> Ids \cup {None}]
      /\ networking_thread \in Ids \cup {None} /\ lock \in Procs \cup {None}
      /\ new_networking_thread \in Ids \cup {None} /\ want \in {"play", "status", "ping"}
  BY DEF Init
<1> QED BY <1>1, <1>2, <1>3, <1>4, <1>5, <1>6, Zenon DEF TypeOK, PcOK

\* A step that leaves everything but these variables alone.
Rest ==
  /\ lock' \in Procs \cup {None} /\ PcOK' /\ job' \in [Ids -> JobType]
  /\ conn' \in ConnType /\ net' \in [Ids -> EndType]
  /\ UNCHANGED <<networking_thread, new_networking_thread, interrupt,
                 previous_thread, want, dials, calls>>

LEMMA RestType == ASSUME TypeOK, Rest PROVE TypeOK'
BY DEF Rest, TypeOK, PcOK

LEMMA QueueTail ==
  ASSUME TypeOK, conn.queue # <<>>
  PROVE  /\ [conn EXCEPT !.queue = Tail(@)] \in ConnType
         /\ Head(conn.queue) \in Serverbound
<1>1. conn.queue \in Seq(Serverbound) /\ conn \in ConnType
  BY DEF TypeOK, ConnType
<1>2. Tail(conn.queue) \in Seq(Serverbound) /\ Head(conn.queue) \in Serverbound
  BY <1>1
<1> QED BY <1>1, <1>2 DEF ConnType

LEMMA LoopType ==
  ASSUME TypeOK, NEW t \in Ids, Turn(t) \/ Write(t) \/ Written(t)
  PROVE  TypeOK'
<1>0. t \in Procs /\ job[t] \in JobType /\ job[t].num \in Nat
  BY DEF TypeOK, Procs, JobType
<1>1. CASE Turn(t)
  <2>1. \E l \in {"exit", "writing"} : pc' = [pc EXCEPT ![t] = l]
    BY <1>1 DEF Turn, Goto
  <2>2. PcOK'
    BY <1>0, <2>1, PcType DEF ThreadPCs
  <2> QED BY <1>0, <1>1, <2>2, RestType DEF Rest, Turn, TypeOK
<1>2. CASE Write(t)
  <2>1. /\ conn' \in ConnType /\ Head(conn.queue) \in Serverbound
        /\ UNCHANGED <<networking_thread, new_networking_thread, interrupt,
                       previous_thread, want, dials, calls>>
    BY <1>2, QueueTail DEF Write, MorePackets
  <2>2. CASE /\ Sent(Head(conn.queue))
             /\ job' = [job EXCEPT ![t].num = @ + 1]
             /\ UNCHANGED <<lock, pc>>
    <3>1. [job[t] EXCEPT !.num = @ + 1] \in JobType
      BY <1>0 DEF JobType
    <3>2. net' \in [Ids -> EndType]
      BY <2>1, <2>2, SentType
    <3> QED BY <2>1, <2>2, <3>1, <3>2, RestType DEF Rest, TypeOK, PcOK
  <2>3. CASE /\ lock' = None /\ UNCHANGED net
             /\ \E bad \in Errors : Onward(t, job[t].num, bad)
    <3>1. Goes(t, {"read", "raise", "turn"})
      BY <1>0, <2>3, OnwardGoes
    <3>2. PcOK' /\ job' \in [Ids -> JobType]
      BY <3>1, GoesType DEF ThreadPCs
    <3> QED BY <2>1, <2>3, <3>2, RestType DEF Rest, TypeOK
  <2>4. CASE lock' = None /\ UNCHANGED net /\ Raises(t, "attribute")
    <3>1. Goes(t, {"raise"})
      BY <2>4, RaisesGoes DEF Excs
    <3>2. PcOK' /\ job' \in [Ids -> JobType]
      BY <3>1, GoesType DEF ThreadPCs
    <3> QED BY <2>1, <2>4, <3>2, RestType DEF Rest, TypeOK
  <2>5. Error(Head(conn.queue)) \in Errors
    BY DEF Error, Errors
  <2> QED BY <1>2, <2>2, <2>3, <2>4, <2>5, Zenon DEF Write
<1>3. CASE Written(t)
  <2>1. Goes(t, {"read", "raise", "turn"})
    BY <1>0, <1>3, OnwardGoes DEF Written, Errors
  <2>2. PcOK' /\ job' \in [Ids -> JobType]
    BY <2>1, GoesType DEF ThreadPCs
  <2> QED BY <1>3, <2>2, RestType DEF Rest, Written, TypeOK
<1> QED BY <1>1, <1>2, <1>3

LEMMA ReadType ==
  ASSUME TypeOK, conn.file_object \in Ids, NEW t \in Ids, Read(t)
  PROVE  TypeOK'
<1> DEFINE s == conn.file_object
<1>0. net[s] \in EndType /\ job[t] \in JobType /\ job[t].bad \in Errors
  BY DEF TypeOK, JobType
<1>1. UNCHANGED <<lock, networking_thread, new_networking_thread, interrupt,
                  previous_thread, conn, want, dials, calls>>
  BY DEF Read
<1>2. CASE /\ UNCHANGED net
           /\ Raises(t, "io") \/ Raises(t, "eof") \/ EndTurn(t, job[t].bad)
  <2>1. Goes(t, {"raise", "turn"})
    BY <1>0, <1>2, RaisesGoes, EndTurnGoes, Zenon DEF Excs, Goes
  <2>2. PcOK' /\ job' \in [Ids -> JobType]
    BY <2>1, GoesType DEF ThreadPCs
  <2> QED BY <1>1, <1>2, <2>2, RestType DEF Rest, TypeOK
<1>3. CASE UNCHANGED net /\ Goto(t, "stuck") /\ UNCHANGED job
  <2>1. PcOK'
    BY <1>3, PcType DEF Goto, Procs, ThreadPCs
  <2> QED BY <1>1, <1>3, <2>1, RestType DEF Rest, TypeOK
<1>4. CASE /\ net[s].inbox # <<>> /\ Goto(t, "react")
           /\ job' = [job EXCEPT ![t].pkt = Head(net[s].inbox), ![t].num = @ + 1]
           /\ net' = [net EXCEPT ![s].inbox = Tail(@)]
  <2>1. net[s].inbox \in Seq(Clientbound) /\ job[t].num \in Nat
    BY <1>0 DEF EndType, JobType
  <2>2. /\ Head(net[s].inbox) \in Clientbound /\ job[t].num + 1 \in Nat
        /\ Tail(net[s].inbox) \in Seq(Clientbound)
    BY <1>4, <2>1
  <2>3. [job[t] EXCEPT !.pkt = Head(net[s].inbox), !.num = @ + 1] \in JobType
    BY <1>0, <2>2 DEF JobType
  <2>4. [net[s] EXCEPT !.inbox = Tail(@)] \in EndType
    BY <1>0, <2>2 DEF EndType
  <2>5. PcOK'
    BY <1>4, PcType DEF Goto, Procs, ThreadPCs
  <2> QED BY <1>1, <1>4, <2>3, <2>4, <2>5, RestType DEF Rest, TypeOK
<1> QED BY <1>2, <1>3, <1>4, Zenon DEF Read

LEMMA QueuesType ==
  ASSUME NEW r, NEW k PROVE Queues(r, k) \in Seq(Serverbound)
<1>1. \A x \in Serverbound : <<x>> \in Seq(Serverbound)
  OBVIOUS
<1>2. <<>> \in Seq(Serverbound)
  OBVIOUS
<1>3. {"plugin response", "keep alive", "position", "ping"} \subseteq Serverbound
  BY DEF Serverbound
<1> QED BY <1>1, <1>2, <1>3, Zenon DEF Queues

LEMMA ReactType ==
  ASSUME TypeOK, NEW t \in Ids, React(t)
  PROVE  TypeOK'
<1> DEFINE r == conn.reactor
           k == job[t].pkt
<1>0. /\ t \in Procs /\ job[t] \in JobType /\ conn \in ConnType
      /\ UNCHANGED <<networking_thread, new_networking_thread, interrupt,
                     previous_thread, want, net, dials, calls>>
  BY DEF React, TypeOK, Procs
<1>1. CASE (Goto(t, "join") \/ Goto(t, "answer")) /\ UNCHANGED <<job, conn, lock>>
  <2>1. PcOK'
    BY <1>0, <1>1, PcType DEF Goto, ThreadPCs
  <2> QED BY <1>0, <1>1, <2>1, RestType DEF Rest, TypeOK
<1>2. CASE Raises(t, "login") /\ UNCHANGED <<conn, lock>>
  <2>1. Goes(t, {"raise"})
    BY <1>2, RaisesGoes DEF Excs
  <2>2. PcOK' /\ job' \in [Ids -> JobType]
    BY <2>1, GoesType DEF ThreadPCs
  <2> QED BY <1>0, <1>2, <2>2, RestType DEF Rest, TypeOK
<1>3. CASE /\ lock' = t /\ conn' = [conn EXCEPT !.connected = FALSE]
           /\ job' = [job EXCEPT ![t].via = r] /\ Goto(t, "closing")
  <2>1. r \in Reactors /\ [conn EXCEPT !.connected = FALSE] \in ConnType
    BY <1>0 DEF ConnType
  <2>2. [job[t] EXCEPT !.via = r] \in JobType
    BY <1>0, <2>1 DEF JobType
  <2>3. PcOK'
    BY <1>0, <1>3, PcType DEF Goto, ThreadPCs
  <2> QED BY <1>0, <1>3, <2>1, <2>2, <2>3, RestType DEF Rest, TypeOK
<1>4. CASE /\ conn' = [conn EXCEPT
                !.reactor = IF r = "login" /\ k = "success" THEN "play" ELSE @,
                !.zip = @ \/ (r \in {"login", "play"} /\ k = "set compression"),
                !.queue = @ \o Queues(r, k)]
           /\ Handled(t) /\ UNCHANGED lock
  <2>1. Queues(r, k) \in Seq(Serverbound) /\ conn.queue \in Seq(Serverbound)
    BY <1>0, QueuesType DEF ConnType
  <2>2. conn.queue \o Queues(r, k) \in Seq(Serverbound)
    BY <2>1
  <2>3. conn' \in ConnType
    BY <1>0, <1>4, <2>2 DEF ConnType, Reactors
  <2>4. PcOK' /\ job' \in [Ids -> JobType]
    BY <1>4, HandledGoes, GoesType DEF ThreadPCs
  <2> QED BY <1>0, <1>4, <2>3, <2>4, RestType DEF Rest, TypeOK
<1> QED BY <1>1, <1>2, <1>3, <1>4, Zenon DEF React

LEMMA LoginType ==
  ASSUME TypeOK, NEW t \in Ids,
         (\E a \in BOOLEAN : Join(t, a)) \/ Answer(t) \/ Wrap(t)
  PROVE  TypeOK'
<1>0. /\ t \in Procs /\ conn \in ConnType
      /\ UNCHANGED <<networking_thread, new_networking_thread, interrupt,
                     previous_thread, want, dials, calls>>
  BY DEF Join, Answer, Wrap, TypeOK, Procs
<1>1. CASE \E a \in BOOLEAN : Join(t, a)
  <2>0. UNCHANGED <<lock, conn, net>>
    BY <1>1 DEF Join
  <2>1. CASE Goto(t, "answer") /\ UNCHANGED job
    <3>1. PcOK'
      BY <1>0, <2>1, PcType DEF Goto, ThreadPCs
    <3> QED BY <1>0, <2>0, <2>1, <3>1, RestType DEF Rest, TypeOK
  <2>2. CASE Raises(t, "join")
    <3>1. PcOK' /\ job' \in [Ids -> JobType]
      BY <2>2, RaisesGoes, GoesType DEF ThreadPCs, Excs
    <3> QED BY <1>0, <2>0, <3>1, RestType DEF Rest, TypeOK
  <2> QED BY <1>1, <2>1, <2>2, Zenon DEF Join
<1>2. CASE Answer(t)
  <2>0. UNCHANGED <<lock, conn>>
    BY <1>2 DEF Answer
  <2>1. CASE Sent("encryption response") /\ Goto(t, "wrap") /\ UNCHANGED job
    <3>1. PcOK'
      BY <1>0, <2>1, PcType DEF Goto, ThreadPCs
    <3>2. net' \in [Ids -> EndType]
      BY <2>1, SentType DEF Serverbound
    <3> QED BY <1>0, <2>0, <2>1, <3>1, <3>2, RestType DEF Rest, TypeOK
  <2>2. CASE (Raises(t, "io") \/ Raises(t, "attribute")) /\ UNCHANGED net
    <3>1. Goes(t, {"raise"})
      BY <2>2, RaisesGoes, Zenon DEF Excs
    <3>2. PcOK' /\ job' \in [Ids -> JobType]
      BY <3>1, GoesType DEF ThreadPCs
    <3> QED BY <1>0, <2>0, <2>2, <3>2, RestType DEF Rest, TypeOK
  <2> QED BY <1>2, <2>1, <2>2, Zenon DEF Answer
<1>3. CASE Wrap(t)
  <2>0. /\ conn' = [conn EXCEPT !.socket = IF @ = None THEN Hollow ELSE @,
                                !.key = t]
    BY <1>3, Zenon DEF Wrap
  <2>4. conn.socket \in Ids \cup {None, Hollow}
    BY <1>0 DEF ConnType
  <2>1. ASSUME NEW x \in Ids \cup {None, Hollow}
        PROVE  [conn EXCEPT !.socket = x, !.key = t] \in ConnType
    BY <1>0 DEF ConnType
  <2>3. conn' \in ConnType
    BY <2>0, <2>1, <2>4
  <2>2. PcOK' /\ job' \in [Ids -> JobType]
    BY <1>3, HandledGoes, GoesType DEF ThreadPCs, Wrap
  <2> QED BY <1>0, <1>3, <2>3, <2>2, RestType DEF Rest, TypeOK, Wrap
<1> QED BY <1>1, <1>2, <1>3

LEMMA FlushType ==
  ASSUME TypeOK, NEW p \in Procs, Flush(p)
  PROVE  TypeOK'
<1>1. /\ conn' \in ConnType /\ Head(conn.queue) \in Serverbound
      /\ UNCHANGED <<networking_thread, new_networking_thread, interrupt,
                     previous_thread, want, dials, calls>>
  BY QueueTail DEF Flush
<1>2. CASE Sent(Head(conn.queue)) /\ UNCHANGED <<lock, pc, job>>
  <2>1. net' \in [Ids -> EndType]
    BY <1>1, <1>2, SentType
  <2> QED BY <1>1, <1>2, <2>1, RestType DEF Rest, TypeOK, PcOK
<1>3. CASE /\ lock' = None /\ UNCHANGED net
           /\ \/ p \in Ids /\ (Raises(p, "attribute") \/ Raises(p, "io"))
              \/ p \notin Ids /\ Goto(p, "idle") /\ UNCHANGED job
  <2>1. ASSUME p \in Ids, Raises(p, "attribute") \/ Raises(p, "io")
        PROVE  PcOK' /\ job' \in [Ids -> JobType]
    <3>1. Goes(p, {"raise"})
      BY <2>1, RaisesGoes, Zenon DEF Excs
    <3> QED BY <2>1, <3>1, GoesType DEF ThreadPCs
  <2>2. ASSUME p \notin Ids, Goto(p, "idle"), UNCHANGED job
        PROVE  PcOK' /\ job' \in [Ids -> JobType]
    BY <2>2, PcType DEF Goto, CallerPCs, TypeOK
  <2> QED BY <1>1, <1>3, <2>1, <2>2, RestType DEF Rest, TypeOK
<1> QED BY <1>2, <1>3, Zenon DEF Flush

LEMMA CloseType ==
  ASSUME TypeOK, NEW p \in Procs, Close(p)
  PROVE  TypeOK'
<1>1. /\ lock' = None /\ net' = ClosedEnds /\ interrupt' = Interrupted
      /\ UNCHANGED <<networking_thread, new_networking_thread,
                     previous_thread, want, dials, calls>>
  BY DEF Close
<1>2. conn' \in ConnType
  BY ClosedType DEF Close
<1>3. CASE p \in Ids /\ Raises(p, "attribute")
  <2>1. PcOK' /\ job' \in [Ids -> JobType]
    BY <1>3, RaisesGoes, GoesType DEF ThreadPCs, Excs
  <2> QED BY <1>1, <1>2, <2>1, ClosedType DEF TypeOK, PcOK
<1>4. CASE p \in Ids /\ Resumes(p)
  <2>1. PcOK' /\ job' \in [Ids -> JobType]
    BY <1>4, ResumesGoes, GoesType DEF ThreadPCs
  <2> QED BY <1>1, <1>2, <2>1, ClosedType DEF TypeOK, PcOK
<1>5. CASE p \notin Ids /\ Goto(p, "idle") /\ UNCHANGED job
  <2>1. PcOK'
    BY <1>5, PcType DEF Goto, CallerPCs
  <2> QED BY <1>1, <1>2, <1>5, <2>1, ClosedType DEF TypeOK, PcOK
<1> QED BY <1>3, <1>4, <1>5, Zenon DEF Close

\* A failed call is typed, whoever made it.
LEMMA CallFailsType ==
  ASSUME TypeOK, NEW p \in Procs, NEW exc \in Excs, CallFails(p, exc)
  PROVE  PcOK' /\ job' \in [Ids -> JobType]
<1>1. CASE p \in Ids
  <2>1. Goes(p, {"raise", "report"})
    BY <1>1, CallFailsGoes
  <2> QED BY <1>1, <2>1, GoesType DEF ThreadPCs
<1>2. CASE p \notin Ids
  BY <1>2, PcType DEF CallFails, Goto, CallerPCs, TypeOK
<1> QED BY <1>1, <1>2

LEMMA NextId == dials < MaxDials /\ TypeOK => dials + 1 \in Ids /\ dials + 1 \in 0..MaxDials
<1>1. MaxDials \in Nat
  BY DialAssumption
<1>2. SUFFICES ASSUME dials < MaxDials, TypeOK
               PROVE  dials + 1 \in Ids /\ dials + 1 \in 0..MaxDials
  OBVIOUS
<1>3. dials \in 0..MaxDials
  BY <1>2 DEF TypeOK
<1> QED BY <1>1, <1>2, <1>3, SMT DEF Ids

LEMMA DialType ==
  ASSUME TypeOK, NEW p \in Procs, NEW w \in {"play", "status", "ping"},
         Dial(p, w), calls' \in 0..MaxCalls
  PROVE  TypeOK'
<1>1. CASE CallFails(p, "state") /\ UNCHANGED <<lock, conn, want, dials, threadVars, net>>
  <2>1. PcOK' /\ job' \in [Ids -> JobType]
    BY <1>1, CallFailsType DEF Excs
  <2> QED BY <1>1, <2>1 DEF TypeOK, PcOK
<1>2. CASE /\ dials < MaxDials /\ dials' = dials + 1
           /\ lock' = p /\ want' = w
           /\ conn' = [conn EXCEPT !.queue = <<>>]
           /\ Goto(p, "opening") /\ UNCHANGED <<job, threadVars, net>>
  <2>0. <<>> \in Seq(Serverbound) /\ conn \in ConnType
    BY DEF TypeOK
  <2>1. conn' \in ConnType
    BY <1>2, <2>0 DEF ConnType
  <2>2. PcOK'
    BY <1>2, PcType DEF Goto, CallerPCs, ThreadPCs
  <2> QED BY <1>2, <2>1, <2>2, NextId DEF TypeOK, PcOK
<1> QED BY <1>1, <1>2, Zenon DEF Dial

LEMMA AppendType ==
  ASSUME NEW c \in ConnType, NEW k \in Serverbound
  PROVE  Append1(c, k) \in ConnType
<1>1. Append(c.queue, k) \in Seq(Serverbound)
  BY DEF ConnType
<1> QED BY <1>1 DEF Append1, ConnType

LEMMA RefuseType ==
  ASSUME TypeOK, NEW p \in Procs, Refuse(p), dials \in Ids
  PROVE  TypeOK'
<1>1. PcOK' /\ job' \in [Ids -> JobType]
  BY CallFailsType DEF Excs, Refuse
<1>2. [conn EXCEPT !.socket = dials, !.key = None] \in ConnType /\ conn \in ConnType
  BY DEF TypeOK, ConnType
<1>3. conn' \in ConnType
  BY <1>2 DEF Refuse
<1> QED BY <1>1, <1>3 DEF TypeOK, PcOK, Refuse

LEMMA OpenType ==
  ASSUME TypeOK, NEW p \in Procs, Open(p), dials \in Ids
  PROVE  TypeOK'
<1>1. ASSUME NEW c \in ConnType
      PROVE  [c EXCEPT !.socket = dials, !.file_object = dials, !.key = None,
                !.zip = FALSE, !.connected = TRUE] \in ConnType
  BY <1>1 DEF ConnType
<1>2. ASSUME NEW k \in Serverbound PROVE Append1(conn, k) \in ConnType
  BY <1>2, AppendType DEF TypeOK
<1>3. \E k \in {"hello login", "hello status"} :
        conn' = [Append1(conn, k) EXCEPT !.socket = dials, !.file_object = dials,
                   !.key = None, !.zip = FALSE, !.connected = TRUE]
  BY Zenon DEF Open
<1>4. conn' \in ConnType
  BY <1>1, <1>2, <1>3 DEF Serverbound
<1>5. net' \in [Ids -> EndType]
  <2>1. ASSUME NEW e \in EndType PROVE [e EXCEPT !.link = "up"] \in EndType
    BY <2>1 DEF EndType, Links
  <2> QED BY <2>1 DEF Open, TypeOK
<1>6. PcOK'
  BY PcType DEF Open, Goto, CallerPCs, ThreadPCs
<1> QED BY <1>4, <1>5, <1>6 DEF TypeOK, PcOK, Open

LEMMA GoType ==
  ASSUME TypeOK, NEW p \in Procs, Go(p), dials \in Ids
  PROVE  TypeOK'
<1>1. conn' \in ConnType
  <2>1. ASSUME NEW c \in ConnType, NEW r \in Reactors
        PROVE  [c EXCEPT !.reactor = r] \in ConnType
    BY <2>1 DEF ConnType
  <2>2. ASSUME NEW k \in Serverbound PROVE Append1(conn, k) \in ConnType
    BY <2>2, AppendType DEF TypeOK
  <2>3. want \in Reactors /\ "login" \in Reactors /\ "query" \in Reactors
    BY DEF TypeOK, Reactors
  <2>4. \E k \in {"start", "request"}, r \in Reactors :
          conn' = [Append1(conn, k) EXCEPT !.reactor = r]
    BY <2>3, Zenon DEF Go
  <2>5. PICK k \in {"start", "request"}, r \in Reactors :
          conn' = [Append1(conn, k) EXCEPT !.reactor = r]
    BY <2>4
  <2>6. Append1(conn, k) \in ConnType
    BY <2>2 DEF Serverbound
  <2> QED BY <2>1, <2>5, <2>6
<1>2. PcOK'
  <2> DEFINE first == IF networking_thread = None THEN "turn" ELSE "wait"
             next == IF p \notin Ids THEN "idle"
                     ELSE IF job[p].via = "handler" THEN "final"
                     ELSE IF job[p].bad # "none" THEN "raise" ELSE "turn"
  <2>1. pc' = [pc EXCEPT ![dials] = first, ![p] = next]
    BY DEF Go
  <2>2. /\ first \in ThreadPCs
        /\ next \in ThreadPCs \cup CallerPCs
        /\ p \in Ids => next \in ThreadPCs
        /\ p \notin Ids => next \in CallerPCs
    BY DEF ThreadPCs, CallerPCs
  <2>3. pc \in [Procs -> ThreadPCs \cup CallerPCs] /\ dials \in Procs
    BY DEF TypeOK, Procs
  <2> HIDE DEF first, next
  <2>4. pc' \in [Procs -> ThreadPCs \cup CallerPCs]
    BY <2>1, <2>2, <2>3
  <2>5. ASSUME NEW c \in Callers PROVE pc'[c] \in CallerPCs
    BY <2>1, <2>2, <2>3, ProcsApart DEF TypeOK, Procs
  <2>6. ASSUME NEW t \in Ids PROVE pc'[t] \in ThreadPCs
    BY <2>1, <2>2, <2>3 DEF TypeOK, Procs
  <2> QED BY <2>4, <2>5, <2>6 DEF PcOK
<1>3. job' \in [Ids -> JobType]
  <2>1. ASSUME p \in Ids, NEW exc \in Errors
        PROVE  [Locals(p, 0, "none", exc) EXCEPT !.next = TRUE] \in JobType
    <3>1. Locals(p, 0, "none", exc) \in JobType
      BY <2>1, LocalsType DEF TypeOK, Errors
    <3> QED BY <3>1 DEF JobType
  <2>3. p \in Ids => job[p].bad \in Errors
    BY DEF TypeOK, JobType
  <2>2. \/ job' = job
        \/ p \in Ids /\ \E exc \in Errors :
             job' = [job EXCEPT ![p] = [Locals(p, 0, "none", exc) EXCEPT !.next = TRUE]]
    BY <2>3, Zenon DEF Go
  <2> QED BY <2>1, <2>2 DEF TypeOK
<1>4. /\ networking_thread' \in Ids \cup {None}
      /\ new_networking_thread' \in Ids \cup {None}
      /\ previous_thread' \in [Ids -> Ids \cup {None}]
  BY DEF Go, TypeOK
<1> QED BY <1>1, <1>2, <1>3, <1>4 DEF TypeOK, PcOK, Go

LEMMA ExitType ==
  ASSUME TypeOK, NEW t \in Ids,
         \/ Wait(t) \/ Raise(t) \/ Handle(t) \/ Clear(t) \/ Narrow(t)
         \/ Report(t) \/ Exit(t) \/ Final(t)
  PROVE  TypeOK'
<1>0. t \in Procs /\ job[t] \in JobType
  BY DEF Procs, TypeOK
<1>1. CASE Wait(t)
  <2>1. PcOK'
    BY <1>0, <1>1, PcType DEF Wait, Goto, ThreadPCs
  <2> QED BY <1>1, <2>1 DEF Wait, TypeOK, PcOK
<1>2. CASE Raise(t)
  <2>1. PcOK'
    BY <1>0, <1>2, PcType DEF Raise, Goto, ThreadPCs
  <2>2. [interrupt EXCEPT ![t] = TRUE] \in [Ids -> BOOLEAN]
    BY DEF TypeOK
  <2> QED BY <1>2, <2>1, <2>2 DEF TypeOK, PcOK, Raise
<1>6. CASE Handle(t)
  <2>1. PcOK'
    BY <1>0, <1>6, PcType DEF Handle, Goto, ThreadPCs
  <2> QED BY <1>6, <2>1 DEF TypeOK, PcOK, Handle
<1>7. CASE Clear(t)
  <2>1. PcOK'
    BY <1>0, <1>7, PcType DEF Clear, Goto, ThreadPCs
  <2>2. [job[t] EXCEPT !.via = "handler"] \in JobType
    BY <1>0 DEF JobType
  <2>3. [job EXCEPT ![t].via = "handler"] \in [Ids -> JobType]
    BY <2>2 DEF TypeOK
  <2> QED BY <1>7, <2>1, <2>3, ClosedType DEF TypeOK, PcOK, Clear
<1>8. CASE Narrow(t)
  <2>1. PcOK'
    BY <1>0, <1>8, PcType DEF Narrow, Goto, ThreadPCs
  <2>2. [conn EXCEPT !.allowed = "one"] \in ConnType
    BY DEF TypeOK, ConnType
  <2> QED BY <1>8, <2>1, <2>2 DEF TypeOK, PcOK, Narrow
<1>3. CASE Report(t)
  <2>1. PcOK'
    BY <1>0, <1>3, PcType DEF Report, Goto, ThreadPCs
  <2>2. Locals(t, 0, "none", "none") \in JobType
    BY LocalsType DEF TypeOK, Errors
  <2>3. [Locals(t, 0, "none", "none") EXCEPT !.told = "exception"] \in JobType
    BY <2>2 DEF JobType
  <2> QED BY <1>3, <2>1, <2>3, ClosedType DEF TypeOK, PcOK, Report
<1>4. CASE Exit(t)
  <2>1. PcOK'
    BY <1>0, <1>4, PcType DEF Exit, Goto, ThreadPCs
  <2>2. \A x \in {job[t].told, "exit"} : [job[t] EXCEPT !.told = x] \in JobType
    BY <1>0 DEF JobType
  <2>3. \E x \in {job[t].told, "exit"} : job' = [job EXCEPT ![t] = [job[t] EXCEPT !.told = x]]
    BY <1>4, Zenon DEF Exit
  <2> QED BY <1>4, <2>1, <2>2, <2>3 DEF TypeOK, PcOK, Exit
<1>5. CASE Final(t)
  <2>1. PcOK'
    BY <1>0, <1>5, PcType DEF Final, Goto, ThreadPCs
  <2>4. <<>> \in Seq(Clientbound)
    OBVIOUS
  <2>2. ASSUME NEW e \in EndType PROVE [e EXCEPT !.inbox = <<>>] \in EndType
    BY <2>2, <2>4 DEF EndType
  <2>3. net' \in [Ids -> EndType]
    BY <1>5, <2>2 DEF Final, TypeOK
  <2> QED BY <1>5, <2>1, <2>3 DEF TypeOK, PcOK, Final
<1> QED BY <1>1, <1>2, <1>3, <1>4, <1>5, <1>6, <1>7, <1>8

LEMMA CallsType == ASSUME TypeOK, NEW c, Calls(c) PROVE calls' \in 0..MaxCalls
<1>1. MaxCalls \in Nat
  BY DialAssumption
<1>2. calls \in 0..MaxCalls /\ calls < MaxCalls /\ calls' = calls + 1
  BY DEF Calls, TypeOK
<1> QED BY <1>1, <1>2

LEMMA CallerType ==
  ASSUME TypeOK, NEW c \in Callers, CallerStep(c)
  PROVE  TypeOK'
<1>0. c \in Procs /\ calls' \in 0..MaxCalls
  BY CallsType DEF CallerStep, Connect, Disconnect, Chat, ChatNow, Procs
<1>1. ASSUME NEW w \in {"play", "status", "ping"}, Connect(c, w) PROVE TypeOK'
  BY <1>0, <1>1, DialType DEF Connect
<1>2. ASSUME NEW i \in BOOLEAN, Disconnect(c, i) PROVE TypeOK'
  <2>0. UNCHANGED <<networking_thread, new_networking_thread, previous_thread,
                    job, want, dials>>
    BY <1>2 DEF Disconnect
  <2>1. CASE /\ interrupt' = Interrupted /\ net' = ClosedEnds
             /\ conn' = ClosedConn /\ UNCHANGED <<lock, pc>>
    BY <1>0, <2>0, <2>1, ClosedType DEF TypeOK
  <2>2. CASE /\ lock' = c /\ Goto(c, "closing")
             /\ conn' = [conn EXCEPT !.connected = FALSE]
             /\ UNCHANGED <<interrupt, net>>
    <3>1. PcOK'
      BY <1>0, <2>2, PcType DEF Goto, ThreadPCs, CallerPCs
    <3>2. conn' \in ConnType
      BY <2>2 DEF TypeOK, ConnType
    <3> QED BY <1>0, <2>0, <2>2, <3>1, <3>2 DEF TypeOK, PcOK
  <2> QED BY <1>2, <2>1, <2>2, Zenon DEF Disconnect
<1>3. CASE Chat(c)
  <2>1. conn' \in ConnType
    BY <1>3, AppendType DEF Chat, ChatLine, TypeOK, Serverbound
  <2> QED BY <1>0, <1>3, <2>1 DEF Chat, TypeOK
<1>4. CASE ChatNow(c)
  <2>1. CASE Sent(ChatLine)
    <3>1. net' \in [Ids -> EndType]
      BY <2>1, SentType DEF ChatLine, Serverbound
    <3> QED BY <1>0, <1>4, <3>1 DEF ChatNow, TypeOK
  <2>2. CASE UNCHANGED net
    BY <1>0, <1>4, <2>2 DEF ChatNow, TypeOK
  <2> QED BY <1>4, <2>1, <2>2 DEF ChatNow
<1> QED BY <1>1, <1>2, <1>3, <1>4 DEF CallerStep

LEMMA ServerType ==
  ASSUME TypeOK, NEW s \in Ids, Server(s)
  PROVE  TypeOK'
<1>1. ASSUME NEW from, NEW k \in Clientbound, NEW to \in Phases, Says(s, from, k, to)
      PROVE  net' \in [Ids -> EndType]
  <2>1. ASSUME NEW e \in EndType
        PROVE  [e EXCEPT !.inbox = Append(@, k), !.srv = to,
                         !.zip = @ \/ k = "set compression"] \in EndType
    <3>1. Append(e.inbox, k) \in Seq(Clientbound)
      BY <2>1 DEF EndType
    <3> QED BY <2>1, <3>1 DEF EndType
  <2> QED BY <1>1, <2>1 DEF Says, TypeOK
<1>2. CASE Serve(s)
  <2>1. \E from, k, to : Says(s, from, k, to) /\ k \in Clientbound /\ to \in Phases
    BY <1>2, DialAssumption, Zenon
       DEF Serve, Clientbound, Responses, LoginPackets, PlayPackets, Phases, Joining
  <2> QED BY <1>1, <2>1 DEF Server, TypeOK
<1>3. CASE HangUp(s)
  <2>1. ASSUME NEW l \in {"half", "reset", "torn"}, net' = [net EXCEPT ![s].link = l]
        PROVE  net' \in [Ids -> EndType]
    <3>1. ASSUME NEW e \in EndType PROVE [e EXCEPT !.link = l] \in EndType
      BY <3>1 DEF EndType, Links
    <3> QED BY <2>1, <3>1 DEF TypeOK
  <2>2. ASSUME net' = [net EXCEPT ![s].inbox = Append(@, "disconnect"),
                                  ![s].link = "half"]
        PROVE  net' \in [Ids -> EndType]
    <3>1. ASSUME NEW e \in EndType
          PROVE  [e EXCEPT !.inbox = Append(@, "disconnect"), !.link = "half"] \in EndType
      <4>0. "disconnect" \in Clientbound /\ e.inbox \in Seq(Clientbound)
        BY <3>1 DEF EndType, Clientbound, PlayPackets
      <4>1. Append(e.inbox, "disconnect") \in Seq(Clientbound)
        BY <4>0
      <4> QED BY <3>1, <4>1 DEF EndType, Links
    <3> QED BY <2>2, <3>1 DEF TypeOK
  <2>3. net' \in [Ids -> EndType]
    BY <1>3, <2>1, <2>2, Zenon DEF HangUp
  <2> QED BY <2>3 DEF Server, TypeOK
<1> QED BY <1>2, <1>3 DEF Server

-----------------------------------------------------------------------------
(***************************************************************************)
(* Who runs and who waits.  In most steps one process moves, holding,      *)
(* taking or releasing the lock, and the thread attributes stay.           *)
(***************************************************************************)
Held == {"writing", "closing", "opening", "going"}

Moves(p, l) ==
  /\ pc' = [pc EXCEPT ![p] = l]
  /\ UNCHANGED <<networking_thread, new_networking_thread, previous_thread>>
  /\ \/ lock' = lock /\ (l \in Held => pc[p] \in Held)
     \/ lock = None /\ lock' = p
     \/ lock = p /\ lock' = None /\ l \notin Held
  /\ l \in {"opening", "going"} =>
       new_networking_thread = None /\ dials' \in Ids
  /\ dials' = dials \/ dials' \in Ids
  /\ conn'.file_object = conn.file_object \/ conn'.file_object \in Ids
  /\ l = "going" => conn'.file_object \in Ids
  /\ p \in Ids => pc[p] \in Active /\ l \in Active
  /\ p \notin Ids => l \in CallerPCs

LEMMA MovesInv ==
  ASSUME TypeOK, ThreadInv, NEW p \in Procs, NEW l, Moves(p, l)
  PROVE  ThreadInv'
<1>0. /\ pc' = [pc EXCEPT ![p] = l] /\ pc \in [Procs -> ThreadPCs \cup CallerPCs]
      /\ UNCHANGED <<networking_thread, new_networking_thread, previous_thread>>
      /\ p \in Ids => pc[p] \in Active /\ l \in Active
      /\ \A t \in Ids : t \in Procs
      /\ Ids' = Ids /\ Procs' = Procs
  BY DEF Moves, TypeOK, Procs
<1>1. OneReader'
  <2>1. SUFFICES ASSUME NEW t \in Ids, pc'[t] \in Active
                 PROVE  networking_thread = t
    BY <1>0 DEF OneReader
  <2>2. pc[t] \in Active
    BY <1>0, <2>1
  <2> QED BY <2>2 DEF ThreadInv, OneReader
<1>2. ASSUME NEW t \in Ids, pc'[t] = "wait"
      PROVE  /\ new_networking_thread' = t
             /\ networking_thread' \in {None, previous_thread'[t]}
  <2>1. pc[t] = "wait"
    BY <1>0, <1>2 DEF Active
  <2> QED BY <1>0, <2>1 DEF ThreadInv
<1>3. ASSUME NEW q \in Procs
      PROVE  /\ pc'[q] \in Held => lock' = q
             /\ pc'[q] \in {"opening", "going"} =>
                  new_networking_thread' = None /\ dials' \in Ids
             /\ pc'[q] = "going" => conn'.file_object \in Ids
  <2>0. p # None /\ q # None
    BY <1>3, ProcsApart
  <2>1. CASE q = p
    <3>1. pc'[p] = l
      BY <1>0
    <3>2. l \in Held => lock' = p
      BY <2>0 DEF Moves, ThreadInv, Held
    <3> QED BY <1>0, <2>1, <3>1, <3>2 DEF Moves
  <2>2. CASE q # p
    <3>1. pc'[q] = pc[q]
      BY <1>0, <2>2
    <3>2. pc[q] \in Held => lock' = q
      BY <2>0, <2>2 DEF Moves, ThreadInv, Held
    <3>3. /\ pc[q] \in {"opening", "going"} =>
               new_networking_thread = None /\ dials \in Ids
          /\ pc[q] = "going" => conn.file_object \in Ids
      BY DEF ThreadInv
    <3>4. /\ dials' = dials \/ dials' \in Ids
          /\ conn'.file_object = conn.file_object \/ conn'.file_object \in Ids
      BY DEF Moves
    <3> QED BY <1>0, <3>1, <3>2, <3>3, <3>4
  <2> QED BY <2>1, <2>2
<1>4. ASSUME NEW t \in Ids, pc'[t] # "unborn" PROVE conn'.file_object \in Ids
  <2>1. pc[t] # "unborn"
    BY <1>0, <1>4 DEF Active
  <2> QED BY <2>1 DEF Moves, ThreadInv
<1> QED BY <1>0, <1>1, <1>2, <1>3, <1>4 DEF ThreadInv, Held

\* Steps in which nobody moves.
Stays ==
  /\ UNCHANGED <<pc, lock, networking_thread, new_networking_thread,
                 previous_thread, dials>>
  /\ conn'.file_object = conn.file_object

LEMMA StaysInv == ASSUME ThreadInv, Stays PROVE ThreadInv'
BY DEF ThreadInv, OneReader, Stays

\* A step of a thread inside its loop or its handlers: it stays among the
\* active places.
LEMMA GoesMoves ==
  ASSUME TypeOK, ThreadInv, NEW t \in Ids,
         NEW ls \in SUBSET (Active \ {"writing", "closing", "opening", "going"}),
         Goes(t, ls), pc[t] \in Active,
         UNCHANGED <<networking_thread, new_networking_thread,
                     previous_thread, dials>>,
         lock' = lock \/ (lock = t /\ lock' = None),
         conn'.file_object = conn.file_object
  PROVE  ThreadInv'
<1>1. PICK l \in ls : pc' = [pc EXCEPT ![t] = l]
  BY DEF Goes
<1>2. Moves(t, l)
  BY <1>1 DEF Moves, Held
<1>3. t \in Procs
  BY DEF Procs
<1> QED BY <1>2, <1>3, MovesInv

\* The places at which a step leaves a thread.
LEMMA ActivePlaces ==
  /\ {"turn", "writing", "read", "react", "join", "answer", "wrap", "closing",
      "narrow", "dial", "opening", "going", "raise", "handle", "clear",
      "report", "exit", "final", "stuck"} \subseteq Active
  /\ {"unborn", "wait", "dead", "idle"} \cap Active = {}
  /\ "wait" \notin CallerPCs /\ "unborn" \notin CallerPCs
BY DEF Active, ThreadPCs, CallerPCs

LEMMA LoopInv ==
  ASSUME TypeOK, ThreadInv, NEW t \in Ids,
         Turn(t) \/ Write(t) \/ Written(t) \/ Read(t)
  PROVE  ThreadInv'
<1>0. /\ t \in Procs /\ job[t].num \in Nat /\ job[t].bad \in Errors
      /\ UNCHANGED <<networking_thread, new_networking_thread, previous_thread, dials>>
      /\ conn'.file_object = conn.file_object
  BY DEF TypeOK, Procs, JobType, Turn, Write, Written, Read, ConnType
<1>1. CASE Turn(t)
  <2>1. CASE Goto(t, "exit") /\ UNCHANGED lock
    <3>1. Moves(t, "exit")
      BY <1>0, <1>1, <2>1, ActivePlaces DEF Moves, Held, Goto, Turn
    <3> QED BY <1>0, <3>1, MovesInv
  <2>2. CASE lock = None /\ lock' = t /\ Goto(t, "writing")
    <3>1. Moves(t, "writing")
      BY <1>0, <1>1, <2>2, ActivePlaces DEF Moves, Held, Goto, Turn
    <3> QED BY <1>0, <3>1, MovesInv
  <2> QED BY <1>1, <2>1, <2>2 DEF Turn
<1>2. CASE Write(t) \/ Written(t)
  <2>1. pc[t] \in Active /\ lock = t
    BY <1>0, <1>2, ActivePlaces DEF Write, Written, ThreadInv
  <2>2. CASE UNCHANGED <<lock, pc>>
    BY <1>0, <2>2, StaysInv DEF Stays
  <2>3. CASE lock' = None /\ ((\E bad \in Errors : Onward(t, job[t].num, bad))
                              \/ Raises(t, "attribute"))
    <3>1. Goes(t, {"read", "raise", "turn"})
      BY <1>0, <2>3, OnwardGoes, RaisesGoes, Zenon DEF Goes, Excs
    <3> QED BY <1>0, <2>1, <2>3, <3>1, GoesMoves, ActivePlaces
  <2>4. Error(Head(conn.queue)) \in Errors /\ "none" \in Errors
    BY DEF Error, Errors
  <2> QED BY <1>2, <2>2, <2>3, <2>4, Zenon DEF Write, Written
<1>3. CASE Read(t)
  <2>1. pc[t] \in Active /\ lock' = lock
    BY <1>3, ActivePlaces DEF Read
  <2>2. CASE Raises(t, "io") \/ Raises(t, "eof") \/ EndTurn(t, job[t].bad)
    <3>1. Goes(t, {"raise", "turn"})
      BY <1>0, <2>2, RaisesGoes, EndTurnGoes, Zenon DEF Excs, Goes
    <3> QED BY <1>0, <2>1, <3>1, GoesMoves, ActivePlaces
  <2>3. CASE Goto(t, "stuck")
    <3>1. Moves(t, "stuck")
      BY <1>0, <2>1, <2>3, ActivePlaces DEF Moves, Held, Goto
    <3> QED BY <1>0, <3>1, MovesInv
  <2>4. CASE Goto(t, "react")
    <3>1. Moves(t, "react")
      BY <1>0, <2>1, <2>4, ActivePlaces DEF Moves, Held, Goto
    <3> QED BY <1>0, <3>1, MovesInv
  <2> QED BY <1>3, <2>2, <2>3, <2>4, Zenon DEF Read
<1> QED BY <1>1, <1>2, <1>3

LEMMA HandlerInv ==
  ASSUME TypeOK, ThreadInv, NEW t \in Ids,
         React(t) \/ (\E a \in BOOLEAN : Join(t, a)) \/ Answer(t) \/ Wrap(t)
  PROVE  ThreadInv'
<1>0. /\ t \in Procs /\ pc[t] \in Active
      /\ UNCHANGED <<networking_thread, new_networking_thread, previous_thread, dials>>
      /\ conn'.file_object = conn.file_object
  BY ActivePlaces DEF TypeOK, Procs, React, Join, Answer, Wrap, ConnType
<1>1. ASSUME lock' = lock, NEW l \in Active \ Held, Goto(t, l) PROVE ThreadInv'
  <2>1. Moves(t, l)
    BY <1>0, <1>1 DEF Moves, Held, Goto
  <2> QED BY <1>0, <2>1, MovesInv
<1>2. CASE lock' = lock /\ (Goto(t, "join") \/ Goto(t, "answer") \/ Goto(t, "wrap"))
  BY <1>1, <1>2, ActivePlaces DEF Held
<1>3. CASE lock' = lock /\ (Raises(t, "login") \/ Raises(t, "join") \/ Raises(t, "io")
                            \/ Raises(t, "attribute") \/ Handled(t))
  <2>1. Goes(t, {"read", "raise", "turn"})
    BY <1>3, RaisesGoes, HandledGoes, Zenon DEF Goes, Excs
  <2> QED BY <1>0, <1>3, <2>1, GoesMoves, ActivePlaces
<1>4. CASE lock = None /\ lock' = t /\ Goto(t, "closing")
  <2>1. Moves(t, "closing")
    BY <1>0, <1>4, ActivePlaces DEF Moves, Held, Goto
  <2> QED BY <1>0, <2>1, MovesInv
<1>5. CASE React(t)
  BY <1>2, <1>3, <1>4, <1>5, Zenon DEF React
<1>6. CASE (\E a \in BOOLEAN : Join(t, a)) \/ Answer(t) \/ Wrap(t)
  BY <1>2, <1>3, <1>6, Zenon DEF Join, Answer, Wrap
<1> QED BY <1>5, <1>6

\* Interrupting and closing leave the file object alone.
LEMMA FileKept ==
  ASSUME TypeOK
  PROVE  ClosedConn.file_object = conn.file_object
BY DEF ClosedConn, TypeOK, ConnType

LEMMA CloseInv ==
  ASSUME TypeOK, ThreadInv, NEW p \in Procs, Flush(p) \/ Close(p)
  PROVE  ThreadInv'
<1>0. /\ pc[p] = "closing" /\ lock = p
      /\ UNCHANGED <<networking_thread, new_networking_thread, previous_thread, dials>>
  BY DEF Flush, Close
<1>1. conn'.file_object = conn.file_object
  BY FileKept DEF Flush, Close, TypeOK, ConnType, ClosedConn
<1>2. CASE UNCHANGED <<lock, pc>>
  BY <1>0, <1>1, <1>2, StaysInv DEF Stays
<1>3. CASE p \notin Ids /\ lock' = None /\ Goto(p, "idle")
  <2>1. Moves(p, "idle")
    BY <1>0, <1>1, <1>3 DEF Moves, Held, Goto, CallerPCs
  <2> QED BY <2>1, MovesInv
<1>4. CASE p \in Ids /\ lock' = None
           /\ (Raises(p, "attribute") \/ Raises(p, "io") \/ Resumes(p))
  <2>1. Goes(p, {"raise", "turn", "narrow"})
    BY <1>4, RaisesGoes, ResumesGoes, Zenon DEF Goes, Excs
  <2> QED BY <1>0, <1>1, <1>4, <2>1, GoesMoves, ActivePlaces
<1> QED BY <1>2, <1>3, <1>4, Zenon DEF Flush, Close

LEMMA CallFailsInv ==
  ASSUME TypeOK, ThreadInv, NEW p \in Procs, NEW exc \in Excs, CallFails(p, exc),
         p \in Ids => pc[p] \in Active,
         UNCHANGED <<networking_thread, new_networking_thread, previous_thread, dials>>,
         lock' = lock \/ (lock = p /\ lock' = None),
         conn'.file_object = conn.file_object
  PROVE  ThreadInv'
<1>1. CASE p \in Ids
  <2>1. Goes(p, {"raise", "report"})
    BY <1>1, CallFailsGoes
  <2> QED BY <1>1, <2>1, GoesMoves, ActivePlaces
<1>2. CASE p \notin Ids
  <2>1. Moves(p, "idle")
    BY <1>2 DEF Moves, Held, CallFails, Goto, CallerPCs
  <2> QED BY <2>1, MovesInv
<1> QED BY <1>1, <1>2

LEMMA DialInv ==
  ASSUME TypeOK, ThreadInv, NEW p \in Procs, NEW w, Dial(p, w),
         p \in Ids => pc[p] \in Active
  PROVE  ThreadInv'
<1>0. /\ UNCHANGED <<networking_thread, new_networking_thread, previous_thread>>
      /\ conn'.file_object = conn.file_object
  BY DEF Dial, TypeOK, ConnType
<1>1. CASE CallFails(p, "state") /\ UNCHANGED <<lock, dials>>
  BY <1>0, <1>1, CallFailsInv DEF Excs
<1>2. CASE /\ ~ Busy /\ dials < MaxDials /\ dials' = dials + 1
           /\ lock = None /\ lock' = p /\ Goto(p, "opening")
  <2>1. dials' \in Ids
    BY <1>2, NextId
  <2>2. new_networking_thread = None
    BY <1>2 DEF Busy
  <2>3. Moves(p, "opening")
    BY <1>0, <1>2, <2>1, <2>2, ActivePlaces DEF Moves, Held, Goto, CallerPCs
  <2> QED BY <2>3, MovesInv
<1> QED BY <1>1, <1>2, Zenon DEF Dial

LEMMA OpeningInv ==
  ASSUME TypeOK, ThreadInv, NEW p \in Procs, Refuse(p) \/ Open(p)
  PROVE  ThreadInv'
<1>0. /\ pc[p] = "opening" /\ lock = p /\ dials \in Ids
      /\ new_networking_thread = None
      /\ UNCHANGED <<networking_thread, new_networking_thread, previous_thread, dials>>
      /\ p \in Ids => pc[p] \in Active
  BY ActivePlaces DEF Refuse, Open, ThreadInv
<1>1. CASE Refuse(p)
  <2>1. conn'.file_object = conn.file_object
    BY <1>1 DEF Refuse, TypeOK, ConnType
  <2>2. CallFails(p, "io") /\ lock' = None
    BY <1>1 DEF Refuse
  <2> QED BY <1>0, <2>1, <2>2, CallFailsInv DEF Excs
<1>2. CASE Open(p)
  <2>1. conn'.file_object \in Ids
    <3>1. \A k : Append1(conn, k).file_object = conn.file_object
                 /\ DOMAIN Append1(conn, k) = DOMAIN conn
      BY DEF Append1, TypeOK, ConnType
    <3>2. "file_object" \in DOMAIN conn
      BY DEF TypeOK, ConnType
    <3>3. \E k : conn' = [Append1(conn, k) EXCEPT !.socket = dials, !.file_object = dials,
                   !.key = None, !.zip = FALSE, !.connected = TRUE]
      BY <1>2, Zenon DEF Open
    <3> QED BY <1>0, <3>1, <3>2, <3>3
  <2>2. lock' = lock /\ Goto(p, "going")
    BY <1>2 DEF Open
  <2>3. Moves(p, "going")
    BY <1>0, <2>1, <2>2, ActivePlaces DEF Moves, Held, Goto, CallerPCs
  <2> QED BY <2>3, MovesInv
<1> QED BY <1>1, <1>2

\* The new thread becomes the networking thread if there is none, and waits
\* for the one there is otherwise.
LEMMA GoInv ==
  ASSUME TypeOK, ThreadInv, NEW p \in Procs, Go(p)
  PROVE  ThreadInv'
<1> DEFINE first == IF networking_thread = None THEN "turn" ELSE "wait"
           next == IF p \notin Ids THEN "idle"
                   ELSE IF job[p].via = "handler" THEN "final"
                   ELSE IF job[p].bad # "none" THEN "raise" ELSE "turn"
<1>0. /\ pc[p] = "going" /\ lock = p /\ lock' = None /\ dials \in Ids
      /\ new_networking_thread = None /\ conn.file_object \in Ids
      /\ dials' = dials /\ UNCHANGED interrupt
      /\ previous_thread' = [previous_thread EXCEPT ![dials] = networking_thread]
  BY DEF Go, ThreadInv
<1>1. pc' = [pc EXCEPT ![dials] = first, ![p] = next]
  BY DEF Go
<1>2. /\ pc \in [Procs -> ThreadPCs \cup CallerPCs] /\ \A t \in Ids : t \in Procs
      /\ previous_thread \in [Ids -> Ids \cup {None}]
  BY DEF TypeOK, Procs
<1>3. /\ first \in {"turn", "wait"}
      /\ p \in Ids => next \in {"final", "raise", "turn"}
      /\ p \notin Ids => next = "idle"
  OBVIOUS
<1>4. /\ networking_thread = None => first = "turn" /\ networking_thread' = dials
                                     /\ new_networking_thread' = None
      /\ networking_thread # None => first = "wait" /\ new_networking_thread' = dials
                                     /\ networking_thread' = networking_thread
  BY <1>0 DEF Go
<1> HIDE DEF first, next
<1>5. conn'.file_object = conn.file_object
  <2>1. \A k : Append1(conn, k).file_object = conn.file_object
    BY DEF Append1, TypeOK, ConnType
  <2>2. \E k, r : conn' = [Append1(conn, k) EXCEPT !.reactor = r]
    BY Zenon DEF Go
  <2> QED BY <2>1, <2>2
<1>6. \A t \in Ids : t # None
  BY ProcsApart, <1>2
<1>7. ASSUME NEW t \in Ids, t # dials, t # p PROVE pc'[t] = pc[t]
  BY <1>1, <1>2, <1>7
<1>8. p \in Ids => networking_thread = p
  BY <1>0, ActivePlaces DEF ThreadInv, OneReader
<1>9. OneReader'
  <2>1. SUFFICES ASSUME NEW t \in Ids, pc'[t] \in Active
                 PROVE  networking_thread' = t
    BY DEF OneReader, Active
  <2>2. CASE t = p
    BY <1>4, <1>6, <1>8, <2>2
  <2>3. CASE t # p /\ t = dials
    <3>1. pc'[t] = first
      BY <1>0, <1>1, <1>2, <2>3
    <3> QED BY <1>4, <2>1, <2>3, <3>1, ActivePlaces
  <2>4. CASE t # p /\ t # dials
    <3>1. networking_thread = t
      BY <1>7, <2>1, <2>4 DEF ThreadInv, OneReader
    <3> QED BY <1>4, <1>6, <3>1
  <2> QED BY <2>2, <2>3, <2>4
<1>10. ASSUME NEW t \in Ids, pc'[t] = "wait"
       PROVE  /\ new_networking_thread' = t
              /\ networking_thread' \in {None, previous_thread'[t]}
  <2>1. t # p
    <3>1. CASE t = p
      <4>1. pc'[p] = next
        BY <1>0, <1>1, <1>2
      <4> QED BY <1>3, <1>10, <3>1, <4>1
    <3> QED BY <3>1
  <2>2. CASE t = dials
    <3>1. pc'[t] = first
      BY <1>0, <1>1, <1>2, <2>1, <2>2
    <3>2. previous_thread'[t] = networking_thread
      BY <1>0, <1>2, <2>2
    <3> QED BY <1>4, <1>10, <2>2, <3>1, <3>2
  <2>3. CASE t # dials
    BY <1>0, <1>6, <1>7, <1>10, <2>1, <2>3 DEF ThreadInv
  <2> QED BY <2>2, <2>3
<1>11. ASSUME NEW q \in Procs PROVE pc'[q] \notin Held
  <2>0. p # None /\ q # None
    BY <1>11, ProcsApart
  <2>1. CASE q = p
    BY <1>1, <1>2, <1>3, <2>1 DEF Held
  <2>2. CASE q # p /\ q = dials
    BY <1>1, <1>2, <1>3, <2>2 DEF Held
  <2>3. CASE q # p /\ q # dials
    <3>1. pc'[q] = pc[q]
      BY <1>1, <1>2, <2>3
    <3> QED BY <1>0, <2>0, <2>3, <3>1 DEF ThreadInv, Held
  <2> QED BY <2>1, <2>2, <2>3
<1> QED BY <1>0, <1>5, <1>9, <1>10, <1>11 DEF ThreadInv, Held

\* The successor takes over from a dead thread; a thread at its end resigns.
LEMMA TurnoverInv ==
  ASSUME TypeOK, ThreadInv, NEW t \in Ids, Wait(t) \/ Final(t)
  PROVE  ThreadInv'
<1>0. /\ t \in Procs /\ pc \in [Procs -> ThreadPCs \cup CallerPCs]
      /\ \A u \in Ids : u \in Procs /\ u # None
      /\ UNCHANGED <<lock, previous_thread, conn, dials>> /\ lock = None
  BY ProcsApart DEF TypeOK, Procs, Wait, Final
<1>1. \E l \in {"turn", "dead"} : pc' = [pc EXCEPT ![t] = l]
  BY DEF Wait, Final, Goto
<1>2. ASSUME NEW q \in Procs PROVE pc'[q] \notin Held
  <2>1. q # None /\ pc[q] \notin Held
    BY <1>0, <1>2, ProcsApart DEF ThreadInv, Held
  <2> QED BY <1>0, <1>1, <2>1 DEF Held
<1>3. \A u \in Ids : pc[u] # "unborn" => conn.file_object \in Ids
  BY DEF ThreadInv
<1>4. pc[t] # "unborn"
  BY DEF Wait, Final
<1>5. ASSUME NEW u \in Ids, pc'[u] # "unborn" PROVE conn'.file_object \in Ids
  BY <1>0, <1>1, <1>3, <1>4, <1>5
<1>6. CASE Wait(t)
  <2>1. /\ networking_thread' = t /\ new_networking_thread' = None
        /\ pc' = [pc EXCEPT ![t] = "turn"] /\ pc[previous_thread[t]] = "dead"
        /\ new_networking_thread = t /\ networking_thread \in {None, previous_thread[t]}
    BY <1>6 DEF Wait, ThreadInv, Goto
  <2>2. OneReader'
    <3>1. SUFFICES ASSUME NEW u \in Ids, u # t, pc'[u] \in Active PROVE FALSE
      BY <2>1 DEF OneReader, Active
    <3>2. pc[u] \in Active
      BY <1>0, <2>1, <3>1
    <3>3. networking_thread = u
      BY <3>2 DEF ThreadInv, OneReader
    <3> QED BY <1>0, <2>1, <3>2, <3>3, ActivePlaces
  <2>3. ASSUME NEW u \in Ids PROVE pc'[u] # "wait"
    <3>1. CASE u = t
      BY <1>0, <2>1, <3>1
    <3>2. CASE u # t
      BY <1>0, <2>1, <3>2 DEF ThreadInv
    <3> QED BY <3>1, <3>2
  <2> QED BY <1>2, <1>5, <2>2, <2>3 DEF ThreadInv, Held
<1>7. CASE Final(t)
  <2>1. /\ networking_thread' = None /\ new_networking_thread' = new_networking_thread
        /\ pc' = [pc EXCEPT ![t] = "dead"] /\ networking_thread = t
    BY <1>7, ActivePlaces DEF Final, Goto, ThreadInv, OneReader
  <2>2. OneReader'
    <3>1. SUFFICES ASSUME NEW u \in Ids, pc'[u] \in Active PROVE FALSE
      BY DEF OneReader, Active
    <3>2. u # t /\ pc[u] \in Active
      BY <1>0, <2>1, <3>1, ActivePlaces
    <3> QED BY <2>1, <3>2 DEF ThreadInv, OneReader
  <2>3. ASSUME NEW u \in Ids, pc'[u] = "wait"
        PROVE  new_networking_thread' = u /\ networking_thread' = None
    BY <1>0, <2>1, <2>3 DEF ThreadInv
  <2> QED BY <1>2, <1>5, <2>2, <2>3 DEF ThreadInv, Held
<1> QED BY <1>6, <1>7

\* Steps of a thread that has failed or that leaves its loop.
Ending(t) ==
  Raise(t) \/ Handle(t) \/ Clear(t) \/ Narrow(t) \/ Report(t) \/ Exit(t)

LEMMA EndInv ==
  ASSUME TypeOK, ThreadInv, NEW t \in Ids, Ending(t)
  PROVE  ThreadInv'
<1> USE DEF Raise, Handle, Clear, Narrow, Report, Exit
<1>1. /\ t \in Procs /\ pc[t] \in Active
      /\ UNCHANGED <<lock, networking_thread, new_networking_thread, previous_thread, dials>>
  BY ActivePlaces DEF Ending, Procs
<1>2. conn'.file_object = conn.file_object
  <2>1. [conn EXCEPT !.allowed = "one"].file_object = conn.file_object
    BY DEF TypeOK, ConnType
  <2> QED BY <2>1, FileKept, Zenon DEF Ending
<1>3. \E l \in {"handle", "clear", "narrow", "dial", "report", "final"} : Moves(t, l)
  <2>1. \E l \in {"handle", "clear", "narrow", "dial", "report", "final"} :
          pc' = [pc EXCEPT ![t] = l]
    BY Zenon DEF Ending, Goto
  <2> QED BY <1>1, <1>2, <2>1, ActivePlaces DEF Moves, Held
<1> QED BY <1>1, <1>3, MovesInv

LEMMA CallerInv ==
  ASSUME TypeOK, ThreadInv, NEW c \in Callers, CallerStep(c)
  PROVE  ThreadInv'
<1>0. c \in Procs /\ c \notin Ids
  BY ProcsApart DEF Procs
<1>1. ASSUME NEW w, Connect(c, w) PROVE ThreadInv'
  BY <1>0, <1>1, DialInv DEF Connect
<1>2. ASSUME NEW i \in BOOLEAN, Disconnect(c, i) PROVE ThreadInv'
  <2>0. /\ UNCHANGED <<networking_thread, new_networking_thread, previous_thread, dials>>
        /\ conn'.file_object = conn.file_object /\ lock = None
    BY <1>2, FileKept DEF Disconnect, TypeOK, ConnType
  <2>1. CASE UNCHANGED <<lock, pc>>
    BY <2>0, <2>1, StaysInv DEF Stays
  <2>2. CASE lock' = c /\ Goto(c, "closing")
    <3>1. Moves(c, "closing")
      BY <1>0, <2>0, <2>2 DEF Moves, Held, Goto, CallerPCs
    <3> QED BY <1>0, <3>1, MovesInv
  <2> QED BY <1>2, <2>1, <2>2, Zenon DEF Disconnect
<1>3. CASE Chat(c) \/ ChatNow(c)
  <2>1. Stays
    BY <1>3 DEF Stays, Chat, ChatNow, Append1, TypeOK, ConnType
  <2> QED BY <2>1, StaysInv
<1> QED BY <1>1, <1>2, <1>3, Zenon DEF CallerStep

-----------------------------------------------------------------------------
(***************************************************************************)
(* The inductive invariant and what follows from it.                       *)
(***************************************************************************)
ConnInv == TypeOK /\ ThreadInv

LEMMA ConnInvInit == Init => ConnInv
<1> SUFFICES ASSUME Init PROVE ThreadInv
  BY InitType DEF ConnInv
<1>1. \A t \in Ids : t \in Procs /\ t \notin Callers
  BY ProcsApart DEF Procs
<1>2. /\ \A t \in Ids : pc[t] = "unborn"
      /\ \A p \in Procs : pc[p] \in {"idle", "unborn"}
  BY <1>1 DEF Init
<1> QED BY <1>2, ActivePlaces DEF ThreadInv, OneReader

LEMMA ConnInvStep == ConnInv /\ [Next]_vars => ConnInv'
<1> SUFFICES ASSUME TypeOK, ThreadInv, [Next]_vars PROVE TypeOK' /\ ThreadInv'
  BY DEF ConnInv
<1>1. ASSUME NEW t \in Ids, ThreadStep(t) PROVE TypeOK' /\ ThreadInv'
  <2>0. t \in Procs
    BY DEF Procs
  <2>1. CASE Turn(t) \/ Write(t) \/ Written(t)
    BY <2>1, LoopType, LoopInv
  <2>2. CASE Read(t)
    <3>1. conn.file_object \in Ids
      BY <2>2 DEF Read, ThreadInv
    <3> QED BY <2>2, <3>1, ReadType, LoopInv
  <2>3. CASE React(t)
    BY <2>3, ReactType, HandlerInv
  <2>4. CASE Answer(t) \/ Wrap(t)
    BY <2>4, LoginType, HandlerInv
  <2>5. CASE Ending(t)
    BY <2>5, ExitType, EndInv, Zenon DEF Ending
  <2>6. CASE Wait(t) \/ Final(t)
    BY <2>6, ExitType, TurnoverInv
  <2>7. CASE DialAgain(t)
    <3>1. pc[t] \in Active /\ Dial(t, "play") /\ calls' = calls /\ calls \in 0..MaxCalls
      BY <2>7, ActivePlaces DEF DialAgain, TypeOK
    <3> QED BY <2>0, <3>1, DialType, DialInv
  <2> QED
    BY <1>1, <2>1, <2>2, <2>3, <2>4, <2>5, <2>6, <2>7, Zenon DEF ThreadStep, Ending
<1>2. ASSUME NEW t \in Ids, NEW a \in BOOLEAN, Join(t, a) PROVE TypeOK' /\ ThreadInv'
  BY <1>2, LoginType, HandlerInv
<1>3. ASSUME NEW p \in Procs, CallStep(p) PROVE TypeOK' /\ ThreadInv'
  <2>1. CASE Flush(p) \/ Close(p)
    BY <2>1, FlushType, CloseType, CloseInv
  <2>2. CASE Refuse(p) \/ Open(p) \/ Go(p)
    <3>1. dials \in Ids
      BY <2>2 DEF Refuse, Open, Go, ThreadInv
    <3> QED BY <2>2, <3>1, RefuseType, OpenType, GoType, OpeningInv, GoInv
  <2> QED BY <1>3, <2>1, <2>2 DEF CallStep
<1>4. ASSUME NEW c \in Callers, CallerStep(c) PROVE TypeOK' /\ ThreadInv'
  BY <1>4, CallerType, CallerInv
<1>5. ASSUME NEW s \in Ids, Server(s) PROVE TypeOK' /\ ThreadInv'
  <2>1. Stays
    BY <1>5 DEF Stays, Server
  <2> QED BY <1>5, <2>1, ServerType, StaysInv
<1>6. CASE UNCHANGED vars
  BY <1>6 DEF vars, TypeOK, ThreadInv, OneReader
<1> QED BY <1>1, <1>2, <1>3, <1>4, <1>5, <1>6 DEF Next

\* The types and the order of the threads, for any numbers of callers, dials,
\* calls and packets.
THEOREM Invariance == Spec => []ConnInv
<1> QED BY ConnInvInit, ConnInvStep, PTL DEF Spec

\* Every variable keeps its type.
THEOREM TypeCorrect == Spec => []TypeOK
<1>1. ConnInv => TypeOK
  BY DEF ConnInv
<1> QED BY <1>1, Invariance, PTL

\* Two networking threads never serve the connection at the same time, however
\* programs connect, query and disconnect, servers hang up, and threads dial
\* again by themselves (connection.py:159-174, 389-393, 536-551).
THEOREM OneThread == Spec => []OneReader
<1>1. ConnInv => OneReader
  BY DEF ConnInv, ThreadInv
<1> QED BY <1>1, Invariance, PTL

-----------------------------------------------------------------------------
(***************************************************************************)
(* How threads end: which are born, waiting and interrupted (Lives), what  *)
(* a thread that followed a disconnect packet goes on to do (Follows), who *)
(* looks after an open connection (Kept), and, when callers are not hasty, *)
(* that a thread leaves without a report only to a successor (Reported).   *)
(***************************************************************************)
Unborn == {"unborn", "wait"}
Failed == {"handle", "clear", "report"}
Leaving == Failed \cup {"exit", "final", "dead", "narrow", "dial", "opening", "going"}

Lives ==
  /\ \A t \in Ids : t > dials => pc[t] = "unborn"
  /\ \A p \in Procs : pc[p] \in {"opening", "going"} => pc[dials] = "unborn"
  /\ networking_thread # None => pc[networking_thread] \in Active
  /\ new_networking_thread # None => pc[new_networking_thread] = "wait"
  /\ \A t \in Ids : pc[t] \in Unborn => ~ interrupt[t]
  /\ \A t \in Ids : pc[t] \in Leaving => interrupt[t]
  /\ \A p \in Procs : pc[p] = "closing" => ~ conn.connected

Follows ==
  \A t \in Ids : job[t].kicked =>
    /\ pc[t] \in {"turn", "exit", "final", "dead"} /\ interrupt[t]
    /\ job[t].told \in {"none", "exit"}

Kept ==
  conn.connected =>
    \/ \E p \in Procs : pc[p] = "going"
    \/ new_networking_thread # None
    \/ /\ networking_thread # None
       /\ ~ interrupt[networking_thread] \/ pc[networking_thread] \in Failed

Reported ==
  /\ \A c \in Callers : pc[c] \in {"opening", "going"} => networking_thread = None
  /\ \A t \in Ids :
       /\ pc[t] \in Active /\ interrupt[t] /\ conn.connected =>
            job[t].next \/ pc[t] \in Failed \cup {"going"}
       /\ pc[t] \in {"final", "dead"} => job[t].told # "none" \/ job[t].next

Life == Lives /\ Follows /\ Kept /\ (~ Hasty => Reported)

\* What the helpers of the loop do to the locals that outlive a turn.
Carries(t) ==
  /\ \A u \in Ids : u # t => job'[u] = job[u]
  /\ job'[t].next = job[t].next /\ job'[t].kicked = job[t].kicked

LEMMA LocalsCarry ==
  ASSUME TypeOK, NEW t \in Ids, NEW n, NEW bad, NEW exc,
         job' = [job EXCEPT ![t] = Locals(t, n, bad, exc)]
  PROVE  Carries(t) /\ job'[t].told = "none"
BY DEF Carries, Locals, NoJob, TypeOK

LEMMA TurnsCarry ==
  ASSUME TypeOK, NEW t \in Ids,
         \/ \E exc : Raises(t, exc)
         \/ \E bad : EndTurn(t, bad)
         \/ \E n, bad : Onward(t, n, bad)
         \/ Handled(t)
  PROVE  Carries(t)
<1>1. ASSUME NEW exc, Raises(t, exc) PROVE Carries(t)
  BY <1>1, LocalsCarry, Zenon DEF Raises
<1>2. ASSUME NEW bad, EndTurn(t, bad) PROVE Carries(t)
  BY <1>1, <1>2, LocalsCarry, Zenon DEF EndTurn, NewTurn
<1>3. ASSUME NEW n, NEW bad, Onward(t, n, bad) PROVE Carries(t)
  BY <1>2, <1>3, LocalsCarry, Zenon DEF Onward
<1> QED
  BY <1>1, <1>2, <1>3, Zenon DEF Handled

\* A step of thread t within the active places, without dialling: it ends at l.
Works(t, l) ==
  /\ pc[t] \in Active \ {"going"} /\ l \in Active \ {"opening", "going"}
  /\ pc' = [pc EXCEPT ![t] = l]
  /\ UNCHANGED <<networking_thread, new_networking_thread, dials>>
  /\ conn'.connected => conn.connected
  /\ \A u \in Ids : /\ interrupt[u] => interrupt'[u]
                    /\ u # t => interrupt'[u] = interrupt[u]
  /\ interrupt'[t] => interrupt[t] \/ ~ conn'.connected \/ l \in Failed
  /\ l \in Leaving => interrupt'[t]
  /\ l = "closing" => ~ conn'.connected
  /\ pc[t] \in Failed => l \in Failed \/ ~ conn'.connected
  /\ \A u \in Ids : u # t => job'[u] = job[u]
  /\ job'[t].next = job[t].next
  /\ job'[t].kicked => /\ l \in {"turn", "exit", "final"} /\ interrupt'[t]
                       /\ job'[t].told \in {"none", "exit"}
  /\ l = "final" => job'[t].told # "none" \/ job[t].next \/ Hasty

Working(t) == \E l : Works(t, l)

LEMMA WorksLife ==
  ASSUME TypeOK, ThreadInv, Life, NEW t \in Ids, NEW l, Works(t, l)
  PROVE  Life'
<1>0. /\ pc' = [pc EXCEPT ![t] = l] /\ pc \in [Procs -> ThreadPCs \cup CallerPCs]
      /\ UNCHANGED <<networking_thread, new_networking_thread, dials>>
      /\ pc[t] \in Active \ {"going"} /\ l \in Active \ {"opening", "going"}
      /\ \A u \in Ids : u \in Procs /\ u \notin Callers
      /\ \A c \in Callers : c \in Procs
      /\ networking_thread = t /\ dials \in Nat /\ t \in Procs
  BY ProcsApart DEF Works, TypeOK, Procs, ThreadInv, OneReader
<1>1. \A p \in Procs : pc'[p] = IF p = t THEN l ELSE pc[p]
  BY <1>0
<1>2. Lives'
  <2>1. \A u \in Ids : u > dials => pc'[u] = "unborn"
    BY <1>0, <1>1, ActivePlaces DEF Life, Lives
  <2>2. ASSUME NEW p \in Procs, pc'[p] \in {"opening", "going"}
        PROVE  pc'[dials] = "unborn"
    <3>1. p # t /\ pc[p] \in {"opening", "going"}
      BY <1>0, <1>1, <2>2
    <3>2. pc[dials] = "unborn" /\ dials \in Ids
      BY <3>1 DEF Life, Lives, ThreadInv
    <3> QED
      BY <1>0, <1>1, <3>2, ActivePlaces
  <2>3. /\ networking_thread # None => pc'[networking_thread] \in Active
        /\ new_networking_thread # None => pc'[new_networking_thread] = "wait"
    BY <1>0, <1>1, ActivePlaces DEF Life, Lives, TypeOK
  <2>4. \A u \in Ids : pc'[u] \in Unborn => ~ interrupt'[u]
    BY <1>0, <1>1, ActivePlaces DEF Life, Lives, Works, Unborn
  <2>5. \A u \in Ids : pc'[u] \in Leaving => interrupt'[u]
    BY <1>0, <1>1 DEF Life, Lives, Works
  <2>6. \A p \in Procs : pc'[p] = "closing" => ~ conn'.connected
    BY <1>0, <1>1 DEF Life, Lives, Works
  <2> QED
    BY <1>0, <2>1, <2>2, <2>3, <2>4, <2>5, <2>6 DEF Lives, Active
<1>3. Follows'
  BY <1>0, <1>1 DEF Life, Follows, Works
<1>4. Kept'
  BY <1>0, <1>1 DEF Life, Kept, Works, ThreadInv
<1>5. ASSUME ~ Hasty PROVE Reported'
  BY <1>0, <1>1, <1>5 DEF Life, Reported, Works, Active
<1> QED
  BY <1>2, <1>3, <1>4, <1>5 DEF Life

\* A step of a program's thread, or of a server, that opens nothing.
Aside ==
  /\ UNCHANGED <<networking_thread, new_networking_thread, dials, job>>
  /\ conn'.connected => conn.connected
  /\ interrupt' = interrupt \/ (interrupt' = Interrupted /\ ~ conn'.connected)
  /\ \/ pc' = pc
     \/ \E c \in Callers, l \in {"idle", "closing"} :
          /\ pc[c] # "going" /\ pc' = [pc EXCEPT ![c] = l]
          /\ l = "closing" => ~ conn'.connected

LEMMA AsideLife == ASSUME TypeOK, ThreadInv, Life, Aside PROVE Life'
<1>0. /\ pc \in [Procs -> ThreadPCs \cup CallerPCs]
      /\ UNCHANGED <<networking_thread, new_networking_thread, dials, job>>
      /\ conn'.connected => conn.connected
      /\ \A u \in Ids : u \in Procs /\ u \notin Callers
      /\ \A c \in Callers : c \in Procs
  BY ProcsApart DEF Aside, TypeOK, Procs
<1>1. /\ \A u \in Ids : pc'[u] = pc[u]
      /\ \A c \in Callers : /\ pc'[c] \in {"opening", "going"} => pc'[c] = pc[c]
                            /\ pc[c] = "going" => pc'[c] = "going"
                            /\ pc'[c] = "closing" => pc'[c] = pc[c] \/ ~ conn'.connected
  BY <1>0 DEF Aside
<1>2. \A u \in Ids : /\ interrupt[u] => interrupt'[u]
                     /\ interrupt'[u] => \/ interrupt[u]
                                         \/ ~ conn'.connected /\ networking_thread = u
  BY DEF Aside, Interrupted, TypeOK
<1>3. Lives'
  <2>1. /\ \A u \in Ids : u > dials => pc'[u] = "unborn"
        /\ networking_thread # None => pc'[networking_thread] \in Active
        /\ new_networking_thread # None => pc'[new_networking_thread] = "wait"
    BY <1>0, <1>1 DEF Life, Lives, TypeOK
  <2>2. ASSUME NEW p \in Procs, pc'[p] \in {"opening", "going"}
        PROVE  pc'[dials] = "unborn"
    <3>1. pc[p] \in {"opening", "going"}
      BY <1>1, <2>2 DEF Procs
    <3>2. pc[dials] = "unborn" /\ dials \in Ids
      BY <3>1 DEF Life, Lives, ThreadInv
    <3> QED
      BY <1>1, <3>2
  <2>3. ASSUME NEW u \in Ids PROVE pc'[u] \in Unborn => ~ interrupt'[u]
    <3>1. networking_thread = u => pc[u] \in Active
      BY <1>0 DEF Life, Lives, TypeOK, Ids
    <3> QED
      BY <1>1, <1>2, <3>1, ActivePlaces DEF Life, Lives, Unborn
  <2>4. \A u \in Ids : pc'[u] \in Leaving => interrupt'[u]
    BY <1>1, <1>2 DEF Life, Lives
  <2>5. \A p \in Procs : pc'[p] = "closing" => ~ conn'.connected
    BY <1>0, <1>1 DEF Life, Lives, Procs
  <2> QED
    BY <1>0, <2>1, <2>2, <2>3, <2>4, <2>5 DEF Lives, Active
<1>4. Follows'
  BY <1>0, <1>1, <1>2 DEF Life, Follows
<1>5. Kept'
  <2>1. ASSUME conn'.connected, NEW p \in Procs, pc[p] = "going"
        PROVE  pc'[p] = "going"
    BY <1>1, <2>1 DEF Procs
  <2>2. ASSUME conn'.connected PROVE interrupt' = interrupt
    BY <2>2 DEF Aside
  <2>3. networking_thread # None => pc'[networking_thread] = pc[networking_thread]
    BY <1>1 DEF TypeOK
  <2> QED
    BY <1>0, <2>1, <2>2, <2>3 DEF Life, Kept
<1>6. ASSUME ~ Hasty PROVE Reported'
  <2>1. Reported
    BY <1>6 DEF Life
  <2>2. ASSUME conn'.connected PROVE interrupt' = interrupt
    BY <2>2 DEF Aside
  <2>3. \A c \in Callers : pc'[c] \in {"opening", "going"} => networking_thread' = None
    BY <1>0, <1>1, <2>1 DEF Reported
  <2>4. \A u \in Ids : pc'[u] \in Active /\ interrupt'[u] /\ conn'.connected =>
                         job'[u].next \/ pc'[u] \in Failed \cup {"going"}
    BY <1>0, <1>1, <2>1, <2>2 DEF Reported
  <2>5. \A u \in Ids : pc'[u] \in {"final", "dead"} => job'[u].told # "none" \/ job'[u].next
    BY <1>0, <1>1, <2>1 DEF Reported
  <2> QED
    BY <2>3, <2>4, <2>5 DEF Reported, Active
<1> QED
  BY <1>3, <1>4, <1>5, <1>6 DEF Life

LEMMA DialLife ==
  ASSUME TypeOK, ThreadInv, Life, NEW p \in Procs,
         p \in Ids => pc[p] = "dial",
         p \notin Ids => pc[p] = "idle" /\ (Hasty \/ networking_thread = None),
         lock = None, dials < MaxDials, dials' = dials + 1,
         pc' = [pc EXCEPT ![p] = "opening"], conn'.connected = conn.connected,
         UNCHANGED <<networking_thread, new_networking_thread, interrupt, job>>
  PROVE  Life'
<1>0. /\ pc \in [Procs -> ThreadPCs \cup CallerPCs] /\ dials \in Nat /\ dials' \in Ids
      /\ \A u \in Ids : u \in Procs /\ u \notin Callers
      /\ \A c \in Callers : c \in Procs /\ c \notin Ids
  BY ProcsApart, NextId DEF TypeOK, Procs
<1>1. \A q \in Procs : pc'[q] = IF q = p THEN "opening" ELSE pc[q]
  BY <1>0
<1>2. \A q \in Procs : pc[q] \notin {"closing", "opening", "going"}
  BY ProcsApart DEF ThreadInv
<1>3. pc[dials'] = "unborn" /\ pc[p] # "unborn"
  BY <1>0 DEF Life, Lives, TypeOK, Procs
<1>4. Lives'
  <2>1. \A u \in Ids : u > dials' => pc'[u] = "unborn"
    <3>1. \A u \in Ids : u > dials' => u > dials /\ u # p
      BY <1>0, <1>3 DEF Life, Lives, Ids
    <3> QED
      BY <1>0, <1>1, <3>1 DEF Life, Lives
  <2>2. \A q \in Procs : pc'[q] \in {"opening", "going"} => pc'[dials'] = "unborn"
    BY <1>0, <1>1, <1>3
  <2>3. /\ networking_thread # None => pc'[networking_thread] \in Active
        /\ new_networking_thread # None => pc'[new_networking_thread] = "wait"
    <3>1. /\ networking_thread # None => networking_thread \in Procs
          /\ new_networking_thread # None => new_networking_thread \in Procs /\ new_networking_thread # p
      BY <1>0 DEF Life, Lives, TypeOK
    <3> QED
      BY <1>1, <3>1, ActivePlaces DEF Life, Lives
  <2>4. \A u \in Ids : pc'[u] \in Unborn => ~ interrupt'[u]
    BY <1>0, <1>1 DEF Life, Lives, Unborn
  <2>5. \A u \in Ids : pc'[u] \in Leaving => interrupt'[u]
    BY <1>0, <1>1 DEF Life, Lives, Leaving, Failed
  <2>6. \A q \in Procs : pc'[q] = "closing" => ~ conn'.connected
    BY <1>1, <1>2
  <2> QED
    BY <2>1, <2>2, <2>3, <2>4, <2>5, <2>6 DEF Lives, Active
<1>5. Follows'
  BY <1>0, <1>1 DEF Life, Follows
<1>6. Kept'
  <2>1. networking_thread # None /\ pc[networking_thread] \in Failed =>
          pc'[networking_thread] \in Failed
    BY <1>0, <1>1 DEF TypeOK, Failed
  <2> QED
    BY <1>0, <1>2, <2>1 DEF Life, Kept
<1>7. ASSUME ~ Hasty PROVE Reported'
  BY <1>0, <1>1, <1>2, <1>7, ActivePlaces DEF Life, Reported, Active, Failed
<1> QED
  BY <1>4, <1>5, <1>6, <1>7 DEF Life

LEMMA OpenLife ==
  ASSUME TypeOK, ThreadInv, Life, NEW p \in Procs, Open(p)
  PROVE  Life'
<1>0. /\ pc \in [Procs -> ThreadPCs \cup CallerPCs] /\ dials \in Ids
      /\ \A u \in Ids : u \in Procs /\ u \notin Callers /\ u # None
      /\ \A c \in Callers : c \in Procs /\ c \notin Ids
      /\ pc[p] = "opening" /\ lock = p /\ p # None
      /\ pc' = [pc EXCEPT ![p] = "going"]
      /\ UNCHANGED <<networking_thread, new_networking_thread, interrupt, job, dials>>
  BY ProcsApart DEF TypeOK, Procs, Open, Goto, ThreadInv
<1>1. \A q \in Procs : pc'[q] = IF q = p THEN "going" ELSE pc[q]
  BY <1>0
<1>2. \A q \in Procs : q # p => pc[q] \notin {"closing", "opening", "going"}
  BY <1>0 DEF ThreadInv
<1>3. Lives'
  <2>1. \A u \in Ids : u > dials' => pc'[u] = "unborn"
    BY <1>0, <1>1 DEF Life, Lives
  <2>2. \A q \in Procs : pc'[q] \in {"opening", "going"} => pc'[dials'] = "unborn"
    BY <1>0, <1>1, <1>2 DEF Life, Lives
  <2>3. /\ networking_thread # None => pc'[networking_thread] \in Active
        /\ new_networking_thread # None => pc'[new_networking_thread] = "wait"
    <3>1. /\ networking_thread # None => networking_thread \in Procs
          /\ new_networking_thread # None => new_networking_thread \in Procs /\ new_networking_thread # p
      BY <1>0 DEF Life, Lives, TypeOK
    <3> QED
      BY <1>1, <3>1, ActivePlaces DEF Life, Lives
  <2>4. \A u \in Ids : pc'[u] \in Unborn => ~ interrupt'[u]
    BY <1>0, <1>1 DEF Life, Lives, Unborn
  <2>5. \A u \in Ids : pc'[u] \in Leaving => interrupt'[u]
    BY <1>0, <1>1 DEF Life, Lives, Leaving, Failed
  <2>6. \A q \in Procs : pc'[q] = "closing" => ~ conn'.connected
    BY <1>1, <1>2
  <2> QED
    BY <1>0, <2>1, <2>2, <2>3, <2>4, <2>5, <2>6 DEF Lives, Active
<1>4. Follows'
  BY <1>0, <1>1 DEF Life, Follows
<1>5. Kept'
  BY <1>1 DEF Kept
<1>6. ASSUME ~ Hasty PROVE Reported'
  <2>1. Reported
    BY <1>6 DEF Life
  <2>2. \A u \in Ids : u # p => pc[u] \notin Active
    BY <1>0, <2>1, ActivePlaces DEF Reported, ThreadInv, OneReader, Procs
  <2> QED
    BY <1>0, <1>1, <1>2, <2>1, <2>2 DEF Reported, Active
<1> QED
  BY <1>3, <1>4, <1>5, <1>6 DEF Life

LEMMA GoLife ==
  ASSUME TypeOK, ThreadInv, Life, NEW p \in Procs, Go(p)
  PROVE  Life'
<1> DEFINE first == IF networking_thread = None THEN "turn" ELSE "wait"
           next == IF p \notin Ids THEN "idle"
                   ELSE IF job[p].via = "handler" THEN "final"
                   ELSE IF job[p].bad # "none" THEN "raise" ELSE "turn"
<1>0. /\ pc \in [Procs -> ThreadPCs \cup CallerPCs] /\ dials \in Ids
      /\ \A u \in Ids : u \in Procs /\ u \notin Callers /\ u # None
      /\ \A c \in Callers : c \in Procs /\ c \notin Ids
      /\ pc[p] = "going" /\ lock = p /\ p # None /\ pc[dials] = "unborn" /\ p # dials
      /\ ~ interrupt[dials] /\ new_networking_thread = None
      /\ UNCHANGED <<interrupt, dials>>
  BY ProcsApart DEF TypeOK, Procs, Go, ThreadInv, Life, Lives, Unborn
<1>1. pc' = [pc EXCEPT ![dials] = first, ![p] = next]
  BY DEF Go
<1>2. /\ networking_thread = None => first = "turn" /\ networking_thread' = dials
                                     /\ new_networking_thread' = None
      /\ networking_thread # None => first = "wait" /\ new_networking_thread' = dials
                                     /\ networking_thread' = networking_thread
  BY <1>0 DEF Go
<1>3. /\ p \in Ids => next \in {"final", "raise", "turn"} /\ networking_thread = p
      /\ p \notin Ids => next = "idle" /\ p \in Callers
  BY <1>0, ActivePlaces DEF ThreadInv, OneReader, Procs
<1> HIDE DEF first, next
<1>4. \A q \in Procs : pc'[q] = IF q = p THEN next ELSE IF q = dials THEN first ELSE pc[q]
  BY <1>0, <1>1
<1>5. \A q \in Procs : q # p => pc[q] \notin {"closing", "opening", "going"}
  BY <1>0 DEF ThreadInv
<1>6. conn'.connected = conn.connected
  <2>1. \A k : /\ Append1(conn, k).connected = conn.connected
               /\ DOMAIN Append1(conn, k) = DOMAIN conn
    BY DEF Append1, TypeOK, ConnType
  <2>2. \E k, r : conn' = [Append1(conn, k) EXCEPT !.reactor = r]
    BY Zenon DEF Go
  <2> QED
    BY <2>1, <2>2
<1>7. \A u \in Ids : /\ u # p => job'[u] = job[u]
                     /\ u = p => /\ job'[u].next /\ job'[u].kicked = job[u].kicked
  <2>1. CASE p \notin Ids
    BY <2>1 DEF Go
  <2>2. CASE p \in Ids
    <3>1. PICK exc : job' = [job EXCEPT ![p] = [Locals(p, 0, "none", exc) EXCEPT !.next = TRUE]]
      BY <2>2, Zenon DEF Go
    <3>2. job'[p] = [Locals(p, 0, "none", exc) EXCEPT !.next = TRUE]
      BY <2>2, <3>1 DEF TypeOK
    <3>3. job'[p].next /\ job'[p].kicked = job[p].kicked
      BY <3>2 DEF Locals, NoJob
    <3> QED
      BY <2>2, <3>1, <3>3 DEF TypeOK
  <2> QED
    BY <2>1, <2>2
<1>8. p \in Ids => interrupt[p] /\ ~ job[p].kicked
  BY <1>0 DEF Life, Lives, Follows, Leaving, Failed
<1>9. Lives'
  <2>1. \A u \in Ids : u > dials => pc'[u] = "unborn"
    <3>1. \A u \in Ids : u > dials => u # dials /\ pc[u] = "unborn"
      BY <1>0 DEF Life, Lives, Ids
    <3> QED
      BY <1>0, <1>4, <3>1
  <2>2. \A q \in Procs : pc'[q] \notin {"opening", "going", "closing"}
    BY <1>2, <1>3, <1>4, <1>5
  <2>3. networking_thread' # None => pc'[networking_thread'] \in Active
    <3>1. CASE networking_thread = None
      BY <1>0, <1>2, <1>3, <1>4, <3>1, ActivePlaces
    <3>2. CASE networking_thread # None
      BY <1>0, <1>2, <1>3, <1>4, <3>2, ActivePlaces DEF Life, Lives, TypeOK
    <3> QED
      BY <3>1, <3>2
  <2>4. new_networking_thread' # None => pc'[new_networking_thread'] = "wait"
    BY <1>0, <1>2, <1>4
  <2>5. \A u \in Ids : pc'[u] \in Unborn => ~ interrupt'[u]
    BY <1>0, <1>3, <1>4 DEF Life, Lives, Unborn
  <2>6. \A u \in Ids : pc'[u] \in Leaving => interrupt'[u]
    BY <1>0, <1>2, <1>4, <1>8 DEF Life, Lives, Leaving, Failed
  <2> QED
    BY <1>0, <2>1, <2>2, <2>3, <2>4, <2>5, <2>6 DEF Lives, Active
<1>10. Follows'
  BY <1>0, <1>4, <1>7, <1>8 DEF Life, Follows
<1>11. Kept'
  BY <1>0, <1>2 DEF Kept
<1>12. ASSUME ~ Hasty PROVE Reported'
  <2>1. Reported
    BY <1>12 DEF Life
  <2>2. \A c \in Callers : pc'[c] \notin {"opening", "going"}
    BY <1>0, <1>3, <1>4, <1>5
  <2>3. ASSUME NEW u \in Ids, pc'[u] \in Active, interrupt'[u], conn'.connected
        PROVE  job'[u].next \/ pc'[u] \in Failed \cup {"going"}
    BY <1>0, <1>4, <1>6, <1>7, <2>1, <2>3 DEF Reported
  <2>4. \A u \in Ids : pc'[u] \in {"final", "dead"} => job'[u].told # "none" \/ job'[u].next
    BY <1>0, <1>2, <1>4, <1>7, <2>1 DEF Reported
  <2> QED
    BY <2>2, <2>3, <2>4 DEF Reported, Active
<1> QED
  BY <1>9, <1>10, <1>11, <1>12 DEF Life

LEMMA TurnoverLife ==
  ASSUME TypeOK, ThreadInv, Life, NEW t \in Ids, Wait(t) \/ Final(t)
  PROVE  Life'
<1>0. /\ pc \in [Procs -> ThreadPCs \cup CallerPCs] /\ lock = None
      /\ \A u \in Ids : u \in Procs /\ u \notin Callers /\ u # None
      /\ \A c \in Callers : c \in Procs /\ c \notin Ids
      /\ UNCHANGED <<interrupt, job, conn, dials>>
  BY ProcsApart DEF TypeOK, Procs, Wait, Final
<1>1. \A q \in Procs : pc[q] \notin {"closing", "opening", "going"}
  BY <1>0, ProcsApart DEF ThreadInv
<1>2. PICK l \in {"turn", "dead"} : pc' = [pc EXCEPT ![t] = l]
  BY DEF Wait, Final, Goto
<1>3. \A q \in Procs : pc'[q] = IF q = t THEN l ELSE pc[q]
  BY <1>0, <1>2
<1>4. CASE Wait(t)
  <2>1. /\ l = "turn" /\ pc[t] = "wait" /\ networking_thread' = t
        /\ new_networking_thread' = None /\ ~ interrupt[t]
    BY <1>0, <1>2, <1>4 DEF Wait, Goto, TypeOK, Life, Lives, Unborn
  <2>2. Lives'
    <3>1. \A u \in Ids : u > dials => pc'[u] = "unborn"
      BY <1>0, <1>3, <2>1 DEF Life, Lives
    <3>2. \A q \in Procs : pc'[q] \notin {"opening", "going", "closing"}
      BY <1>1, <1>3, <2>1
    <3>3. pc'[networking_thread'] \in Active
      BY <1>0, <1>3, <2>1, ActivePlaces
    <3>4. \A u \in Ids : /\ pc'[u] \in Unborn => ~ interrupt'[u]
                         /\ pc'[u] \in Leaving => interrupt'[u]
      BY <1>0, <1>3, <2>1 DEF Life, Lives, Unborn, Leaving, Failed
    <3> QED
      BY <1>0, <2>1, <3>1, <3>2, <3>3, <3>4 DEF Lives, Active
  <2>3. Follows' /\ Kept'
    BY <1>0, <1>3, <2>1 DEF Life, Follows, Kept
  <2>4. ASSUME ~ Hasty PROVE Reported'
    BY <1>0, <1>1, <1>3, <2>1, <2>4 DEF Life, Reported, Active
  <2> QED
    BY <2>2, <2>3, <2>4 DEF Life
<1>5. CASE Final(t)
  <2>1. /\ l = "dead" /\ pc[t] = "final" /\ networking_thread' = None
        /\ networking_thread = t /\ interrupt[t]
        /\ new_networking_thread' = new_networking_thread
    BY <1>0, <1>2, <1>5, ActivePlaces DEF Final, Goto, TypeOK, Life, Lives, Leaving, ThreadInv, OneReader
  <2>2. Lives'
    <3>1. \A u \in Ids : u > dials => pc'[u] = "unborn"
      BY <1>0, <1>3, <2>1 DEF Life, Lives
    <3>2. \A q \in Procs : pc'[q] \notin {"opening", "going", "closing"}
      BY <1>1, <1>3, <2>1
    <3>3. new_networking_thread' # None => pc'[new_networking_thread'] = "wait"
      BY <1>0, <1>3, <2>1 DEF Life, Lives, TypeOK
    <3>4. \A u \in Ids : /\ pc'[u] \in Unborn => ~ interrupt'[u]
                         /\ pc'[u] \in Leaving => interrupt'[u]
      BY <1>0, <1>3, <2>1 DEF Life, Lives, Unborn, Leaving, Failed
    <3> QED
      BY <1>0, <2>1, <3>1, <3>2, <3>3, <3>4 DEF Lives, Active
  <2>3. Follows'
    BY <1>0, <1>3, <2>1 DEF Life, Follows
  <2>4. Kept'
    BY <1>0, <1>1, <2>1 DEF Life, Kept, Failed
  <2>5. ASSUME ~ Hasty PROVE Reported'
    BY <1>0, <1>1, <1>3, <2>1, <2>5 DEF Life, Reported, Active
  <2> QED
    BY <2>2, <2>3, <2>4, <2>5 DEF Life
<1> QED
  BY <1>4, <1>5

\* The loop and the handlers.
LEMMA LoopWorks ==
  ASSUME TypeOK, ThreadInv, Life, NEW t \in Ids,
         Turn(t) \/ Write(t) \/ Written(t) \/ Read(t)
  PROVE  Working(t)
<1>0. /\ pc[t] \in {"turn", "writing", "read"} /\ pc[t] \in Active \ {"going"}
      /\ UNCHANGED <<networking_thread, new_networking_thread, interrupt, dials>>
      /\ conn'.connected = conn.connected
      /\ job[t].num \in Nat /\ job[t].bad \in Errors
  BY ActivePlaces DEF TypeOK, JobType, Turn, Write, Written, Read, ConnType
<1>1. ASSUME NEW l \in {"turn", "read", "raise", "stuck", "react", "writing"},
             pc' = [pc EXCEPT ![t] = l], Carries(t), pc[t] # "turn"
      PROVE  Working(t)
  <2>1. ~ job[t].kicked
    BY <1>0, <1>1 DEF Life, Follows
  <2>2. Works(t, l)
    BY <1>0, <1>1, <2>1, ActivePlaces DEF Works, Carries, Leaving, Failed
  <2> QED
    BY <2>2 DEF Working
<1>2. CASE Turn(t)
  <2>1. job' = job /\ \E l \in {"exit", "writing"} : /\ pc' = [pc EXCEPT ![t] = l]
                                                     /\ l = "exit" <=> interrupt[t]
    BY <1>2 DEF Turn, Goto
  <2>2. PICK l \in {"exit", "writing"} : pc' = [pc EXCEPT ![t] = l] /\ (l = "exit" <=> interrupt[t])
    BY <2>1
  <2>3. Works(t, l)
    BY <1>0, <2>1, <2>2, ActivePlaces DEF Works, Leaving, Life, Follows, Failed
  <2> QED
    BY <2>3 DEF Working
<1>3. CASE (\E exc \in Excs : Raises(t, exc)) \/ (\E bad \in Errors : EndTurn(t, bad))
           \/ (\E bad \in Errors : Onward(t, job[t].num, bad))
  <2>1. Carries(t)
    BY <1>3, TurnsCarry, Zenon
  <2>2. Goes(t, {"read", "raise", "turn"})
    BY <1>0, <1>3, RaisesGoes, EndTurnGoes, OnwardGoes, Zenon DEF Goes
  <2>3. PICK l \in {"read", "raise", "turn"} : pc' = [pc EXCEPT ![t] = l]
    BY <2>2 DEF Goes
  <2>4. CASE pc[t] # "turn"
    BY <1>1, <2>1, <2>3, <2>4
  <2> QED
    BY <1>2, <2>4 DEF Turn, Write, Written, Read
<1>4. CASE Write(t)
  <2>1. CASE job' = [job EXCEPT ![t].num = @ + 1] /\ UNCHANGED <<lock, pc>>
    <3>1. Carries(t) /\ pc' = [pc EXCEPT ![t] = "writing"]
      BY <1>4, <2>1 DEF Write, Carries, TypeOK
    <3> QED
      BY <1>1, <1>4, <3>1 DEF Write
  <2>2. CASE Onward(t, job[t].num, Error(Head(conn.queue))) \/ Raises(t, "attribute")
    <3>1. Error(Head(conn.queue)) \in Errors
      BY DEF Error, Errors
    <3> QED
      BY <1>3, <2>2, <3>1, Zenon DEF Excs
  <2> QED
    BY <1>4, <2>1, <2>2, Zenon DEF Write
<1>5. CASE Written(t)
  BY <1>3, <1>5 DEF Written, Errors
<1>6. CASE Read(t)
  <2>1. CASE Raises(t, "io") \/ Raises(t, "eof") \/ EndTurn(t, job[t].bad)
    BY <1>0, <1>3, <2>1 DEF Excs
  <2>2. CASE Goto(t, "stuck") /\ UNCHANGED job
    BY <1>1, <1>6, <2>2 DEF Goto, Carries, Read
  <2>3. CASE /\ Goto(t, "react")
             /\ \E k : job' = [job EXCEPT ![t].pkt = k, ![t].num = @ + 1]
    <3>1. Carries(t)
      BY <2>3 DEF Carries, TypeOK, JobType
    <3> QED
      BY <1>1, <1>6, <2>3, <3>1 DEF Goto, Read
  <2> QED
    BY <1>6, <2>1, <2>2, <2>3, Zenon DEF Read
<1> QED
  BY <1>2, <1>4, <1>5, <1>6

LEMMA HandlerWorks ==
  ASSUME TypeOK, ThreadInv, Life, NEW t \in Ids,
         React(t) \/ (\E a \in BOOLEAN : Join(t, a)) \/ Answer(t) \/ Wrap(t)
  PROVE  Working(t)
<1>0. /\ pc[t] \in {"react", "join", "answer", "wrap"} /\ pc[t] \in Active \ {"going"}
      /\ UNCHANGED <<networking_thread, new_networking_thread, interrupt, dials>>
      /\ conn'.connected => conn.connected
  <2>1. pc[t] \in {"react", "join", "answer", "wrap"}
    BY DEF React, Join, Answer, Wrap
  <2>2. UNCHANGED <<networking_thread, new_networking_thread, interrupt, dials>>
    BY DEF React, Join, Answer, Wrap
  <2>3. conn'.connected => conn.connected
    BY DEF TypeOK, ConnType, React, Join, Answer, Wrap
  <2> QED
    BY <2>1, <2>2, <2>3, ActivePlaces
<1>1. ASSUME NEW l \in {"turn", "read", "raise", "join", "answer", "wrap", "closing"},
             pc' = [pc EXCEPT ![t] = l], Carries(t), l = "closing" => ~ conn'.connected
      PROVE  Working(t)
  <2>1. ~ job[t].kicked
    BY <1>0 DEF Life, Follows
  <2>2. Works(t, l)
    BY <1>0, <1>1, <2>1, ActivePlaces DEF Works, Carries, Leaving, Failed
  <2> QED
    BY <2>2 DEF Working
<1>2. CASE (\E exc \in Excs : Raises(t, exc)) \/ Handled(t)
  <2>1. Carries(t)
    BY <1>2, TurnsCarry, Zenon
  <2>2. Goes(t, {"read", "raise", "turn"})
    BY <1>2, RaisesGoes, HandledGoes, Zenon DEF Goes
  <2>3. PICK l \in {"read", "raise", "turn"} : pc' = [pc EXCEPT ![t] = l]
    BY <2>2 DEF Goes
  <2> QED
    BY <1>1, <2>1, <2>3
<1>3. CASE UNCHANGED job /\ (Goto(t, "join") \/ Goto(t, "answer") \/ Goto(t, "wrap"))
  <2>1. Carries(t)
    BY <1>3 DEF Carries
  <2> QED
    BY <1>1, <1>3, <2>1 DEF Goto
<1>4. CASE /\ Goto(t, "closing") /\ conn' = [conn EXCEPT !.connected = FALSE]
           /\ \E r : job' = [job EXCEPT ![t].via = r]
  <2>1. Carries(t) /\ ~ conn'.connected
    BY <1>4 DEF Carries, TypeOK, JobType, ConnType
  <2> QED
    BY <1>1, <1>4, <2>1 DEF Goto
<1>5. {"io", "eof", "attribute", "login", "join", "version", "state"} \subseteq Excs
  BY DEF Excs
<1>6. CASE React(t)
  BY <1>2, <1>3, <1>4, <1>5, <1>6, Zenon DEF React
<1>7. CASE (\E a \in BOOLEAN : Join(t, a)) \/ Answer(t) \/ Wrap(t)
  BY <1>2, <1>3, <1>5, <1>7, Zenon DEF Join, Answer, Wrap
<1> QED
  BY <1>6, <1>7

\* The end of disconnect() in a thread: it is interrupted, and marked if it has
\* followed a disconnect packet.
LEMMA ResumesCarry ==
  ASSUME TypeOK, NEW t \in Ids, Resumes(t)
  PROVE  /\ \A u \in Ids : u # t => job'[u] = job[u]
         /\ job'[t].next = job[t].next
         /\ job'[t].kicked => \/ job[t].kicked
                              \/ pc' = [pc EXCEPT ![t] = "turn"] /\ job'[t].told = "none"
<1>1. CASE (\E exc : Raises(t, exc)) \/ (\E bad : EndTurn(t, bad))
  BY <1>1, TurnsCarry, Zenon DEF Carries
<1>2. CASE Goto(t, "narrow") /\ UNCHANGED job
  BY <1>2
<1>3. CASE /\ Goto(t, "turn")
           /\ job' = [job EXCEPT ![t] =
                [Locals(t, 0, "none", "none") EXCEPT !.kicked = TRUE]]
  <2>1. job'[t] = [Locals(t, 0, "none", "none") EXCEPT !.kicked = TRUE]
    BY <1>3 DEF TypeOK
  <2>2. job'[t].next = job[t].next /\ job'[t].told = "none"
    BY <2>1 DEF Locals, NoJob
  <2> QED
    BY <1>3, <2>2 DEF Goto, TypeOK
<1> QED
  BY <1>1, <1>2, <1>3, Zenon DEF Resumes

LEMMA ClosedFlags ==
  ASSUME TypeOK
  PROVE  /\ ~ ClosedConn.connected
         /\ \A t \in Ids : networking_thread = t =>
              /\ Interrupted[t]
              /\ \A u \in Ids : u # t => Interrupted[u] = interrupt[u]
BY ProcsApart DEF ClosedConn, ConnType, TypeOK, Interrupted, Procs

LEMMA CloseMoves ==
  ASSUME TypeOK, ThreadInv, Life, NEW p \in Procs, Flush(p) \/ Close(p)
  PROVE  IF p \in Ids THEN Working(p) ELSE Aside
<1>0. /\ pc[p] = "closing" /\ lock = p /\ ~ conn.connected
      /\ UNCHANGED <<networking_thread, new_networking_thread, dials>>
  BY DEF Flush, Close, Life, Lives
<1>1. /\ conn'.connected => conn.connected
      /\ Close(p) => interrupt' = Interrupted /\ ~ conn'.connected
      /\ Flush(p) => interrupt' = interrupt
  <2>1. ASSUME Flush(p) PROVE conn'.connected = conn.connected /\ interrupt' = interrupt
    BY <2>1 DEF Flush, TypeOK, ConnType
  <2>2. ASSUME Close(p) PROVE interrupt' = Interrupted /\ ~ conn'.connected
    BY <2>2, ClosedFlags DEF Close
  <2> QED
    BY <2>1, <2>2
<1>2. CASE p \notin Ids
  <2>1. p \in Callers /\ job' = job
        /\ (pc' = pc \/ pc' = [pc EXCEPT ![p] = "idle"])
    BY <1>2 DEF Flush, Close, Goto, Procs
  <2>2. Aside
    BY <1>0, <1>1, <2>1 DEF Aside
  <2> QED
    BY <1>2, <2>2
<1>3. CASE p \in Ids
  <2>0. networking_thread = p /\ pc[p] \in Active \ {"going"} /\ ~ job[p].kicked
    BY <1>0, <1>3, ActivePlaces DEF ThreadInv, OneReader, Life, Follows
  <2>1. ASSUME NEW l \in {"raise", "closing"}, pc' = [pc EXCEPT ![p] = l], Carries(p)
        PROVE  Working(p)
    <3>1. Works(p, l)
      BY <1>0, <1>1, <1>3, <2>0, <2>1, ClosedFlags, ActivePlaces
         DEF Works, Carries, Leaving, Flush, Close, Failed
    <3> QED
      BY <3>1 DEF Working
  <2>2. CASE \E exc : Raises(p, exc)
    <3>1. Carries(p)
      BY <1>3, <2>2, TurnsCarry, Zenon
    <3> QED
      BY <1>3, <2>1, <2>2, <3>1 DEF Raises, Goto
  <2>3. CASE UNCHANGED <<lock, pc, job>>
    <3>1. Carries(p) /\ pc' = [pc EXCEPT ![p] = "closing"]
      BY <1>0, <2>3 DEF Carries, TypeOK
    <3> QED
      BY <1>3, <2>1, <3>1
  <2>4. CASE Close(p) /\ Resumes(p)
    <3>1. PICK l \in {"raise", "turn", "narrow"} : pc' = [pc EXCEPT ![p] = l]
      BY <1>3, <2>4, ResumesGoes DEF Goes
    <3>2. l = "turn" \/ ~ job'[p].kicked
      BY <1>3, <2>0, <2>4, <3>1, ResumesCarry DEF TypeOK, Procs
    <3>3. /\ \A u \in Ids : u # p => job'[u] = job[u]
          /\ job'[p].next = job[p].next
          /\ job'[p].kicked => job'[p].told = "none"
      BY <1>3, <2>0, <2>4, ResumesCarry
    <3>4. Works(p, l)
      BY <1>0, <1>1, <1>3, <2>0, <2>4, <3>1, <3>2, <3>3, ClosedFlags, ActivePlaces
         DEF Works, Leaving, Failed
    <3> QED
      BY <1>3, <3>4 DEF Working
  <2> QED
    BY <1>3, <2>2, <2>3, <2>4, Zenon DEF Flush, Close
<1> QED
  BY <1>2, <1>3

LEMMA EndWorks ==
  ASSUME TypeOK, ThreadInv, Life, NEW t \in Ids, Ending(t)
  PROVE  Working(t)
<1>0. /\ pc[t] \in {"raise", "handle", "clear", "narrow", "report", "exit"}
      /\ pc[t] \in Active \ {"going"} /\ networking_thread = t
      /\ UNCHANGED <<networking_thread, new_networking_thread, dials>>
  <2>1. pc[t] \in {"raise", "handle", "clear", "narrow", "report", "exit"}
    BY DEF Ending, Raise, Handle, Clear, Narrow, Report, Exit
  <2>2. UNCHANGED <<networking_thread, new_networking_thread, dials>>
    BY DEF Ending, Raise, Handle, Clear, Narrow, Report, Exit
  <2>3. pc[t] \in Active \ {"going"}
    BY <2>1, ActivePlaces
  <2> QED
    BY <2>1, <2>2, <2>3 DEF ThreadInv, OneReader
<1>1. CASE Raise(t)
  <2>1. /\ ~ job[t].kicked /\ UNCHANGED <<conn, job>> /\ pc[t] = "raise"
        /\ interrupt' = [interrupt EXCEPT ![t] = TRUE]
    BY <1>1 DEF Raise, Life, Follows
  <2>2. PICK l \in {"handle", "report"} : pc' = [pc EXCEPT ![t] = l]
    BY <1>1, Zenon DEF Raise, Goto
  <2>3. interrupt'[t] /\ \A u \in Ids : u # t => interrupt'[u] = interrupt[u]
    BY <2>1 DEF TypeOK
  <2>4. Works(t, l)
    BY <1>0, <2>1, <2>2, <2>3, ActivePlaces DEF Works, Leaving, Failed
  <2> QED
    BY <2>4 DEF Working
<1>4. CASE Handle(t)
  <2>1. /\ ~ job[t].kicked /\ UNCHANGED <<conn, job, interrupt>> /\ pc[t] = "handle"
        /\ interrupt[t]
    BY <1>4 DEF Handle, Life, Lives, Follows, Leaving, Failed
  <2>2. PICK l \in {"clear", "report"} : pc' = [pc EXCEPT ![t] = l]
    BY <1>4, Zenon DEF Handle, Goto
  <2>3. Works(t, l)
    BY <1>0, <2>1, <2>2, ActivePlaces DEF Works, Leaving, Failed
  <2> QED
    BY <2>3 DEF Working
<1>5. CASE Clear(t)
  <2>1. /\ ~ job[t].kicked /\ interrupt' = Interrupted /\ ~ conn'.connected
        /\ pc' = [pc EXCEPT ![t] = "narrow"]
    BY <1>5, ClosedFlags DEF Clear, Goto, Life, Follows
  <2>2. Carries(t)
    BY <1>5 DEF Clear, Carries, TypeOK, JobType
  <2>3. Works(t, "narrow")
    BY <1>0, <2>1, <2>2, ClosedFlags, ActivePlaces DEF Works, Carries, Leaving, Failed
  <2> QED
    BY <2>3 DEF Working
<1>6. CASE Narrow(t)
  <2>1. /\ ~ job[t].kicked /\ UNCHANGED <<job, interrupt>> /\ pc[t] = "narrow"
        /\ interrupt[t] /\ pc' = [pc EXCEPT ![t] = "dial"]
    BY <1>6 DEF Narrow, Goto, Life, Lives, Follows, Leaving
  <2>2. conn'.connected = conn.connected
    BY <1>6 DEF Narrow, TypeOK, ConnType
  <2>3. Works(t, "dial")
    BY <1>0, <2>1, <2>2, ActivePlaces DEF Works, Leaving, Failed
  <2> QED
    BY <2>3 DEF Working
<1>2. CASE Report(t)
  <2>1. /\ ~ job[t].kicked /\ interrupt' = Interrupted /\ ~ conn'.connected
        /\ pc' = [pc EXCEPT ![t] = "final"]
    BY <1>2, ClosedFlags DEF Report, Goto, Life, Follows
  <2>2. /\ \A u \in Ids : u # t => job'[u] = job[u]
        /\ job'[t].next = job[t].next /\ job'[t].kicked = job[t].kicked
        /\ job'[t].told = "exception"
    <3>1. job' = [job EXCEPT ![t] = [Locals(t, 0, "none", "none") EXCEPT !.told = "exception"]]
      BY <1>2 DEF Report
    <3>2. job'[t] = [Locals(t, 0, "none", "none") EXCEPT !.told = "exception"]
      BY <3>1 DEF TypeOK
    <3>3. /\ job'[t].next = job[t].next /\ job'[t].kicked = job[t].kicked
          /\ job'[t].told = "exception"
      BY <3>2 DEF Locals, NoJob
    <3> QED
      BY <3>1, <3>3 DEF TypeOK
  <2>3. Works(t, "final")
    BY <1>0, <2>1, <2>2, ClosedFlags, ActivePlaces DEF Works, Leaving, Failed
  <2> QED
    BY <2>3 DEF Working
<1>3. CASE Exit(t)
  <2>1. /\ interrupt[t] /\ UNCHANGED <<interrupt, conn>> /\ pc[t] = "exit"
        /\ pc' = [pc EXCEPT ![t] = "final"]
    BY <1>3 DEF Exit, Goto, Life, Lives, Leaving
  <2>2. /\ \A u \in Ids : u # t => job'[u] = job[u]
        /\ job'[t].next = job[t].next /\ job'[t].kicked = job[t].kicked
        /\ job'[t].told = IF conn.connected THEN job[t].told ELSE "exit"
    BY <1>3 DEF Exit, TypeOK, JobType
  <2>3. conn.connected /\ ~ Hasty => job[t].next
    BY <1>0, <2>1 DEF Life, Reported, Failed
  <2>4. job[t].kicked => job[t].told \in {"none", "exit"}
    BY DEF Life, Follows
  <2>5. Works(t, "final")
    BY <1>0, <2>1, <2>2, <2>3, <2>4, ActivePlaces DEF Works, Leaving, Failed
  <2> QED
    BY <2>5 DEF Working
<1> QED
  BY <1>1, <1>2, <1>3, <1>4, <1>5, <1>6 DEF Ending

\* A call that fails in a thread leads it to its failure handler.
LEMMA CallFailsWorks ==
  ASSUME TypeOK, ThreadInv, Life, NEW t \in Ids, NEW exc, CallFails(t, exc),
         pc[t] \in {"dial", "opening"}, conn'.connected = conn.connected,
         UNCHANGED <<networking_thread, new_networking_thread, interrupt, dials>>
  PROVE  Working(t)
<1>0. /\ pc[t] \in Active \ {"going"} /\ interrupt[t] /\ ~ job[t].kicked
  BY ActivePlaces DEF Life, Lives, Follows, Leaving
<1>1. PICK l \in {"raise", "report"} : pc' = [pc EXCEPT ![t] = l]
  BY DEF CallFails, Raises, Goto
<1>2. Carries(t)
  <2>1. CASE Raises(t, exc)
    BY <2>1, TurnsCarry, Zenon
  <2>2. CASE job' = [job EXCEPT ![t].exc = exc]
    BY <2>2 DEF Carries, TypeOK, JobType
  <2> QED
    BY <2>1, <2>2, Zenon DEF CallFails
<1>3. Works(t, l)
  BY <1>0, <1>1, <1>2, ActivePlaces DEF Works, Carries, Leaving, Failed
<1> QED
  BY <1>3 DEF Working

LEMMA DialsLife ==
  ASSUME TypeOK, ThreadInv, Life, NEW p \in Procs, NEW w, Dial(p, w),
         p \in Ids => pc[p] = "dial",
         p \notin Ids => pc[p] = "idle" /\ (Hasty \/ Busy \/ networking_thread = None)
  PROVE  Life'
<1>0. /\ lock = None
      /\ UNCHANGED <<networking_thread, new_networking_thread, interrupt>>
      /\ conn'.connected = conn.connected
  BY DEF Dial, TypeOK, ConnType
<1>1. CASE Busy
  <2>1. CallFails(p, "state") /\ dials' = dials
    BY <1>1 DEF Dial
  <2>2. CASE p \in Ids
    BY <1>0, <2>1, <2>2, CallFailsWorks, WorksLife DEF Working
  <2>3. CASE p \notin Ids
    <3>1. p \in Callers /\ pc' = [pc EXCEPT ![p] = "idle"] /\ job' = job
      BY <2>1, <2>3 DEF CallFails, Goto, Procs
    <3>2. Aside
      BY <1>0, <2>1, <2>3, <3>1 DEF Aside
    <3> QED
      BY <3>2, AsideLife
  <2> QED
    BY <2>2, <2>3
<1>2. CASE ~ Busy
  <2>1. /\ dials < MaxDials /\ dials' = dials + 1 /\ job' = job
        /\ pc' = [pc EXCEPT ![p] = "opening"]
    BY <1>2 DEF Dial, Goto
  <2> QED
    BY <1>0, <1>2, <2>1, DialLife
<1> QED
  BY <1>1, <1>2

LEMMA RefuseLife ==
  ASSUME TypeOK, ThreadInv, Life, NEW p \in Procs, Refuse(p)
  PROVE  Life'
<1>0. /\ pc[p] = "opening" /\ CallFails(p, "io")
      /\ UNCHANGED <<networking_thread, new_networking_thread, interrupt, dials>>
      /\ conn'.connected = conn.connected
  BY DEF Refuse, TypeOK, ConnType
<1>1. CASE p \in Ids
  BY <1>0, <1>1, CallFailsWorks, WorksLife DEF Working
<1>2. CASE p \notin Ids
  <2>1. p \in Callers /\ pc' = [pc EXCEPT ![p] = "idle"] /\ job' = job
    BY <1>0, <1>2 DEF CallFails, Goto, Procs
  <2>2. Aside
    BY <1>0, <1>2, <2>1 DEF Aside
  <2> QED
    BY <2>2, AsideLife
<1> QED
  BY <1>1, <1>2

\* What else a program does, and what servers do.
LEMMA OtherMoves ==
  ASSUME TypeOK, \/ \E c \in Callers : \/ \E i \in BOOLEAN : Disconnect(c, i)
                                       \/ Chat(c) \/ ChatNow(c)
                 \/ \E s \in Ids : Server(s)
                 \/ UNCHANGED vars
  PROVE  Aside
<1>1. ASSUME NEW c \in Callers, NEW i \in BOOLEAN, Disconnect(c, i) PROVE Aside
  <2>0. /\ pc[c] = "idle" /\ c \in Procs
        /\ UNCHANGED <<networking_thread, new_networking_thread, dials, job>>
    BY <1>1 DEF Disconnect, Calls, Procs
  <2>1. CASE interrupt' = Interrupted /\ conn' = ClosedConn /\ UNCHANGED pc
    BY <2>0, <2>1, ClosedFlags DEF Aside
  <2>2. CASE /\ Goto(c, "closing") /\ conn' = [conn EXCEPT !.connected = FALSE]
             /\ UNCHANGED interrupt
    <3>1. ~ conn'.connected
      BY <2>2 DEF TypeOK, ConnType
    <3> QED
      BY <2>0, <2>2, <3>1 DEF Aside, Goto
  <2> QED
    BY <1>1, <2>1, <2>2, Zenon DEF Disconnect
<1>2. ASSUME NEW c \in Callers, Chat(c) \/ ChatNow(c) PROVE Aside
  BY <1>2 DEF Aside, Chat, ChatNow, Append1, TypeOK, ConnType
<1>3. ASSUME (\E s \in Ids : Server(s)) \/ UNCHANGED vars PROVE Aside
  BY <1>3 DEF Aside, Server, vars
<1> QED
  BY <1>1, <1>2, <1>3

LEMMA CallerLife ==
  ASSUME TypeOK, ThreadInv, Life, NEW c \in Callers, CallerStep(c)
  PROVE  Life'
<1>1. c \in Procs /\ c \notin Ids
  BY ProcsApart DEF Procs
<1>2. ASSUME NEW w, Connect(c, w) PROVE Life'
  BY <1>1, <1>2, DialsLife DEF Connect, Calls
<1> QED
  BY <1>2, OtherMoves, AsideLife DEF CallerStep

LEMMA LifeStep == ConnInv /\ Life /\ [Next]_vars => Life'
<1> SUFFICES ASSUME TypeOK, ThreadInv, Life, [Next]_vars PROVE Life'
  BY DEF ConnInv
<1>1. ASSUME NEW t \in Ids, ThreadStep(t) PROVE Life'
  <2>0. t \in Procs
    BY DEF Procs
  <2>1. CASE DialAgain(t)
    BY <2>0, <2>1, DialsLife DEF DialAgain
  <2> QED
    BY <1>1, <2>1, LoopWorks, HandlerWorks, EndWorks, WorksLife, TurnoverLife
       DEF ThreadStep, Ending, Working
<1>2. ASSUME NEW t \in Ids, NEW a \in BOOLEAN, Join(t, a) PROVE Life'
  BY <1>2, HandlerWorks, WorksLife DEF Working
<1>3. ASSUME NEW p \in Procs, CallStep(p) PROVE Life'
  <2>1. CASE Flush(p) \/ Close(p)
    BY <2>1, CloseMoves, WorksLife, AsideLife DEF Working
  <2> QED
    BY <1>3, <2>1, RefuseLife, OpenLife, GoLife DEF CallStep
<1>4. ASSUME NEW c \in Callers, CallerStep(c) PROVE Life'
  BY <1>4, CallerLife
<1>5. ASSUME (\E s \in Ids : Server(s)) \/ UNCHANGED vars PROVE Life'
  BY <1>5, OtherMoves, AsideLife
<1> QED
  BY <1>1, <1>2, <1>3, <1>4, <1>5 DEF Next

LEMMA LifeInit == Init => Life
<1> SUFFICES ASSUME Init PROVE Life
  OBVIOUS
<1>1. \A t \in Ids : t \in Procs /\ t \notin Callers
  BY ProcsApart DEF Procs
<1>2. /\ \A p \in Procs : pc[p] \in {"idle", "unborn"}
      /\ \A t \in Ids : pc[t] = "unborn" /\ ~ interrupt[t] /\ ~ job[t].kicked
      /\ networking_thread = None /\ new_networking_thread = None /\ ~ conn.connected
  <2>1. \A p \in Procs : pc[p] \in {"idle", "unborn"}
    BY DEF Init
  <2>2. \A t \in Ids : pc[t] = "unborn" /\ ~ interrupt[t]
    BY <1>1 DEF Init
  <2>3. \A t \in Ids : ~ job[t].kicked
    BY DEF Init, NoJob
  <2>4. networking_thread = None /\ new_networking_thread = None /\ ~ conn.connected
    BY DEF Init
  <2> QED
    BY <2>1, <2>2, <2>3, <2>4
<1>3. Lives
  <2>1. \A t \in Ids : pc[t] \notin Leaving
    BY <1>2 DEF Leaving, Failed
  <2>2. \A p \in Procs : pc[p] \notin {"opening", "going", "closing"}
    BY <1>2
  <2> QED
    BY <1>2, <2>1, <2>2 DEF Lives
<1>4. \A c \in Callers : c \in Procs
  BY DEF Procs
<1> QED
  BY <1>1, <1>2, <1>3, <1>4, ActivePlaces DEF Life, Follows, Kept, Reported

\* How threads end, for any numbers of callers, dials, calls and packets.
LEMMA LifeHolds == Spec => [](ConnInv /\ Life)
<1> QED BY ConnInvInit, ConnInvStep, LifeInit, LifeStep, PTL DEF Spec

\* An open connection always has a thread that serves it, will serve it, or is
\* on the way to report a failure and close it, whoever dials and whenever.
THEOREM OpenIsServed == Spec => []Served
<1>1. ConnInv /\ Life => Served
  <2> SUFFICES ASSUME TypeOK, ThreadInv, Life, conn.connected, lock = None
               PROVE  \E t \in Ids : /\ t \in {networking_thread, new_networking_thread}
                                     /\ pc[t] \notin {"unborn", "exit", "final", "dead"}
                                     /\ interrupt[t] => pc[t] \in Failed
    BY DEF ConnInv, Served, Failed
  <2>1. \A p \in Procs : pc[p] # "going"
    BY ProcsApart DEF ThreadInv
  <2>2. CASE new_networking_thread # None
    <3>1. new_networking_thread \in Ids /\ pc[new_networking_thread] = "wait"
      BY <2>2 DEF TypeOK, Life, Lives
    <3> QED
      BY <3>1 DEF Life, Lives, Unborn
  <2>3. CASE new_networking_thread = None
    <3>1. /\ networking_thread \in Ids /\ pc[networking_thread] \in Active
          /\ ~ interrupt[networking_thread] \/ pc[networking_thread] \in Failed
      BY <2>1, <2>3 DEF Life, Lives, Kept, TypeOK
    <3> QED
      BY <3>1, ActivePlaces DEF Life, Lives, Leaving, Failed
  <2> QED
    BY <2>2, <2>3
<1> QED
  BY <1>1, LifeHolds, PTL

\* A thread that has followed a server's disconnect packet never reports an
\* exception, whatever failed before it and whoever calls meanwhile
\* (connection.py:585-592).
THEOREM KicksAreNoErrors == Spec => []KickIsNoError
<1>1. ConnInv /\ Life => KickIsNoError
  BY DEF Life, Follows, KickIsNoError
<1> QED
  BY <1>1, LifeHolds, PTL

\* With callers that wait for the last thread to be gone, no thread ends
\* without a word, except one that leaves a successor.
THEOREM EndsAreReported == Spec => [](~ Hasty => EndIsReported)
<1>1. ConnInv /\ Life => (~ Hasty => EndIsReported)
  BY DEF Life, Reported, EndIsReported
<1> QED
  BY <1>1, LifeHolds, PTL

-----------------------------------------------------------------------------
(***************************************************************************)
(* What careful callers can rely on when a thread dials: only the thread   *)
(* that has made a successor lives beside it, and it does nothing but end  *)
(* (Heirs).  A thread that goes on after a failed write would raise, and   *)
(* close, instead; that none does when it dials rests on what a server     *)
(* that is asked for its version can have sent: nothing before the request *)
(* has reached it (Asking), so that nothing is left to react to once a     *)
(* write has failed (Failing).                                             *)
(***************************************************************************)
Early == {"open", "status", "confused", "offended", "done"}
Idle(s) == net[s].inbox = <<>> /\ net[s].srv \in Early
Fresh(s) == net[s].inbox = <<>> /\ net[s].srv = "open"
Silent ==
  \A s \in Ids : s = conn.file_object =>
    Idle(s) /\ ~ (conn.socket = s /\ net[s].link = "up")
Holds(q, ks) == \A i \in 1..Len(q) : q[i] \in ks

\* More than early chat lines is left to be written.
Owing(q) == \E i \in 1..Len(q) : q[i] # "early chat"

Heirs ==
  /\ \A t \in Ids : job[t].next =>
       /\ interrupt[t]
       /\ \/ pc[t] \in {"turn", "exit", "final", "dead"}
          \/ job[t].exc = "early" /\ pc[t] \in {"raise", "report"}
  /\ networking_thread # None /\ new_networking_thread # None =>
       job[networking_thread].next

FailingPlaces == {"read", "react", "join", "answer", "wrap", "closing", "stuck"}
Fails(t) ==
  /\ pc[t] \in FailingPlaces
  /\ pc[t] = "closing" => job[t].via # "query"
  /\ conn.reactor = "query" => pc[t] = "stuck" \/ (pc[t] = "read" /\ Silent)
Failing == \A t \in Ids : job[t].bad = "io" => Fails(t)

\* Nothing but chat lines follows the request.
RequestLast(q) ==
  \A i, j \in 1..Len(q) : q[i] = "request" /\ i < j => q[j] = "early chat"

Asking ==
  /\ conn.reactor = "query" /\ Owing(conn.queue)
  /\ \A p \in Procs : pc[p] # "going"
  => /\ \A s \in Ids : s = conn.file_object => Idle(s)
     /\ Holds(conn.queue, {"early chat", "hello status", "request"})
     /\ RequestLast(conn.queue)

Dialing ==
  /\ conn.socket \in Ids => conn.socket <= dials
  /\ \A s \in Ids : s > dials => Fresh(s)
  /\ \A p \in Procs :
       /\ pc[p] \in {"opening", "going"} => Fresh(dials)
       /\ pc[p] = "opening" => Holds(conn.queue, {"early chat"})
       /\ pc[p] = "going" =>
            /\ conn.file_object = dials
            /\ Direct \/ Holds(conn.queue, {"early chat", "hello status"})

Kin == Heirs /\ Failing /\ Asking /\ Dialing

\* Nobody is inside connect() or status().
Calm == \A p \in Procs : pc[p] \notin {"opening", "going"}

LEMMA WhoDials ==
  ASSUME TypeOK, ThreadInv, Life, ~ Hasty, NEW p \in Procs, pc[p] \in {"opening", "going"}
  PROVE  /\ lock = p /\ dials \in Ids
         /\ \A t \in Ids : t # p => pc[t] \notin Active
         /\ \A q \in Procs : q # p => pc[q] \notin {"writing", "closing", "opening", "going"}
<1>1. lock = p /\ dials \in Ids
  BY DEF ThreadInv
<1>2. ASSUME NEW t \in Ids, t # p, pc[t] \in Active PROVE FALSE
  <2>1. networking_thread = t /\ t # None
    BY <1>2, ProcsApart DEF ThreadInv, OneReader, Procs
  <2>2. CASE p \in Ids
    BY <1>2, <2>1, <2>2, ActivePlaces DEF ThreadInv, OneReader
  <2>3. CASE p \in Callers
    BY <2>1, <2>3 DEF Life, Reported
  <2> QED
    BY <2>2, <2>3 DEF Procs
<1>3. \A q \in Procs : q # p => pc[q] \notin {"writing", "closing", "opening", "going"}
  BY <1>1 DEF ThreadInv
<1> QED
  BY <1>1, <1>2, <1>3

LEMMA CalmWhen ==
  ASSUME TypeOK, ThreadInv, Life, ~ Hasty,
         \/ lock = None
         \/ \E t \in Ids : pc[t] \in Active \ {"opening", "going"}
         \/ \E p \in Procs : pc[p] = "closing"
  PROVE  Calm
<1>1. \A t \in Ids : t \in Procs
  BY DEF Procs
<1> QED
  BY <1>1, WhoDials, ProcsApart, ActivePlaces DEF Calm

-----------------------------------------------------------------------------
(***************************************************************************)
(* What steps do to the servers' ends.                                     *)
(***************************************************************************)
LEMMA SentKeeps ==
  ASSUME TypeOK, NEW k \in Serverbound, Sent(k)
  PROVE  \A s \in Ids :
           /\ net'[s].inbox = net[s].inbox /\ net'[s].link = net[s].link
           /\ net'[s] = net[s] \/ (conn.socket = s /\ net[s].link = "up")
           /\ k \notin {"request", "hello login"} => (Idle(s) => Idle(s)')
<1> SUFFICES ASSUME NEW s \in Ids
             PROVE  /\ net'[s].inbox = net[s].inbox /\ net'[s].link = net[s].link
                    /\ net'[s] = net[s] \/ (conn.socket = s /\ net[s].link = "up")
                    /\ k \notin {"request", "hello login"} => (Idle(s) => Idle(s)')
  OBVIOUS
<1>1. CASE net' = net
  BY <1>1 DEF Idle
<1>2. ASSUME conn.socket \in Ids, net[conn.socket].link = "up", NEW to \in Phases,
             Leads(conn.socket, k, to),
             net' = [net EXCEPT ![conn.socket].srv = to,
               ![conn.socket].key =
                  IF k = "encryption response" THEN conn.socket ELSE @]
      PROVE  /\ net'[s].inbox = net[s].inbox /\ net'[s].link = net[s].link
             /\ net'[s] = net[s] \/ (conn.socket = s /\ net[s].link = "up")
             /\ k \notin {"request", "hello login"} => (Idle(s) => Idle(s)')
  <2>1. CASE s # conn.socket
    BY <1>2, <2>1 DEF Idle, TypeOK
  <2>2. CASE s = conn.socket
    <3>0. /\ net \in [Ids -> EndType]
          /\ net'[s] = [net[s] EXCEPT !.srv = to,
               !.key = IF k = "encryption response" THEN conn.socket ELSE @]
      BY <1>2, <2>2 DEF TypeOK
    <3>1. /\ net'[s].inbox = net[s].inbox /\ net'[s].link = net[s].link
          /\ net'[s].srv = to
      BY <3>0 DEF EndType
    <3>2. ASSUME k \notin {"request", "hello login"}, net[s].srv \in Early
          PROVE  to \in Early
      BY <1>2, <2>2, <3>2 DEF Leads, Protocol, Early, Shocked, Lost, Joining
    <3> QED
      BY <1>2, <2>2, <3>1, <3>2 DEF Idle
  <2> QED
    BY <2>1, <2>2
<1> QED
  BY <1>1, <1>2 DEF Sent

LEMMA ClosedKeeps ==
  ASSUME TypeOK, net' = ClosedEnds
  PROVE  \A s \in Ids : /\ net'[s].inbox = net[s].inbox
                        /\ net'[s] = net[s] \/ (conn.socket = s /\ net'[s].link # "up")
                        /\ Idle(s) => Idle(s)'
<1> SUFFICES ASSUME NEW s \in Ids
             PROVE  /\ net'[s].inbox = net[s].inbox
                    /\ net'[s] = net[s] \/ (conn.socket = s /\ net'[s].link # "up")
                    /\ Idle(s) => Idle(s)'
  OBVIOUS
<1>1. CASE s # conn.socket
  BY <1>1 DEF ClosedEnds, Idle, TypeOK
<1>2. CASE s = conn.socket
  <2>1. net'[s] = ClosedEnd(net[s]) /\ net[s] \in EndType
    BY <1>2 DEF ClosedEnds, TypeOK
  <2>2. /\ net'[s].inbox = net[s].inbox /\ net'[s].link # "up"
        /\ net'[s].srv \in {"confused", "done"}
    BY <2>1 DEF ClosedEnd, EndType
  <2> QED
    BY <1>2, <2>2 DEF Idle, Early
<1> QED
  BY <1>1, <1>2

LEMMA ServerKeeps ==
  ASSUME TypeOK, NEW e \in Ids, Server(e)
  PROVE  \A s \in Ids : /\ Idle(s) => Idle(s)'
                        /\ Fresh(s) => Fresh(s)'
                        /\ net'[s].link = "up" => net[s].link = "up"
<1> SUFFICES ASSUME NEW s \in Ids
             PROVE  /\ Idle(s) => net'[s].inbox = net[s].inbox /\ net'[s].srv = net[s].srv
                    /\ net'[s].link = "up" => net[s].link = "up"
  BY DEF Idle, Fresh, Early
<1>1. ASSUME NEW from \in Phases \ Early, NEW k, NEW to, Says(e, from, k, to)
      PROVE  /\ Idle(s) => net'[s].inbox = net[s].inbox /\ net'[s].srv = net[s].srv
             /\ net'[s].link = "up" => net[s].link = "up"
  BY <1>1 DEF Says, Idle, TypeOK, EndType
<1>2. ASSUME HangUp(e)
      PROVE  /\ Idle(s) => net'[s].inbox = net[s].inbox /\ net'[s].srv = net[s].srv
             /\ net'[s].link = "up" => net[s].link = "up"
  <2>1. ASSUME NEW l \in {"half", "reset", "torn"}, net' = [net EXCEPT ![e].link = l]
        PROVE  /\ net'[s].inbox = net[s].inbox /\ net'[s].srv = net[s].srv
               /\ net'[s].link = "up" => net[s].link = "up"
    BY <2>1 DEF TypeOK, EndType
  <2>2. ASSUME net[e].srv \notin Early, net[e].link = "up", NEW q,
               net' = [net EXCEPT ![e].inbox = q, ![e].link = "half"]
        PROVE  /\ Idle(s) => net'[s].inbox = net[s].inbox /\ net'[s].srv = net[s].srv
               /\ net'[s].link = "up" => net[s].link = "up"
    BY <2>2 DEF Idle, TypeOK, EndType
  <2> QED
    BY <1>2, <2>1, <2>2 DEF HangUp, Early, Joining
<1>3. CASE Serve(e)
  <2>1. \E k, to : \/ Says(e, "asked", k, to) \/ Says(e, "pinged", k, to)
                   \/ Says(e, "named", k, to) \/ Says(e, "ready", k, to)
                   \/ Says(e, "play", k, to)
    BY <1>3, Zenon DEF Serve
  <2>2. /\ "asked" \in Phases \ Early /\ "pinged" \in Phases \ Early
        /\ "named" \in Phases \ Early /\ "ready" \in Phases \ Early
        /\ "play" \in Phases \ Early
    BY DEF Phases, Early, Joining
  <2> QED
    BY <1>1, <2>1, <2>2, Zenon
<1> QED
  BY <1>2, <1>3 DEF Server

-----------------------------------------------------------------------------
(***************************************************************************)
(* The abstract steps, with what they do to the locals and the attributes. *)
(***************************************************************************)
Keeps == \A s \in Ids : Idle(s) => Idle(s)'

\* The queue is left alone, gets a chat line, or its head is sent.
Sends ==
  \/ conn'.queue \in {conn.queue, Append(conn.queue, "early chat")} /\ Keeps
  \/ /\ conn.queue # <<>> /\ conn'.queue = Tail(conn.queue)
     /\ Head(conn.queue) \notin {"request", "hello login"} => Keeps

\* Thread t does not fail, or fails where nothing is left to react to.
Minds(t) ==
  /\ job[t].next => \/ pc'[t] \in {"exit", "final"}
                    \/ job'[t].exc = "early" /\ pc'[t] = "report"
  /\ job'[t].bad = "io" => Fails(t)'
  /\ conn'.file_object = conn.file_object
  /\ conn'.socket \in {conn.socket, None, Hollow, dials}
  /\ \A s \in Ids : s # conn.socket /\ Fresh(s) => Fresh(s)'
  /\ conn'.reactor = "query" => conn.reactor = "query" /\ Sends

LEMMA MoreOf ==
  ASSUME NEW S, NEW q \in Seq(S), NEW k \in S
  PROVE  /\ Append(q, k) \in Seq(S) /\ Len(q) \in Nat
         /\ Len(Append(q, k)) = Len(q) + 1
         /\ Append(q, k)[Len(q) + 1] = k
         /\ \A i \in 1..Len(q) : Append(q, k)[i] = q[i]
         /\ \A i \in 1..Len(Append(q, k)) : i \in 1..Len(q) \/ i = Len(q) + 1
<1>1. /\ Append(q, k) \in Seq(S) /\ Len(q) \in Nat
      /\ Len(Append(q, k)) = Len(q) + 1
      /\ Append(q, k)[Len(q) + 1] = k
      /\ \A i \in 1..Len(q) : Append(q, k)[i] = q[i]
  OBVIOUS
<1>2. \A i \in 1..Len(Append(q, k)) : i \in 1..Len(q) \/ i = Len(q) + 1
  BY <1>1
<1> QED
  BY <1>1, <1>2

LEMMA TailOf ==
  ASSUME NEW S, NEW q \in Seq(S), q # <<>>
  PROVE  /\ Tail(q) \in Seq(S) /\ Len(q) \in Nat /\ Len(Tail(q)) = Len(q) - 1
         /\ Head(q) = q[1] /\ 1 \in 1..Len(q)
         /\ \A i \in 1..Len(Tail(q)) : Tail(q)[i] = q[i + 1] /\ i + 1 \in 1..Len(q)
         /\ Tail(q) # <<>> => 1 # Len(q)
<1>1. /\ Tail(q) \in Seq(S) /\ Len(q) \in Nat /\ Len(Tail(q)) = Len(q) - 1
      /\ Head(q) = q[1]
      /\ \A i \in 1..Len(Tail(q)) : Tail(q)[i] = q[i + 1]
  OBVIOUS
<1>2. Len(q) > 0
  OBVIOUS
<1>3. Tail(q) # <<>> => Len(Tail(q)) # 0
  BY <1>1
<1> QED
  BY <1>1, <1>2, <1>3

LEMMA ClientSays == {"early chat", "hello status", "request"} \subseteq Serverbound
BY DEF Serverbound

LEMMA HoldsMore ==
  ASSUME NEW S, NEW q \in Seq(S), NEW ks, NEW ls, NEW k \in S,
         Holds(q, ks), ks \subseteq ls, k \in ls
  PROVE  /\ Holds(Append(q, k), ls)
         /\ k \notin ks => \A i \in 1..Len(Append(q, k)) :
                             Append(q, k)[i] = k => i = Len(Append(q, k))
<1>1. /\ Len(q) \in Nat /\ Len(Append(q, k)) = Len(q) + 1
      /\ \A i \in 1..Len(q) : Append(q, k)[i] = q[i]
      /\ Append(q, k)[Len(q) + 1] = k
      /\ \A i \in 1..Len(Append(q, k)) : i \in 1..Len(q) \/ i = Len(q) + 1
  BY MoreOf
<1> QED
  BY <1>1 DEF Holds

\* The conditions on the queue outlive its head.
LEMMA OwingLess ==
  ASSUME NEW S, NEW q \in Seq(S), q # <<>>
  PROVE  /\ Owing(Tail(q)) => Owing(q)
         /\ Head(q) # "early chat" => Owing(q)
         /\ \A ks : Holds(q, ks) => Holds(Tail(q), ks)
         /\ RequestLast(q) =>
              /\ RequestLast(Tail(q))
              /\ Head(q) = "request" => ~ Owing(Tail(q))
<1>1. /\ Tail(q) \in Seq(S) /\ Len(q) \in Nat /\ Len(Tail(q)) = Len(q) - 1
      /\ Head(q) = q[1] /\ 1 \in 1..Len(q)
      /\ \A i \in 1..Len(Tail(q)) : Tail(q)[i] = q[i + 1] /\ i + 1 \in 1..Len(q)
  BY TailOf
<1>2. /\ Owing(Tail(q)) => Owing(q)
      /\ Head(q) # "early chat" => Owing(q)
      /\ \A ks : Holds(q, ks) => Holds(Tail(q), ks)
  BY <1>1 DEF Owing, Holds
<1>3. ASSUME RequestLast(q), NEW i \in 1..Len(Tail(q)), NEW j \in 1..Len(Tail(q)),
             Tail(q)[i] = "request", i < j
      PROVE  Tail(q)[j] = "early chat"
  <2>1. \A m, n \in Int : m < n => m + 1 < n + 1
    OBVIOUS
  <2>2. i \in Int /\ j \in Int
    OBVIOUS
  <2>3. i + 1 < j + 1
    BY <1>3, <2>1, <2>2
  <2>4. q[i + 1] = "request" /\ i + 1 \in 1..Len(q) /\ j + 1 \in 1..Len(q)
    BY <1>1, <1>3
  <2>5. q[j + 1] = "early chat"
    BY <1>3, <2>3, <2>4, Zenon DEF RequestLast
  <2> QED
    BY <1>1, <2>5
<1>4. ASSUME RequestLast(q), Head(q) = "request", NEW j \in 1..Len(Tail(q))
      PROVE  Tail(q)[j] = "early chat"
  <2>1. \A n \in Nat : \A m \in 1..n : 1 < m + 1
    OBVIOUS
  <2>2. Len(Tail(q)) \in Nat
    BY <1>1
  <2>3. 1 < j + 1
    BY <2>1, <2>2
  <2>4. q[1] = "request" /\ 1 \in 1..Len(q) /\ j + 1 \in 1..Len(q)
    BY <1>1, <1>4
  <2>5. q[j + 1] = "early chat"
    BY <1>4, <2>3, <2>4, Zenon DEF RequestLast
  <2> QED
    BY <1>1, <2>5
<1> QED
  BY <1>2, <1>3, <1>4 DEF RequestLast, Owing

\* And they outlive a chat line.
LEMMA OwingMore ==
  ASSUME NEW S, NEW q \in Seq(S), NEW k \in S
  PROVE  k = "early chat" =>
           /\ Owing(Append(q, k)) => Owing(q)
           /\ RequestLast(q) => RequestLast(Append(q, k))
<1>1. /\ Len(q) \in Nat /\ Len(Append(q, k)) = Len(q) + 1
      /\ \A i \in 1..Len(q) : Append(q, k)[i] = q[i]
      /\ Append(q, k)[Len(q) + 1] = k
      /\ \A i \in 1..Len(Append(q, k)) : i \in 1..Len(q) \/ i = Len(q) + 1
  BY MoreOf
<1>2. ASSUME k = "early chat", RequestLast(q), NEW i \in 1..Len(Append(q, k)),
             NEW j \in 1..Len(Append(q, k)), Append(q, k)[i] = "request", i < j
      PROVE  Append(q, k)[j] = "early chat"
  <2>1. CASE j \in 1..Len(q)
    <3>1. i \in 1..Len(q)
      BY <1>1, <1>2, <2>1
    <3>2. q[i] = "request" /\ Append(q, k)[j] = q[j]
      BY <1>1, <1>2, <2>1, <3>1
    <3> QED
      BY <1>2, <2>1, <3>1, <3>2, Zenon DEF RequestLast
  <2>2. CASE j = Len(q) + 1
    BY <1>1, <1>2, <2>2
  <2> QED
    BY <1>1, <2>1, <2>2
<1>3. k = "early chat" => (Owing(Append(q, k)) => Owing(q))
  BY <1>1, Zenon DEF Owing
<1> QED
  BY <1>2, <1>3 DEF RequestLast

LEMMA SendsAsking ==
  ASSUME TypeOK, Asking, conn'.reactor = "query" => conn.reactor = "query" /\ Sends,
         conn'.file_object = conn.file_object,
         \A p \in Procs : pc[p] # "going"
  PROVE  Asking'
<1> DEFINE q == conn.queue
<1> SUFFICES ASSUME conn'.reactor = "query", Owing(conn'.queue)
             PROVE  /\ \A s \in Ids : s = conn.file_object => Idle(s)'
                    /\ Holds(conn'.queue, {"early chat", "hello status", "request"})
                    /\ RequestLast(conn'.queue)
  BY DEF Asking
<1>1. conn.reactor = "query" /\ Sends /\ q \in Seq(Serverbound)
  BY DEF TypeOK, ConnType
<1>2. ASSUME Owing(q)
      PROVE  /\ \A s \in Ids : s = conn.file_object => Idle(s)
             /\ Holds(q, {"early chat", "hello status", "request"})
             /\ RequestLast(q)
  BY <1>1, <1>2 DEF Asking
<1>3. CASE conn'.queue = q /\ Keeps
  BY <1>2, <1>3 DEF Keeps
<1>4. CASE conn'.queue = Append(q, "early chat") /\ Keeps
  <2> HIDE DEF q
  <2>1. "early chat" \in Serverbound
    BY DEF Serverbound
  <2> DEFINE ks == {"early chat", "hello status", "request"}
  <2>2. /\ Owing(Append(q, "early chat")) => Owing(q)
        /\ RequestLast(q) => RequestLast(Append(q, "early chat"))
    BY <1>1, <2>1, OwingMore, Zenon
  <2>3. Owing(q) /\ (RequestLast(q) => RequestLast(conn'.queue))
    BY <1>4, <2>2
  <2>4. Holds(q, ks) /\ RequestLast(q)
    BY <1>2, <2>3
  <2>5. Holds(Append(q, "early chat"), ks)
    <3>1. ks \subseteq ks /\ "early chat" \in ks
      OBVIOUS
    <3> HIDE DEF ks
    <3> QED
      BY <1>1, <2>1, <2>4, <3>1, HoldsMore, Zenon
  <2> QED
    BY <1>2, <1>4, <2>2, <2>3, <2>4, <2>5 DEF Keeps
<1>5. CASE /\ q # <<>> /\ conn'.queue = Tail(q)
           /\ Head(q) \notin {"request", "hello login"} => Keeps
  <2> HIDE DEF q
  <2>1. Owing(q)
    BY <1>1, <1>5, OwingLess
  <2>2. /\ Holds(conn'.queue, {"early chat", "hello status", "request"})
        /\ RequestLast(conn'.queue) /\ Head(q) # "request"
    BY <1>1, <1>2, <1>5, <2>1, OwingLess
  <2>3. Head(q) # "hello login"
    BY <1>1, <1>2, <1>5, <2>1, TailOf DEF Holds
  <2> QED
    BY <1>2, <1>5, <2>1, <2>2, <2>3 DEF Keeps
<1> QED
  BY <1>1, <1>3, <1>4, <1>5 DEF Sends

LEMMA WorksKin ==
  ASSUME TypeOK, ThreadInv, Life, Kin, ~ Hasty, NEW t \in Ids, Working(t), Minds(t)
  PROVE  Kin'
<1>1. PICK l : Works(t, l)
  BY DEF Working
<1>0. /\ pc' = [pc EXCEPT ![t] = l] /\ pc \in [Procs -> ThreadPCs \cup CallerPCs]
      /\ UNCHANGED <<networking_thread, new_networking_thread, dials>>
      /\ pc[t] \in Active \ {"going"} /\ l \in Active \ {"opening", "going"}
      /\ \A u \in Ids : u \in Procs /\ u # None
      /\ networking_thread = t /\ dials \in Nat
      /\ \A u \in Ids : u # t => pc[u] \notin Active
  BY <1>1, ProcsApart DEF Works, TypeOK, Procs, ThreadInv, OneReader
<1>2. \A p \in Procs : pc'[p] = IF p = t THEN l ELSE pc[p]
  BY <1>0
<1>3. Calm' /\ \A p \in Procs : pc[p] # "going"
  <2>1. CASE pc[t] = "opening"
    BY <1>0, <1>2, <2>1, WhoDials DEF Calm
  <2>2. CASE pc[t] # "opening"
    <3>1. Calm
      BY <1>0, <2>2, CalmWhen
    <3> QED
      BY <1>0, <1>2, <3>1 DEF Calm
  <2> QED
    BY <2>1, <2>2
<1>4. Heirs'
  <2>1. \A u \in Ids : /\ job'[u].next = job[u].next /\ (interrupt[u] => interrupt'[u])
                       /\ u # t => job'[u] = job[u] /\ pc'[u] = pc[u]
    BY <1>0, <1>1, <1>2 DEF Works
  <2>2. /\ \A u \in Ids : job[u].next =>
             /\ interrupt[u]
             /\ \/ pc[u] \in {"turn", "exit", "final", "dead"}
                \/ job[u].exc = "early" /\ pc[u] \in {"raise", "report"}
        /\ networking_thread # None /\ new_networking_thread # None =>
             job[networking_thread].next
    BY DEF Kin, Heirs
  <2>3. job[t].next => pc'[t] \in {"exit", "final"} \/ (job'[t].exc = "early" /\ pc'[t] = "report")
    BY DEF Minds
  <2> QED
    BY <1>0, <2>1, <2>2, <2>3 DEF Heirs
<1>5. Failing'
  <2>1. \A u \in Ids : u # t => job'[u].bad # "io"
    BY <1>0, <1>1, ActivePlaces DEF Works, Kin, Failing, Fails, FailingPlaces, Active
  <2> QED
    BY <2>1 DEF Minds, Failing, Fails
<1>6. Asking'
  BY <1>3, SendsAsking DEF Minds, Kin
<1>7. Dialing'
  <2>1. /\ conn.socket \in Ids => conn.socket <= dials
        /\ \A s \in Ids : s > dials => Fresh(s)
        /\ conn'.socket \in {conn.socket, None, Hollow, dials}
        /\ \A s \in Ids : s # conn.socket /\ Fresh(s) => Fresh(s)'
    BY DEF Kin, Dialing, Minds
  <2>2. conn'.socket \in Ids => conn'.socket <= dials
    BY <1>0, <2>1 DEF Ids
  <2>3. \A s \in Ids : s > dials => Fresh(s)'
    BY <1>0, <2>1 DEF Ids
  <2> QED
    BY <1>0, <1>3, <2>2, <2>3 DEF Dialing, Calm
<1> QED
  BY <1>4, <1>5, <1>6, <1>7 DEF Kin

\* What a program or a server does beside a thread.
Besides ==
  /\ conn'.file_object = conn.file_object /\ conn'.reactor = conn.reactor
  /\ conn'.socket \in {conn.socket, None, Hollow, dials}
  /\ (Silent => Silent') \/ \A t \in Ids : pc[t] \notin Active
  /\ \/ Calm \/ Calm'
     \/ /\ \A s \in Ids : Fresh(s) => Fresh(s)'
        /\ conn'.queue \in {conn.queue, Append(conn.queue, "early chat")}
        /\ Direct' = Direct
  /\ \A s \in Ids : s # conn.socket /\ Fresh(s) => Fresh(s)'
  /\ conn.reactor = "query" => Sends

LEMMA AsideKin ==
  ASSUME TypeOK, ThreadInv, Life, Kin, ~ Hasty, Aside, Besides
  PROVE  Kin'
<1>0. /\ UNCHANGED <<networking_thread, new_networking_thread, dials, job>>
      /\ pc \in [Procs -> ThreadPCs \cup CallerPCs] /\ dials \in Nat
      /\ \A u \in Ids : u \in Procs /\ u \notin Callers
      /\ \A c \in Callers : c \in Procs
  BY ProcsApart DEF Aside, TypeOK, Procs
<1>1. /\ \A u \in Ids : pc'[u] = pc[u] /\ (interrupt[u] => interrupt'[u])
      /\ \A p \in Procs : /\ pc'[p] \in {"opening", "going"} => pc'[p] = pc[p]
                          /\ pc[p] = "going" => pc'[p] = "going"
  <2>1. \A u \in Ids : interrupt[u] => interrupt'[u]
    BY DEF Aside, Interrupted, TypeOK
  <2>2. \A u \in Ids : pc'[u] = pc[u]
    BY <1>0 DEF Aside
  <2>3. \A p \in Procs : /\ pc'[p] \in {"opening", "going"} => pc'[p] = pc[p]
                         /\ pc[p] = "going" => pc'[p] = "going"
    BY <1>0 DEF Aside
  <2> QED
    BY <2>1, <2>2, <2>3
<1>2. Heirs'
  BY <1>0, <1>1 DEF Kin, Heirs
<1>3. Failing'
  <2> SUFFICES ASSUME NEW t \in Ids, job'[t].bad = "io" PROVE Fails(t)'
    BY DEF Failing
  <2>1. Fails(t) /\ pc'[t] = pc[t] /\ job'[t] = job[t]
    BY <1>0, <1>1 DEF Kin, Failing
  <2>2. pc[t] \in Active
    BY <2>1, ActivePlaces DEF Fails, FailingPlaces
  <2>3. (Silent => Silent') /\ conn'.reactor = conn.reactor
    BY <2>2 DEF Besides
  <2> QED
    BY <2>1, <2>3 DEF Fails
<1>4. Asking'
  <2>1. CASE \A p \in Procs : pc[p] # "going"
    BY <2>1, SendsAsking DEF Besides, Kin
  <2>2. CASE \E p \in Procs : pc[p] = "going"
    BY <1>1, <2>2 DEF Asking
  <2> QED
    BY <2>1, <2>2
<1>5. Dialing'
  <2>0. /\ conn.socket \in Ids => conn.socket <= dials
        /\ \A s \in Ids : s > dials => Fresh(s)
        /\ conn'.socket \in {conn.socket, None, Hollow, dials}
        /\ \A s \in Ids : s # conn.socket /\ Fresh(s) => Fresh(s)'
    BY DEF Kin, Dialing, Besides
  <2>1. /\ conn'.socket \in Ids => conn'.socket <= dials
        /\ \A s \in Ids : s > dials => Fresh(s)'
    BY <1>0, <2>0 DEF Ids
  <2>2. ASSUME NEW p \in Procs, pc'[p] \in {"opening", "going"}
        PROVE  /\ Fresh(dials)'
               /\ pc'[p] = "opening" => Holds(conn'.queue, {"early chat"})
               /\ pc'[p] = "going" =>
                    /\ conn'.file_object = dials
                    /\ Direct' \/ Holds(conn'.queue, {"early chat", "hello status"})
    <3>1. /\ pc[p] \in {"opening", "going"} /\ pc'[p] = pc[p] /\ ~ Calm /\ ~ Calm'
          /\ dials \in Ids
      BY <1>1, <2>2 DEF Calm, ThreadInv
    <3>2. /\ Fresh(dials)
          /\ pc[p] = "opening" => Holds(conn.queue, {"early chat"})
          /\ pc[p] = "going" => /\ conn.file_object = dials
                                /\ Direct \/ Holds(conn.queue, {"early chat", "hello status"})
      BY <3>1 DEF Kin, Dialing
    <3>3. /\ \A s \in Ids : Fresh(s) => Fresh(s)'
          /\ conn'.queue \in {conn.queue, Append(conn.queue, "early chat")}
          /\ Direct' = Direct /\ conn'.file_object = conn.file_object
          /\ conn.queue \in Seq(Serverbound)
      BY <3>1 DEF Besides, TypeOK, ConnType
    <3>4. Fresh(dials)'
      BY <1>0, <3>1, <3>2, <3>3 DEF Fresh
    <3>5. ASSUME NEW ks, "early chat" \in ks, Holds(conn.queue, ks) PROVE Holds(conn'.queue, ks)
      <4>1. "early chat" \in Serverbound /\ ks \subseteq ks
        BY ClientSays
      <4>2. Holds(Append(conn.queue, "early chat"), ks)
        BY <3>3, <3>5, <4>1, HoldsMore, Zenon
      <4> QED
        BY <3>3, <3>5, <4>2, Zenon
    <3> QED
      BY <3>1, <3>2, <3>3, <3>4, <3>5
  <2> QED
    BY <1>0, <2>1, <2>2 DEF Dialing
<1> QED
  BY <1>2, <1>3, <1>4, <1>5 DEF Kin

-----------------------------------------------------------------------------
(***************************************************************************)
(* Every step of a thread in its loop, its handlers or its ends minds.     *)
(***************************************************************************)

\* A write error is remembered only on the way to a read.
LEMMA TurnsFail ==
  ASSUME TypeOK, NEW t \in Ids
  PROVE  /\ \A exc : Raises(t, exc) => job'[t].bad # "io"
         /\ \A bad : EndTurn(t, bad) => job'[t].bad # "io"
         /\ \A n, bad : Onward(t, n, bad) => (job'[t].bad = "io" => bad = "io" /\ pc'[t] = "read")
         /\ Handled(t) => (job'[t].bad = "io" => job[t].bad = "io" /\ pc'[t] = "read")
<1>0. t \in Procs
  BY DEF Procs
<1>1. ASSUME NEW n, NEW bad, NEW exc, job' = [job EXCEPT ![t] = Locals(t, n, bad, exc)]
      PROVE  job'[t].bad = bad
  BY <1>1 DEF Locals, NoJob, TypeOK
<1>2. ASSUME NEW exc, Raises(t, exc) PROVE job'[t].bad # "io"
  BY <1>1, <1>2 DEF Raises
<1>3. ASSUME NEW bad, EndTurn(t, bad) PROVE job'[t].bad # "io"
  BY <1>1, <1>2, <1>3 DEF EndTurn, NewTurn
<1>4. ASSUME NEW n, NEW bad, Onward(t, n, bad), job'[t].bad = "io"
      PROVE  bad = "io" /\ pc'[t] = "read"
  <2>1. CASE Goto(t, "read") /\ job' = [job EXCEPT ![t] = Locals(t, n, bad, "none")]
    <3>1. job'[t].bad = bad
      BY <1>1, <2>1
    <3> QED
      BY <1>0, <1>4, <2>1, <3>1 DEF Goto, TypeOK
  <2> QED
    BY <1>3, <1>4, <2>1 DEF Onward
<1> QED
  BY <1>2, <1>3, <1>4, Zenon DEF Handled

LEMMA ResumesFail ==
  ASSUME TypeOK, NEW t \in Ids, Resumes(t), job[t].via = "query" => job[t].bad # "io"
  PROVE  job'[t].bad # "io"
<1>1. CASE /\ Goto(t, "turn")
           /\ job' = [job EXCEPT ![t] = [Locals(t, 0, "none", "none") EXCEPT !.kicked = TRUE]]
  <2>1. job'[t] = [Locals(t, 0, "none", "none") EXCEPT !.kicked = TRUE]
    BY <1>1 DEF TypeOK
  <2> QED
    BY <2>1 DEF Locals, NoJob
<1> QED
  BY <1>1, TurnsFail, Zenon DEF Resumes

\* Steps that leave the attributes and the servers alone, or only take or add
\* to the queue of a reactor that asks for nothing.
Leaves ==
  /\ conn'.file_object = conn.file_object /\ conn'.socket = conn.socket /\ net' = net
  /\ conn'.reactor = "query" => conn.reactor = "query" /\ conn'.queue = conn.queue

LEMMA LeavesMinds ==
  ASSUME NEW t \in Ids, Leaves,
         job[t].next => \/ pc'[t] \in {"exit", "final"}
                        \/ job'[t].exc = "early" /\ pc'[t] = "report",
         job'[t].bad = "io" => Fails(t)'
  PROVE  Minds(t)
BY DEF Leaves, Minds, Sends, Keeps, Fresh, Idle

\* What a sent packet leaves alone.
LEMMA SentMinds ==
  ASSUME TypeOK, NEW k \in Serverbound, Sent(k)
  PROVE  /\ \A s \in Ids : s # conn.socket => net'[s] = net[s]
         /\ k \notin {"request", "hello login"} => Keeps
         /\ conn'.file_object = conn.file_object /\ conn'.socket = conn.socket
              => (Silent => Silent')
BY SentKeeps DEF Keeps, Silent, Idle

LEMMA ClosedMinds ==
  ASSUME TypeOK, net' = ClosedEnds, conn' = ClosedConn
  PROVE  /\ conn'.file_object = conn.file_object /\ conn'.reactor = conn.reactor
         /\ conn'.queue = conn.queue /\ conn'.socket \in {conn.socket, None}
         /\ conn'.socket \notin Ids
         /\ \A s \in Ids : s # conn.socket => net'[s] = net[s]
         /\ Keeps /\ (Silent => Silent')
<1>1. /\ conn'.file_object = conn.file_object /\ conn'.reactor = conn.reactor
      /\ conn'.queue = conn.queue
      /\ conn'.socket = IF conn.socket = Hollow THEN Hollow ELSE None
  BY DEF TypeOK, ConnType, ClosedConn
<1>2. None \notin Ids /\ Hollow \notin Ids
  BY DEF Ids
<1>3. \A s \in Ids : /\ s # conn.socket => net'[s] = net[s]
                     /\ Idle(s) => Idle(s)'
  BY ClosedKeeps
<1> QED
  BY <1>1, <1>2, <1>3 DEF Keeps, Silent

LEMMA LoopMinds ==
  ASSUME TypeOK, ThreadInv, Life, Kin, ~ Hasty, NEW t \in Ids,
         Turn(t) \/ Write(t) \/ Written(t)
  PROVE  Minds(t)
<1>0. t \in Procs /\ job[t] \in JobType /\ conn \in ConnType /\ job[t].bad # "io"
      /\ conn.queue \in Seq(Serverbound)
      /\ \A l : pc' = [pc EXCEPT ![t] = l] => pc'[t] = l
  BY DEF TypeOK, Procs, ConnType, Kin, Failing, Fails, FailingPlaces, Turn, Write, Written
<1>1. CASE Turn(t)
  <2>1. job[t].next => pc'[t] = "exit"
    BY <1>0, <1>1 DEF Turn, Goto, Kin, Heirs
  <2> QED
    BY <1>0, <1>1, <2>1, LeavesMinds DEF Turn, Leaves
<1>2. ASSUME pc[t] = "writing" PROVE ~ job[t].next
  BY <1>2 DEF Kin, Heirs
<1>3. CASE Written(t)
  <2>1. job'[t].bad # "io"
    BY <1>3, TurnsFail DEF Written
  <2> QED
    BY <1>2, <1>3, <2>1, LeavesMinds DEF Written, Leaves
<1>4. CASE Write(t)
  <2> DEFINE k == Head(conn.queue)
  <2>1. /\ conn.queue # <<>> /\ conn' = [conn EXCEPT !.queue = Tail(@)]
        /\ k \in Serverbound /\ pc[t] = "writing" /\ lock = t
    BY <1>0, <1>4, QueueTail DEF Write, MorePackets, ThreadInv
  <2>2. /\ conn'.queue = Tail(conn.queue) /\ conn'.socket = conn.socket
        /\ conn'.file_object = conn.file_object /\ conn'.reactor = conn.reactor
    BY <1>0, <2>1 DEF ConnType
  <2> HIDE DEF k
  <2>3. ASSUME job'[t].bad = "io" => Fails(t)',
               \A s \in Ids : s # conn.socket => net'[s] = net[s],
               k \notin {"request", "hello login"} => Keeps
        PROVE  Minds(t)
    BY <1>2, <2>1, <2>2, <2>3 DEF Minds, Sends, Fresh, k
  <2>4. CASE Sent(k) /\ job' = [job EXCEPT ![t].num = @ + 1]
    <3>1. job'[t].bad = job[t].bad
      BY <1>0, <2>4 DEF TypeOK, JobType
    <3> QED
      BY <1>0, <2>1, <2>3, <2>4, <3>1, SentMinds
  <2>5. ASSUME UNCHANGED net, job'[t].bad = "io" => Fails(t)' PROVE Minds(t)
    BY <2>3, <2>5 DEF Keeps, Idle
  <2>6. CASE UNCHANGED net /\ SendIOError /\ Onward(t, job[t].num, Error(k))
    <3>1. job'[t].bad = "io" => Error(k) = "io" /\ pc'[t] = "read"
      BY <2>6, TurnsFail
    <3>2. Calm
      BY <2>1, CalmWhen, ActivePlaces
    <3>3. job'[t].bad = "io" /\ conn.reactor = "query" => Silent'
      <4>0. job'[t].bad = "io" => Owing(conn.queue)
        BY <1>0, <2>1, <3>1, OwingLess DEF Error, k
      <4>1. job'[t].bad = "io" /\ conn.reactor = "query" =>
              \A s \in Ids : s = conn.file_object => Idle(s)
        BY <2>1, <3>2, <4>0 DEF Calm, Kin, Asking
      <4>2. net[conn.socket].link # "up"
        BY <2>6 DEF SendIOError
      <4> QED
        BY <2>2, <2>6, <4>1, <4>2 DEF Silent, Idle
    <3> QED
      BY <2>2, <2>5, <2>6, <3>1, <3>3 DEF Fails, FailingPlaces
  <2>7. CASE UNCHANGED net /\ Raises(t, "attribute")
    <3>1. job'[t].bad # "io"
      BY <2>7, TurnsFail
    <3> QED
      BY <2>5, <2>7, <3>1
  <2> QED
    BY <1>4, <2>4, <2>6, <2>7, Zenon DEF Write, k
<1> QED
  BY <1>1, <1>3, <1>4

LEMMA ReadMinds ==
  ASSUME TypeOK, ThreadInv, Life, Kin, ~ Hasty, NEW t \in Ids, Read(t)
  PROVE  Minds(t)
<1> DEFINE s == conn.file_object
<1>0. /\ t \in Procs /\ job[t] \in JobType /\ conn' = conn /\ pc[t] = "read"
      /\ s \in Ids /\ ~ job[t].next
      /\ job[t].bad = "io" => (conn.reactor = "query" => Silent)
  BY DEF TypeOK, Procs, Read, ThreadInv, Kin, Failing, Fails, Heirs
<1> HIDE DEF s
<1>1. ASSUME UNCHANGED net, job'[t].bad = "io" => Fails(t)' PROVE Minds(t)
  BY <1>0, <1>1, LeavesMinds DEF Leaves
<1>2. CASE /\ UNCHANGED net
           /\ Raises(t, "io") \/ Raises(t, "eof") \/ EndTurn(t, job[t].bad)
  BY <1>1, <1>2, TurnsFail
<1>3. CASE UNCHANGED net /\ Goto(t, "stuck") /\ UNCHANGED job
  <2>1. pc'[t] = "stuck"
    BY <1>0, <1>3 DEF Goto, TypeOK
  <2> QED
    BY <1>1, <1>3, <2>1 DEF Fails, FailingPlaces
<1>4. CASE /\ net[s].inbox # <<>> /\ Goto(t, "react")
           /\ job' = [job EXCEPT ![t].pkt = Head(net[s].inbox), ![t].num = @ + 1]
           /\ net' = [net EXCEPT ![s].inbox = Tail(@)]
  <2>1. pc'[t] = "react" /\ job'[t].bad = job[t].bad
    BY <1>0, <1>4 DEF Goto, TypeOK, JobType
  <2>2. \A u \in Ids : u # s => net'[u] = net[u]
    BY <1>0, <1>4 DEF TypeOK
  <2>3. ~ Idle(s) /\ ~ Fresh(s)
    BY <1>4 DEF Idle, Fresh
  <2>4. Keeps /\ \A u \in Ids : Fresh(u) => Fresh(u)'
    BY <2>2, <2>3 DEF Keeps, Idle, Fresh
  <2>5. job[t].bad = "io" => conn.reactor # "query"
    BY <1>0, <2>3 DEF Silent, s
  <2>6. job'[t].bad = "io" => Fails(t)'
    BY <1>0, <2>1, <2>5 DEF Fails, FailingPlaces
  <2> QED
    BY <1>0, <2>4, <2>6 DEF Minds, Sends
<1> QED
  BY <1>2, <1>3, <1>4, Zenon DEF Read, s

LEMMA ReactMinds ==
  ASSUME TypeOK, ThreadInv, Life, Kin, ~ Hasty, NEW t \in Ids, React(t)
  PROVE  Minds(t)
<1> DEFINE r == conn.reactor
           k == job[t].pkt
<1>0. /\ t \in Procs /\ job[t] \in JobType /\ conn \in ConnType /\ net' = net
      /\ pc[t] = "react" /\ ~ job[t].next
      /\ job[t].bad = "io" => r # "query"
      /\ conn.queue \in Seq(Serverbound)
  BY DEF TypeOK, Procs, React, Kin, Failing, Fails, Heirs, ConnType
<1>1. ASSUME NEW l \in FailingPlaces, pc' = [pc EXCEPT ![t] = l], Leaves,
             job'[t].bad = "io" => job[t].bad = "io",
             job'[t].bad = "io" /\ l = "closing" => job'[t].via = r
      PROVE  Minds(t)
  <2>1. pc'[t] = l
    BY <1>0, <1>1 DEF TypeOK
  <2>2. job'[t].bad = "io" => Fails(t)'
    BY <1>0, <1>1, <2>1 DEF Fails, Leaves
  <2> QED
    BY <1>0, <1>1, <2>2, LeavesMinds
<1>2. CASE (Goto(t, "join") \/ Goto(t, "answer")) /\ UNCHANGED <<job, conn, lock>>
  BY <1>0, <1>1, <1>2 DEF Goto, FailingPlaces, Leaves
<1>3. CASE Raises(t, "login") /\ UNCHANGED <<conn, lock>>
  <2>1. job'[t].bad # "io"
    BY <1>3, TurnsFail
  <2> QED
    BY <1>0, <1>3, <2>1, LeavesMinds DEF Leaves
<1>4. CASE /\ conn' = [conn EXCEPT !.connected = FALSE]
           /\ job' = [job EXCEPT ![t].via = r] /\ Goto(t, "closing")
  <2>1. job'[t].bad = job[t].bad /\ job'[t].via = r
    BY <1>0, <1>4 DEF TypeOK, JobType
  <2>2. Leaves
    BY <1>0, <1>4 DEF Leaves, ConnType
  <2> QED
    BY <1>1, <1>4, <2>1, <2>2 DEF Goto, FailingPlaces
<1>5. CASE /\ conn' = [conn EXCEPT
                !.reactor = IF r = "login" /\ k = "success" THEN "play" ELSE @,
                !.zip = @ \/ (r \in {"login", "play"} /\ k = "set compression"),
                !.queue = @ \o Queues(r, k)]
           /\ Handled(t)
  <2>1. /\ conn'.file_object = conn.file_object /\ conn'.socket = conn.socket
        /\ conn'.reactor = "query" => conn.reactor = "query"
        /\ conn'.queue = conn.queue \o Queues(r, k)
    BY <1>0, <1>5 DEF ConnType
  <2>2. r = "query" => Queues(r, k) = <<>>
    BY DEF Queues
  <2>3. conn'.reactor = "query" => conn'.queue = conn.queue
    <3>1. \A q \in Seq(Serverbound) : q \o <<>> = q
      OBVIOUS
    <3> QED
      BY <1>0, <2>1, <2>2, <3>1, Zenon
  <2>4. job'[t].bad = "io" => Fails(t)'
    <3>1. job'[t].bad = "io" => job[t].bad = "io" /\ pc'[t] = "read"
      BY <1>5, TurnsFail
    <3> QED
      BY <1>0, <2>1, <3>1 DEF Fails, FailingPlaces
  <2> QED
    BY <1>0, <2>1, <2>3, <2>4, LeavesMinds DEF Leaves
<1> QED
  BY <1>2, <1>3, <1>4, <1>5, Zenon DEF React

LEMMA LoginMinds ==
  ASSUME TypeOK, ThreadInv, Life, Kin, ~ Hasty, NEW t \in Ids,
         (\E a \in BOOLEAN : Join(t, a)) \/ Answer(t) \/ Wrap(t)
  PROVE  Minds(t)
<1>0. /\ t \in Procs /\ job[t] \in JobType /\ conn \in ConnType
      /\ pc[t] \in {"join", "answer", "wrap"} /\ ~ job[t].next
      /\ job[t].bad = "io" => conn.reactor # "query"
      /\ \A l : Goto(t, l) => pc'[t] = l
      /\ conn'.reactor = conn.reactor /\ conn'.queue = conn.queue
      /\ conn'.file_object = conn.file_object
      /\ conn'.socket \in {conn.socket, Hollow}
  <2>1. /\ t \in Procs /\ job[t] \in JobType /\ conn \in ConnType
        /\ \A l : Goto(t, l) => pc'[t] = l
    BY DEF TypeOK, Procs, Goto
  <2>2. pc[t] \in {"join", "answer", "wrap"}
    BY DEF Join, Answer, Wrap
  <2>3. ~ job[t].next /\ (job[t].bad = "io" => conn.reactor # "query")
    BY <2>2 DEF Kin, Failing, Fails, Heirs
  <2>4. /\ conn'.reactor = conn.reactor /\ conn'.queue = conn.queue
        /\ conn'.file_object = conn.file_object
        /\ conn'.socket \in {conn.socket, Hollow}
    BY <2>1 DEF Join, Answer, Wrap, ConnType
  <2> QED
    BY <2>1, <2>2, <2>3, <2>4
<1>1. job'[t].bad = "io" => Fails(t)'
  <2>1. CASE \E exc : Raises(t, exc)
    BY <2>1, TurnsFail
  <2>2. CASE UNCHANGED job /\ (Goto(t, "answer") \/ Goto(t, "wrap"))
    BY <1>0, <2>2 DEF Fails, FailingPlaces
  <2>3. CASE Handled(t)
    <3>1. job'[t].bad = "io" => job[t].bad = "io" /\ pc'[t] = "read"
      BY <2>3, TurnsFail
    <3> QED
      BY <1>0, <3>1 DEF Fails, FailingPlaces
  <2> QED
    BY <2>1, <2>2, <2>3, Zenon DEF Join, Answer, Wrap
<1>2. Keeps /\ \A s \in Ids : s # conn.socket => net'[s] = net[s]
  <2>1. CASE net' = net
    BY <2>1 DEF Keeps, Idle
  <2>2. CASE Sent("encryption response")
    BY <2>2, SentMinds DEF Serverbound
  <2> QED
    BY <2>1, <2>2 DEF Join, Answer, Wrap
<1> QED
  BY <1>0, <1>1, <1>2 DEF Minds, Sends, Fresh

LEMMA ClosingMinds ==
  ASSUME TypeOK, ThreadInv, Life, Kin, ~ Hasty, NEW t \in Ids, Flush(t) \/ Close(t)
  PROVE  Minds(t)
<1>0. /\ t \in Procs /\ conn \in ConnType /\ pc[t] = "closing" /\ ~ job[t].next
      /\ job[t].bad = "io" => conn.reactor # "query" /\ job[t].via # "query"
      /\ conn.queue \in Seq(Serverbound)
  BY DEF TypeOK, Procs, ConnType, Flush, Close, Kin, Failing, Fails, Heirs
<1>1. CASE Flush(t)
  <2> DEFINE k == Head(conn.queue)
  <2>1. /\ conn.queue # <<>> /\ conn' = [conn EXCEPT !.queue = Tail(@)]
        /\ k \in Serverbound
    BY <1>1, QueueTail DEF Flush
  <2>2. /\ conn'.queue = Tail(conn.queue) /\ conn'.socket = conn.socket
        /\ conn'.file_object = conn.file_object /\ conn'.reactor = conn.reactor
    BY <1>0, <2>1 DEF ConnType
  <2> HIDE DEF k
  <2>3. ASSUME job'[t].bad = "io" => Fails(t)',
               \A s \in Ids : s # conn.socket => net'[s] = net[s],
               k \notin {"request", "hello login"} => Keeps
        PROVE  Minds(t)
    BY <1>0, <2>1, <2>2, <2>3 DEF Minds, Sends, Fresh, k
  <2>4. CASE Sent(k) /\ UNCHANGED <<lock, pc, job>>
    BY <1>0, <2>1, <2>2, <2>3, <2>4, SentMinds DEF Fails, FailingPlaces
  <2>5. CASE UNCHANGED net /\ \E exc : Raises(t, exc)
    BY <2>3, <2>5, TurnsFail DEF Keeps, Idle
  <2> QED
    BY <1>1, <2>4, <2>5, Zenon DEF Flush, k
<1>2. CASE Close(t)
  <2>1. net' = ClosedEnds /\ conn' = ClosedConn
    BY <1>2, Zenon DEF Close
  <2>2. job'[t].bad # "io"
    BY <1>0, <1>2, TurnsFail, ResumesFail, Zenon DEF Close
  <2>3. /\ conn'.file_object = conn.file_object /\ conn'.reactor = conn.reactor
        /\ conn'.queue = conn.queue /\ conn'.socket \in {conn.socket, None}
        /\ \A s \in Ids : s # conn.socket => net'[s] = net[s]
        /\ Keeps
    BY <2>1, ClosedMinds
  <2> QED
    BY <1>0, <2>2, <2>3 DEF Minds, Sends, Fresh
<1> QED
  BY <1>1, <1>2

LEMMA EndMinds ==
  ASSUME TypeOK, ThreadInv, Life, Kin, ~ Hasty, NEW t \in Ids, Ending(t)
  PROVE  Minds(t)
<1>0. /\ t \in Procs /\ job[t] \in JobType /\ conn \in ConnType
      /\ pc[t] \in Failed \cup {"raise", "narrow", "exit"} /\ job[t].bad # "io"
      /\ job[t].next =>
           pc[t] = "exit" \/ (job[t].exc = "early" /\ pc[t] \in {"raise", "report"})
  BY DEF TypeOK, Procs, Ending, Raise, Handle, Clear, Narrow, Report, Exit, Kin,
         Failing, Fails, FailingPlaces, Heirs, Failed
<1>1. job[t].next => \/ pc'[t] \in {"exit", "final"}
                     \/ job'[t].exc = "early" /\ pc'[t] = "report"
  <2>1. CASE Raise(t)
    BY <1>0, <2>1 DEF Raise, Goto, TypeOK
  <2>2. CASE Handle(t) \/ Clear(t) \/ Narrow(t)
    BY <1>0, <2>2 DEF Handle, Clear, Narrow
  <2>3. CASE Report(t) \/ Exit(t)
    BY <1>0, <2>3 DEF Report, Exit, Goto, TypeOK
  <2> QED
    BY <2>1, <2>2, <2>3 DEF Ending
<1>2. job'[t].bad # "io"
  <2>1. CASE Report(t)
    <3>1. job'[t] = [Locals(t, 0, "none", "none") EXCEPT !.told = "exception"]
      BY <2>1 DEF Report, TypeOK
    <3> QED
      BY <3>1 DEF Locals, NoJob
  <2>2. CASE Raise(t) \/ Handle(t) \/ Narrow(t)
    BY <1>0, <2>2 DEF Raise, Handle, Narrow
  <2>3. CASE Exit(t)
    BY <1>0, <2>3 DEF Exit, TypeOK, JobType
  <2>4. CASE Clear(t)
    BY <1>0, <2>4 DEF Clear, TypeOK, JobType
  <2> QED
    BY <2>1, <2>2, <2>3, <2>4 DEF Ending
<1>3. CASE UNCHANGED <<conn, net>>
  BY <1>1, <1>2, <1>3, LeavesMinds DEF Leaves
<1>4. CASE net' = ClosedEnds /\ conn' = ClosedConn
  <2>1. /\ conn'.file_object = conn.file_object /\ conn'.reactor = conn.reactor
        /\ conn'.queue = conn.queue /\ conn'.socket \in {conn.socket, None}
        /\ \A s \in Ids : s # conn.socket => net'[s] = net[s]
        /\ Keeps
    BY <1>4, ClosedMinds
  <2> QED
    BY <1>1, <1>2, <2>1 DEF Minds, Sends, Fresh
<1>5. CASE Narrow(t)
  <2>1. /\ conn'.file_object = conn.file_object /\ conn'.reactor = conn.reactor
        /\ conn'.queue = conn.queue /\ conn'.socket = conn.socket /\ net' = net
    BY <1>0, <1>5 DEF Narrow, ConnType
  <2> QED
    BY <1>1, <1>2, <2>1, LeavesMinds DEF Leaves
<1> QED
  BY <1>3, <1>4, <1>5, Zenon DEF Ending, Raise, Handle, Clear, Report, Exit

\* A thread's call that fails.
LEMMA FailedMinds ==
  ASSUME TypeOK, ThreadInv, Kin, NEW t \in Ids, NEW exc, CallFails(t, exc),
         pc[t] \in {"dial", "opening"}, net' = net,
         \/ conn' = conn
         \/ conn' = [conn EXCEPT !.socket = dials, !.key = None]
  PROVE  Minds(t)
<1>0. job[t] \in JobType /\ conn \in ConnType /\ job[t].bad # "io" /\ ~ job[t].next
  BY DEF TypeOK, Kin, Failing, Fails, FailingPlaces, Heirs
<1>1. job'[t].bad # "io"
  <2>1. CASE job' = [job EXCEPT ![t].exc = exc]
    BY <1>0, <2>1 DEF TypeOK, JobType
  <2> QED
    BY <2>1, TurnsFail, Zenon DEF CallFails
<1>2. /\ conn'.file_object = conn.file_object /\ conn'.reactor = conn.reactor
      /\ conn'.queue = conn.queue /\ conn'.socket \in {conn.socket, dials}
  BY <1>0 DEF ConnType
<1> QED
  BY <1>0, <1>1, <1>2 DEF Minds, Sends, Keeps, Idle, Fresh

-----------------------------------------------------------------------------
(***************************************************************************)
(* What programs and servers do beside the threads.                        *)
(***************************************************************************)
LEMMA CallBesides ==
  ASSUME TypeOK, ThreadInv, Life, ~ Hasty, NEW c \in Callers, Flush(c) \/ Close(c)
  PROVE  Besides
<1>0. /\ c \in Procs /\ conn \in ConnType /\ pc[c] = "closing" /\ Calm
      /\ conn.queue \in Seq(Serverbound)
  <2>1. c \in Procs /\ conn \in ConnType /\ pc[c] = "closing"
    BY DEF Procs, Flush, Close, TypeOK
  <2> QED
    BY <2>1, CalmWhen DEF ConnType
<1>1. CASE Flush(c)
  <2> DEFINE k == Head(conn.queue)
  <2>1. /\ conn.queue # <<>> /\ conn' = [conn EXCEPT !.queue = Tail(@)]
        /\ k \in Serverbound
    BY <1>1, QueueTail DEF Flush
  <2>2. /\ conn'.queue = Tail(conn.queue) /\ conn'.socket = conn.socket
        /\ conn'.file_object = conn.file_object /\ conn'.reactor = conn.reactor
    BY <1>0, <2>1 DEF ConnType
  <2> HIDE DEF k
  <2>3. ASSUME Silent => Silent',
               \A s \in Ids : s # conn.socket => net'[s] = net[s],
               k \notin {"request", "hello login"} => Keeps
        PROVE  Besides
    BY <1>0, <2>1, <2>2, <2>3 DEF Besides, Sends, Fresh, k
  <2>4. CASE Sent(k)
    BY <2>1, <2>2, <2>3, <2>4, SentMinds
  <2>5. CASE net' = net
    BY <2>2, <2>3, <2>5 DEF Keeps, Idle, Silent
  <2> QED
    BY <1>1, <2>4, <2>5 DEF Flush, k
<1>2. CASE Close(c)
  <2>1. net' = ClosedEnds /\ conn' = ClosedConn
    BY <1>2, Zenon DEF Close
  <2>2. /\ conn'.file_object = conn.file_object /\ conn'.reactor = conn.reactor
        /\ conn'.queue = conn.queue /\ conn'.socket \in {conn.socket, None}
        /\ \A s \in Ids : s # conn.socket => net'[s] = net[s]
        /\ Keeps /\ (Silent => Silent')
    BY <2>1, ClosedMinds
  <2> QED
    BY <1>0, <2>2 DEF Besides, Sends, Fresh
<1> QED
  BY <1>1, <1>2

LEMMA OtherBesides ==
  ASSUME TypeOK, ThreadInv, Life, ~ Hasty,
         \/ \E c \in Callers : \/ \E i \in BOOLEAN : Disconnect(c, i)
                               \/ Chat(c) \/ ChatNow(c)
         \/ \E s \in Ids : Server(s)
         \/ UNCHANGED vars
  PROVE  Besides
<1>0. conn \in ConnType /\ conn.queue \in Seq(Serverbound)
  BY DEF TypeOK, ConnType
<1>1. ASSUME NEW c \in Callers, NEW i \in BOOLEAN, Disconnect(c, i) PROVE Besides
  <2>0. Calm
    BY <1>1, CalmWhen DEF Disconnect
  <2>1. CASE net' = ClosedEnds /\ conn' = ClosedConn
    <3>1. /\ conn'.file_object = conn.file_object /\ conn'.reactor = conn.reactor
          /\ conn'.queue = conn.queue /\ conn'.socket \in {conn.socket, None}
          /\ \A s \in Ids : s # conn.socket => net'[s] = net[s]
          /\ Keeps /\ (Silent => Silent')
      BY <2>1, ClosedMinds
    <3> QED
      BY <2>0, <3>1 DEF Besides, Sends, Fresh
  <2>2. CASE net' = net /\ conn' = [conn EXCEPT !.connected = FALSE]
    BY <1>0, <2>0, <2>2 DEF Besides, Sends, Fresh, Keeps, Idle, Silent, ConnType
  <2> QED
    BY <1>1, <2>1, <2>2, Zenon DEF Disconnect
<1>2. ASSUME NEW c \in Callers, Chat(c) PROVE Besides
  <2>1. conn' = Append1(conn, ChatLine) /\ net' = net /\ want' = want
    BY <1>2 DEF Chat
  <2>2. ~ Calm \/ conn.reactor = "query" => ChatLine = "early chat"
    BY DEF ChatLine, Calm
  <2>3. /\ conn'.queue = Append(conn.queue, ChatLine) /\ conn'.socket = conn.socket
        /\ conn'.file_object = conn.file_object /\ conn'.reactor = conn.reactor
        /\ conn'.allowed = conn.allowed
    BY <1>0, <2>1 DEF Append1, ConnType
  <2>4. Keeps /\ (Silent => Silent') /\ Direct' = Direct /\ \A s \in Ids : Fresh(s) => Fresh(s)'
    BY <2>1, <2>3 DEF Keeps, Silent, Idle, Direct, Fresh
  <2>5. conn.reactor = "query" => Sends
    BY <2>2, <2>3, <2>4 DEF Sends
  <2>6. Calm \/ conn'.queue = Append(conn.queue, "early chat")
    BY <2>2, <2>3
  <2> QED
    BY <2>3, <2>4, <2>5, <2>6 DEF Besides
<1>3. ASSUME NEW c \in Callers, ChatNow(c) PROVE Besides
  <2>1. conn' = conn /\ Calm /\ ChatLine \in Serverbound \ {"request", "hello login"}
    BY <1>3, CalmWhen DEF ChatNow, ChatLine, Serverbound
  <2>2. /\ \A s \in Ids : s # conn.socket => net'[s] = net[s]
        /\ Keeps /\ (Silent => Silent')
    <3>1. CASE net' = net
      BY <2>1, <3>1 DEF Silent, Idle, Keeps
    <3>2. CASE Sent(ChatLine)
      BY <2>1, <3>2, SentMinds
    <3> QED
      BY <1>3, <3>1, <3>2 DEF ChatNow
  <2> QED
    BY <2>1, <2>2 DEF Besides, Fresh, Sends
<1>4. ASSUME NEW e \in Ids, Server(e) PROVE Besides
  <2>1. conn' = conn /\ want' = want
    BY <1>4 DEF Server
  <2>2. \A s \in Ids : /\ Idle(s) => Idle(s)'
                       /\ Fresh(s) => Fresh(s)'
                       /\ net'[s].link = "up" => net[s].link = "up"
    BY <1>4, ServerKeeps
  <2> QED
    BY <2>1, <2>2 DEF Besides, Sends, Keeps, Silent, Direct
<1>5. CASE UNCHANGED vars
  BY <1>5 DEF vars, Besides, Sends, Keeps, Idle, Fresh, Silent, Direct
<1> QED
  BY <1>1, <1>2, <1>3, <1>4, <1>5

-----------------------------------------------------------------------------
(***************************************************************************)
(* Dialling, and the succession of threads.                                *)
(***************************************************************************)
LEMMA HoldsNone == \A ks : Holds(<<>>, ks)
<1>1. Len(<<>>) = 0 /\ ~ \E i \in 1..0 : TRUE
  OBVIOUS
<1> QED
  BY <1>1 DEF Holds

LEMMA OwingNone == ~ Owing(<<>>)
<1>1. Len(<<>>) = 0
  OBVIOUS
<1> QED
  BY <1>1 DEF Owing

LEMMA DialKin ==
  ASSUME TypeOK, ThreadInv, Life, Kin, ~ Hasty, NEW p \in Procs, NEW w, Dial(p, w), ~ Busy,
         p \in Ids => pc[p] = "dial"
  PROVE  Kin'
<1>0. /\ pc \in [Procs -> ThreadPCs \cup CallerPCs] /\ dials \in Nat /\ dials' \in Ids
      /\ dials < MaxDials /\ dials' = dials + 1 /\ conn \in ConnType
      /\ \A u \in Ids : u \in Procs
      /\ UNCHANGED <<networking_thread, new_networking_thread, interrupt, job, net>>
      /\ conn' = [conn EXCEPT !.queue = <<>>] /\ pc' = [pc EXCEPT ![p] = "opening"]
      /\ Calm
  BY NextId, CalmWhen DEF TypeOK, Procs, Dial, Goto
<1>1. \A q \in Procs : pc'[q] = IF q = p THEN "opening" ELSE pc[q]
  BY <1>0
<1>2. /\ conn'.queue = <<>> /\ conn'.reactor = conn.reactor /\ conn'.socket = conn.socket
      /\ conn'.file_object = conn.file_object
  BY <1>0 DEF ConnType
<1>3. Heirs'
  BY <1>0, <1>1 DEF Kin, Heirs
<1>4. Failing'
  BY <1>0, <1>1, <1>2 DEF Kin, Failing, Fails, FailingPlaces, Silent, Idle
<1>5. Asking'
  BY <1>2, OwingNone DEF Asking
<1>6. Dialing'
  <2>1. conn'.socket \in Ids => conn'.socket <= dials'
    <3>1. conn.socket \in Ids => conn.socket <= dials
      BY DEF Kin, Dialing
    <3>2. \A s \in Ids : s <= dials => s <= dials'
      BY <1>0 DEF Ids
    <3> QED
      BY <1>2, <3>1, <3>2
  <2>2. \A s \in Ids : s > dials => Fresh(s)'
    BY <1>0 DEF Kin, Dialing, Fresh
  <2>3. /\ \A s \in Ids : s > dials' => Fresh(s)'
        /\ Fresh(dials)'
    BY <1>0, <2>2 DEF Ids, Fresh
  <2>4. Holds(conn'.queue, {"early chat"})
    BY <1>2, HoldsNone
  <2> QED
    BY <1>0, <1>1, <2>1, <2>3, <2>4 DEF Dialing, Calm
<1> QED
  BY <1>3, <1>4, <1>5, <1>6 DEF Kin

LEMMA OpenKin ==
  ASSUME TypeOK, ThreadInv, Life, Kin, ~ Hasty, NEW p \in Procs, Open(p)
  PROVE  Kin'
<1> DEFINE k == IF Direct THEN "hello login" ELSE "hello status"
<1>0. /\ pc \in [Procs -> ThreadPCs \cup CallerPCs] /\ dials \in Ids /\ conn \in ConnType
      /\ \A u \in Ids : u \in Procs
      /\ UNCHANGED <<networking_thread, new_networking_thread, interrupt, job, dials, want>>
      /\ pc[p] = "opening" /\ pc' = [pc EXCEPT ![p] = "going"]
      /\ net' = [net EXCEPT ![dials].link = "up"]
      /\ conn.queue \in Seq(Serverbound)
  BY DEF TypeOK, Procs, Open, Goto, ThreadInv, ConnType
<1>1. \A q \in Procs : pc'[q] = IF q = p THEN "going" ELSE pc[q]
  BY <1>0
<1>2. /\ conn'.queue = Append(conn.queue, k) /\ conn'.reactor = conn.reactor
      /\ conn'.socket = dials /\ conn'.file_object = dials /\ Direct' = Direct
  <2>1. conn' = [Append1(conn, k) EXCEPT !.socket = dials, !.file_object = dials,
                   !.key = None, !.zip = FALSE, !.connected = TRUE]
    BY DEF Open
  <2>2. /\ Append1(conn, k) \in [DOMAIN conn -> {Append1(conn, k)[x] : x \in DOMAIN conn}]
        /\ Append1(conn, k).queue = Append(conn.queue, k)
        /\ Append1(conn, k).reactor = conn.reactor /\ Append1(conn, k).allowed = conn.allowed
    BY <1>0 DEF Append1, ConnType
  <2> HIDE DEF k
  <2>3. /\ conn'.queue = Append(conn.queue, k) /\ conn'.reactor = conn.reactor
        /\ conn'.socket = dials /\ conn'.file_object = dials
        /\ conn'.allowed = conn.allowed
    BY <1>0, <2>1, <2>2 DEF ConnType
  <2> QED
    BY <1>0, <2>3 DEF Direct
<1>3. /\ \A t \in Ids : t # p => pc[t] \notin Active
      /\ \A q \in Procs : q # p => pc[q] \notin {"opening", "going"}
  BY <1>0, WhoDials
<1>4. \A s \in Ids : /\ net'[s].inbox = net[s].inbox /\ net'[s].srv = net[s].srv
  BY <1>0 DEF TypeOK, EndType
<1>5. Heirs'
  BY <1>0, <1>1 DEF Kin, Heirs
<1>6. Failing'
  BY <1>0, <1>3, ActivePlaces DEF Kin, Failing, Fails, FailingPlaces, Active
<1>7. Asking'
  BY <1>1 DEF Asking
<1>8. Dialing'
  <2>1. \A s \in Ids : Fresh(s) => Fresh(s)'
    BY <1>4 DEF Fresh
  <2>2. Direct' \/ Holds(conn'.queue, {"early chat", "hello status"})
    <3>1. Holds(conn.queue, {"early chat"})
      BY <1>0 DEF Kin, Dialing
    <3>2. Holds(Append(conn.queue, "hello status"), {"early chat", "hello status"})
      BY <1>0, <3>1, ClientSays, HoldsMore
    <3> QED
      BY <1>2, <3>2
  <2>3. conn'.socket <= dials' /\ Fresh(dials)'
    <3>1. Fresh(dials)
      BY <1>0 DEF Kin, Dialing
    <3>2. \A s \in Ids : s <= s
      BY DEF Ids
    <3> QED
      BY <1>0, <1>2, <2>1, <3>1, <3>2 DEF Fresh
  <2>4. \A s \in Ids : s > dials' => Fresh(s)'
    BY <1>0, <2>1 DEF Kin, Dialing
  <2> QED
    BY <1>0, <1>1, <1>2, <1>3, <2>2, <2>3, <2>4 DEF Dialing
<1> QED
  BY <1>5, <1>6, <1>7, <1>8 DEF Kin

LEMMA GoKin ==
  ASSUME TypeOK, ThreadInv, Life, Kin, ~ Hasty, NEW p \in Procs, Go(p)
  PROVE  Kin'
<1> DEFINE first == IF networking_thread = None THEN "turn" ELSE "wait"
           next == IF p \notin Ids THEN "idle"
                   ELSE IF job[p].via = "handler" THEN "final"
                   ELSE IF job[p].bad # "none" THEN "raise" ELSE "turn"
           k == IF Direct THEN "start" ELSE "request"
<1>0. /\ pc \in [Procs -> ThreadPCs \cup CallerPCs] /\ dials \in Ids
      /\ \A u \in Ids : u \in Procs /\ u # None
      /\ conn \in ConnType /\ conn.queue \in Seq(Serverbound)
      /\ pc[p] = "going" /\ pc[dials] = "unborn" /\ p # dials
      /\ new_networking_thread = None
      /\ UNCHANGED <<interrupt, dials, net>>
  BY ProcsApart DEF TypeOK, Procs, Go, ThreadInv, Life, Lives, ConnType
<1>1. pc' = [pc EXCEPT ![dials] = first, ![p] = next]
  BY DEF Go
<1>2. /\ \A t \in Ids : t # p => pc[t] \notin Active
      /\ \A q \in Procs : q # p => pc[q] \notin {"opening", "going"}
  BY <1>0, WhoDials
<1>3. /\ p \in Ids => networking_thread = p /\ interrupt[p] /\ job[p].bad \in {"none", "early"}
      /\ p \notin Ids => networking_thread = None
  <2>1. p \in Ids => job[p].bad \in {"none", "early"}
    <3>1. p \in Ids => job[p].bad \in Errors
      BY DEF TypeOK, JobType
    <3> QED
      BY <1>0, <3>1 DEF Kin, Failing, Fails, FailingPlaces, Errors
  <2> QED
    BY <1>0, <2>1, ActivePlaces DEF ThreadInv, OneReader, Life, Lives, Leaving,
       Reported, Procs
<1>4. /\ p \in Ids => next \in {"final", "turn"} \/ (next = "raise" /\ job[p].bad = "early")
      /\ first \in {"turn", "wait"} /\ next \in {"idle", "final", "turn", "raise"}
  BY <1>3
<1> HIDE DEF first, next
<1>5. \A q \in Procs : pc'[q] = IF q = p THEN next ELSE IF q = dials THEN first ELSE pc[q]
  BY <1>0, <1>1
<1>6. /\ conn'.queue = Append(conn.queue, k) /\ conn'.socket = conn.socket
      /\ conn'.file_object = conn.file_object
      /\ conn'.reactor = "query" => ~ Direct
  <2>1. conn' = [Append1(conn, k) EXCEPT !.reactor = IF Direct THEN "login"
                                  ELSE IF want = "play" THEN "query" ELSE want]
    BY DEF Go
  <2>2. /\ Append1(conn, k) \in [DOMAIN conn -> {Append1(conn, k)[x] : x \in DOMAIN conn}]
        /\ Append1(conn, k).queue = Append(conn.queue, k)
        /\ Append1(conn, k).socket = conn.socket
        /\ Append1(conn, k).file_object = conn.file_object
    BY <1>0 DEF Append1, ConnType
  <2> HIDE DEF k
  <2> QED
    BY <1>0, <2>1, <2>2 DEF ConnType
<1>7. /\ \A u \in Ids : u # p => job'[u] = job[u]
      /\ p \in Ids => /\ job'[p].next /\ job'[p].bad = "none"
                      /\ job'[p].exc = job[p].bad
  <2>1. CASE p \notin Ids
    BY <2>1 DEF Go
  <2>2. CASE p \in Ids
    <3>1. job' = [job EXCEPT ![p] = [Locals(p, 0, "none", job[p].bad) EXCEPT !.next = TRUE]]
      BY <2>2, Zenon DEF Go
    <3>2. job'[p] = [Locals(p, 0, "none", job[p].bad) EXCEPT !.next = TRUE]
      BY <2>2, <3>1 DEF TypeOK
    <3>3. job'[p].next /\ job'[p].bad = "none" /\ job'[p].exc = job[p].bad
      BY <3>2 DEF Locals, NoJob
    <3> QED
      BY <3>1, <3>3 DEF TypeOK
  <2> QED
    BY <2>1, <2>2
<1>8. Heirs'
  <2>1. ASSUME NEW t \in Ids, job'[t].next
        PROVE  /\ interrupt'[t]
               /\ \/ pc'[t] \in {"turn", "exit", "final", "dead"}
                  \/ job'[t].exc = "early" /\ pc'[t] \in {"raise", "report"}
    <3>1. CASE t = p
      BY <1>0, <1>3, <1>4, <1>5, <1>7, <3>1
    <3>2. CASE t # p
      <4>1. job[t].next /\ t # dials
        BY <1>0, <1>7, <2>1, <3>2 DEF Kin, Heirs
      <4> QED
        BY <1>0, <1>5, <1>7, <3>2, <4>1 DEF Kin, Heirs
    <3> QED
      BY <3>1, <3>2
  <2>2. networking_thread' # None /\ new_networking_thread' # None => job'[networking_thread'].next
    <3>1. CASE p \in Ids
      BY <1>0, <1>3, <1>7, <3>1 DEF Go
    <3>2. CASE p \notin Ids
      BY <1>0, <1>3, <3>2 DEF Go
    <3> QED
      BY <3>1, <3>2
  <2> QED
    BY <2>1, <2>2 DEF Heirs
<1>9. Failing'
  <2>1. \A u \in Ids : job'[u].bad # "io"
    BY <1>2, <1>7, ActivePlaces DEF Kin, Failing, Fails, FailingPlaces, Active
  <2> QED
    BY <2>1 DEF Failing
<1>10. Fresh(dials) /\ conn.file_object = dials
       /\ (Direct \/ Holds(conn.queue, {"early chat", "hello status"}))
  BY <1>0 DEF Kin, Dialing
<1>11. Asking'
  <2> SUFFICES ASSUME conn'.reactor = "query"
               PROVE  /\ \A s \in Ids : s = conn'.file_object => Idle(s)'
                      /\ Holds(conn'.queue, {"early chat", "hello status", "request"})
                      /\ RequestLast(conn'.queue)
    BY DEF Asking
  <2>1. \A s \in Ids : s = conn'.file_object => Idle(s)'
    BY <1>0, <1>6, <1>10 DEF Fresh, Idle, Early
  <2>2. /\ conn'.queue = Append(conn.queue, "request")
        /\ Holds(conn.queue, {"early chat", "hello status"})
    BY <1>6, <1>10
  <2> DEFINE a == Append(conn.queue, "request")
             ks == {"early chat", "hello status"}
             ls == {"early chat", "hello status", "request"}
  <2>3. Holds(a, ls) /\ \A i \in 1..Len(a) : a[i] = "request" => i = Len(a)
    <3>1. /\ "request" \in Serverbound /\ "request" \notin ks
          /\ "request" \in ls /\ ks \subseteq ls
      BY ClientSays
    <3>2. conn.queue \in Seq(Serverbound) /\ Holds(conn.queue, ks)
      BY <1>0, <2>2
    <3> HIDE DEF ks, ls
    <3> QED
      BY <3>1, <3>2, HoldsMore
  <2>4. RequestLast(a)
    <3>1. Len(a) \in Nat
      <4>1. "request" \in Serverbound
        BY ClientSays
      <4>2. a \in Seq(Serverbound)
        BY <1>0, <4>1, MoreOf, Zenon
      <4> QED
        BY <4>2
    <3> HIDE DEF a
    <3>2. \A i, j \in 1..Len(a) : i = Len(a) => ~ (i < j)
      BY <3>1
    <3> QED
      BY <2>3, <3>2, Zenon DEF RequestLast
  <2> QED
    BY <2>1, <2>2, <2>3, <2>4
<1>12. Dialing'
  <2>1. \A q \in Procs : pc'[q] \notin {"opening", "going"}
    BY <1>2, <1>4, <1>5
  <2>2. \A s \in Ids : s > dials' => Fresh(s)'
    BY <1>0 DEF Kin, Dialing, Fresh
  <2>3. conn'.socket \in Ids => conn'.socket <= dials'
    BY <1>0, <1>6 DEF Kin, Dialing
  <2> QED
    BY <2>1, <2>2, <2>3 DEF Dialing
<1> QED
  BY <1>8, <1>9, <1>11, <1>12 DEF Kin

LEMMA TurnoverKin ==
  ASSUME TypeOK, ThreadInv, Life, Kin, ~ Hasty, NEW t \in Ids, Wait(t) \/ Final(t)
  PROVE  Kin'
<1>0. /\ pc \in [Procs -> ThreadPCs \cup CallerPCs] /\ t \in Procs
      /\ \A u \in Ids : u \in Procs
      /\ UNCHANGED <<interrupt, job, conn, dials>> /\ Calm
      /\ pc[t] \in {"wait", "final"}
  BY CalmWhen DEF TypeOK, Procs, Wait, Final
<1>1. PICK l \in {"turn", "dead"} : /\ pc' = [pc EXCEPT ![t] = l]
                                    /\ l = "turn" => pc[t] = "wait"
  BY DEF Wait, Final, Goto
<1>2. \A q \in Procs : pc'[q] = IF q = t THEN l ELSE pc[q]
  BY <1>0, <1>1
<1>3. /\ \A s \in Ids : /\ Idle(s) => Idle(s)'
                        /\ Fresh(s) => Fresh(s)'
                        /\ net'[s].link = net[s].link
  <2>1. CASE net' = net
    BY <2>1 DEF Idle, Fresh
  <2>2. CASE net' = [net EXCEPT ![t].inbox = <<>>]
    BY <2>2 DEF Idle, Fresh, TypeOK, EndType
  <2> QED
    BY <2>1, <2>2 DEF Wait, Final
<1>4. Heirs'
  <2>1. networking_thread' = None \/ new_networking_thread' = None
    BY DEF Wait, Final
  <2> QED
    BY <1>0, <1>1, <1>2, <2>1 DEF Kin, Heirs
<1>5. Failing'
  <2>1. Silent => Silent'
    BY <1>0, <1>3 DEF Silent
  <2> QED
    BY <1>0, <1>2, <2>1 DEF Kin, Failing, Fails, FailingPlaces
<1>6. Asking'
  BY <1>0, <1>3 DEF Kin, Asking, Calm
<1>7. Dialing'
  BY <1>0, <1>1, <1>2, <1>3 DEF Kin, Dialing, Calm
<1> QED
  BY <1>4, <1>5, <1>6, <1>7 DEF Kin

LEMMA KinInit == Init => Kin
<1> SUFFICES ASSUME Init PROVE Kin
  OBVIOUS
<1>1. /\ \A p \in Procs : pc[p] \in {"idle", "unborn"}
      /\ networking_thread = None
  BY DEF Init
<1>2. \A t \in Ids : ~ job[t].next /\ job[t].bad # "io"
  BY DEF Init, NoJob
<1>3. \A s \in Ids : Fresh(s)
  BY DEF Init, NoEnd, Fresh
<1>4. conn.socket = None /\ conn.reactor = "base"
  BY DEF Init
<1>5. None \notin Ids
  BY DEF Ids
<1> QED
  BY <1>1, <1>2, <1>3, <1>4, <1>5 DEF Kin, Heirs, Failing, Asking, Dialing

LEMMA KinStep == ~ Hasty /\ ConnInv /\ Life /\ Kin /\ [Next]_vars => Kin'
<1> SUFFICES ASSUME ~ Hasty, TypeOK, ThreadInv, Life, Kin, [Next]_vars PROVE Kin'
  BY DEF ConnInv
<1>1. ASSUME NEW p \in Procs, NEW w, Dial(p, w), p \in Ids => pc[p] = "dial",
             p \notin Ids => pc[p] = "idle"
      PROVE  Kin'
  <2>1. CASE Busy
    <3>1. /\ CallFails(p, "state") /\ lock = None
          /\ UNCHANGED <<lock, conn, want, dials, net>> /\ UNCHANGED threadVars
      BY <1>1, <2>1 DEF Dial
    <3>2. CASE p \in Ids
      <4>1. Working(p)
        BY <1>1, <3>1, <3>2, CallFailsWorks
      <4>2. Minds(p)
        BY <1>1, <3>1, <3>2, FailedMinds
      <4> QED
        BY <3>2, <4>1, <4>2, WorksKin
    <3>3. CASE p \notin Ids
      <4>1. p \in Callers /\ pc' = [pc EXCEPT ![p] = "idle"] /\ job' = job
        BY <3>1, <3>3 DEF CallFails, Goto, Procs
      <4>2. Aside
        BY <1>1, <3>1, <3>3, <4>1 DEF Aside
      <4>3. Besides
        BY <3>1, CalmWhen DEF Besides, Sends, Keeps, Idle, Fresh, Silent
      <4> QED
        BY <4>2, <4>3, AsideKin
    <3> QED
      BY <3>2, <3>3
  <2> QED
    BY <1>1, <2>1, DialKin
<1>2. ASSUME NEW p \in Procs, Refuse(p) PROVE Kin'
  <2>1. /\ pc[p] = "opening" /\ CallFails(p, "io") /\ net' = net
        /\ UNCHANGED threadVars /\ dials' = dials
        /\ conn' = conn \/ conn' = [conn EXCEPT !.socket = dials, !.key = None]
    BY <1>2 DEF Refuse
  <2>2. /\ conn'.connected = conn.connected /\ conn'.file_object = conn.file_object
        /\ conn'.reactor = conn.reactor /\ conn'.queue = conn.queue
        /\ conn'.socket \in {conn.socket, dials}
    BY <2>1 DEF TypeOK, ConnType
  <2>3. CASE p \in Ids
    <3>1. Working(p)
      BY <2>1, <2>2, <2>3, CallFailsWorks
    <3>2. Minds(p)
      BY <2>1, <2>3, FailedMinds
    <3> QED
      BY <2>3, <3>1, <3>2, WorksKin
  <2>4. CASE p \notin Ids
    <3>1. p \in Callers /\ pc' = [pc EXCEPT ![p] = "idle"] /\ job' = job
      BY <2>1, <2>4 DEF CallFails, Goto, Procs
    <3>2. Aside
      BY <2>1, <2>2, <2>4, <3>1 DEF Aside
    <3>3. /\ \A t \in Ids : pc[t] \notin Active
          /\ \A q \in Procs : q # p => pc[q] \notin {"opening", "going"}
      BY <2>1, <2>4, WhoDials
    <3>4. Calm'
      BY <3>1, <3>3 DEF Calm, TypeOK
    <3>5. Besides
      BY <2>1, <2>2, <3>3, <3>4 DEF Besides, Sends, Keeps, Idle, Fresh
    <3> QED
      BY <3>2, <3>5, AsideKin
  <2> QED
    BY <2>3, <2>4
<1>3. ASSUME NEW t \in Ids, ThreadStep(t) PROVE Kin'
  <2>0. t \in Procs
    BY DEF Procs
  <2>1. CASE DialAgain(t)
    BY <1>1, <2>0, <2>1 DEF DialAgain
  <2>2. CASE Wait(t) \/ Final(t)
    BY <2>2, TurnoverKin
  <2>3. CASE Turn(t) \/ Write(t) \/ Written(t) \/ Read(t)
    BY <2>3, LoopWorks, LoopMinds, ReadMinds, WorksKin
  <2>4. CASE React(t) \/ Answer(t) \/ Wrap(t)
    BY <2>4, HandlerWorks, ReactMinds, LoginMinds, WorksKin
  <2>5. CASE Ending(t)
    BY <2>5, EndWorks, EndMinds, WorksKin
  <2> QED
    BY <1>3, <2>1, <2>2, <2>3, <2>4, <2>5 DEF ThreadStep, Ending
<1>4. ASSUME NEW t \in Ids, NEW a \in BOOLEAN, Join(t, a) PROVE Kin'
  BY <1>4, HandlerWorks, LoginMinds, WorksKin
<1>5. ASSUME NEW p \in Procs, CallStep(p) PROVE Kin'
  <2>1. CASE Flush(p) \/ Close(p)
    <3>1. CASE p \in Ids
      BY <2>1, <3>1, CloseMoves, ClosingMinds, WorksKin
    <3>2. CASE p \notin Ids
      <4>1. p \in Callers /\ Aside
        BY <2>1, <3>2, CloseMoves DEF Procs
      <4> QED
        BY <2>1, <4>1, CallBesides, AsideKin
    <3> QED
      BY <3>1, <3>2
  <2> QED
    BY <1>2, <1>5, <2>1, OpenKin, GoKin DEF CallStep
<1>6. ASSUME NEW c \in Callers, CallerStep(c) PROVE Kin'
  <2>0. c \in Procs /\ c \notin Ids
    BY ProcsApart DEF Procs
  <2>1. ASSUME NEW w, Connect(c, w) PROVE Kin'
    BY <1>1, <2>0, <2>1 DEF Connect, Calls
  <2> QED
    BY <1>6, <2>1, OtherMoves, OtherBesides, AsideKin DEF CallerStep
<1>7. ASSUME (\E s \in Ids : Server(s)) \/ UNCHANGED vars PROVE Kin'
  BY <1>7, OtherMoves, OtherBesides, AsideKin
<1> QED
  BY <1>3, <1>4, <1>5, <1>6, <1>7 DEF Next

LEMMA SuccessorStep ==
  ASSUME ~ Hasty, ConnInv, Life, Kin, Next,
         new_networking_thread # None, conn.connected, ~ conn'.connected
  PROVE  \A t \in Ids : pc'[t] = pc[t] \/ job[t].exc = "early"
<1>0. /\ TypeOK /\ ThreadInv /\ conn \in ConnType
      /\ \A p \in Procs : pc[p] \notin {"opening", "going"}
      /\ \A p \in Procs : pc[p] = "closing" => p \notin Ids
  <2>1. TypeOK /\ ThreadInv /\ conn \in ConnType
    BY DEF ConnInv, TypeOK
  <2>2. \A p \in Procs : pc[p] \notin {"opening", "going"}
    BY <2>1 DEF ThreadInv
  <2>3. \A p \in Procs : pc[p] = "closing" => p \notin Ids
    BY DEF Life, Lives
  <2> QED
    BY <2>1, <2>2, <2>3
<1>1. \A t \in Ids : pc[t] \in Active =>
        \/ pc[t] \in {"turn", "exit", "final", "dead"}
        \/ job[t].exc = "early" /\ pc[t] \in {"raise", "report"}
  <2>1. \A t \in Ids : pc[t] \in Active => networking_thread = t /\ t # None
    BY <1>0, ProcsApart DEF ThreadInv, OneReader, Procs
  <2> QED
    BY <2>1 DEF Kin, Heirs
<1>2. ASSUME NEW t \in Ids, ThreadStep(t) \/ \E a \in BOOLEAN : Join(t, a)
      PROVE  \A u \in Ids : pc'[u] = pc[u] \/ job[u].exc = "early"
  <2>1. CASE Wait(t) \/ Turn(t) \/ Raise(t) \/ Exit(t) \/ Final(t)
    BY <2>1 DEF Wait, Turn, Raise, Exit, Final
  <2>2. CASE pc[t] \in {"writing", "read", "react", "join", "answer", "wrap",
                        "handle", "clear", "narrow", "dial"}
    BY <1>1, <2>2, ActivePlaces
  <2>3. CASE Report(t)
    <3>1. job[t].exc = "early"
      BY <1>1, <2>3, ActivePlaces DEF Report
    <3> QED
      BY <1>0, <2>3, <3>1 DEF Report, Goto, TypeOK
  <2> QED
    BY <1>2, <2>1, <2>2, <2>3 DEF ThreadStep, Write, Written, Read, React, Join,
       Answer, Wrap, Handle, Clear, Narrow, DialAgain
<1>3. ASSUME NEW p \in Procs, NEW l, p \notin Ids,
             pc' = pc \/ pc' = [pc EXCEPT ![p] = l]
      PROVE  \A t \in Ids : pc'[t] = pc[t]
  BY <1>3, <1>0 DEF TypeOK, Procs
<1>4. ASSUME NEW p \in Procs, CallStep(p) PROVE \A t \in Ids : pc'[t] = pc[t]
  <2>1. /\ pc[p] = "closing" /\ p \notin Ids
        /\ Flush(p) \/ Close(p)
    BY <1>0, <1>4 DEF CallStep, Flush, Close, Refuse, Open, Go
  <2>2. pc' = pc \/ pc' = [pc EXCEPT ![p] = "idle"]
    BY <2>1 DEF Flush, Close, Goto
  <2> QED
    BY <1>3, <2>1, <2>2
<1>5. ASSUME NEW c \in Callers, CallerStep(c) PROVE \A t \in Ids : pc'[t] = pc[t]
  <2>0. c \in Procs /\ c \notin Ids
    BY ProcsApart DEF Procs
  <2>1. \E l : pc' = pc \/ pc' = [pc EXCEPT ![c] = l]
    <3>1. ASSUME NEW w, Connect(c, w) PROVE \E l : pc' = [pc EXCEPT ![c] = l]
      BY <2>0, <3>1 DEF Connect, Dial, CallFails, Goto
    <3>2. ASSUME NEW i, Disconnect(c, i) PROVE \E l : pc' = pc \/ pc' = [pc EXCEPT ![c] = l]
      BY <3>2 DEF Disconnect, Goto
    <3>3. ASSUME Chat(c) \/ ChatNow(c) PROVE pc' = pc
      BY <3>3 DEF Chat, ChatNow
    <3> QED
      BY <1>5, <3>1, <3>2, <3>3 DEF CallerStep
  <2> QED
    BY <1>3, <2>0, <2>1
<1>6. ASSUME NEW s \in Ids, Server(s) PROVE \A t \in Ids : pc'[t] = pc[t]
  BY <1>6 DEF Server
<1> QED
  BY <1>2, <1>4, <1>5, <1>6 DEF Next

\* If callers wait for the last thread to be gone, a networking thread on its
\* way out does not close the connection that was opened for its successor
\* (connect() "May safely be called multiple times after the first"), except one
\* that raises, after it has dialled, the error of a chat line that the program
\* had written before there was anybody to read it (connection.py:591-592, 490).
THEOREM SuccessorsAreKept == ASSUME ~ Hasty PROVE Spec => SuccessorKept
<1>1. Init => Kin
  BY KinInit
<1>2. ConnInv /\ Life /\ Kin /\ [Next]_vars => Kin'
  BY KinStep
<1>3. ConnInv /\ Life /\ Kin /\ [Next]_vars
        => [new_networking_thread # None /\ conn.connected /\ ~ conn'.connected
              => \A t \in Ids : pc'[t] = pc[t] \/ job[t].exc = "early"]_vars
  BY SuccessorStep
<1> QED
  BY <1>1, <1>2, <1>3, LifeHolds, PTL DEF Spec, SuccessorKept

-----------------------------------------------------------------------------
(***************************************************************************)
(* What careful callers can rely on: no server is ever confused.  The      *)
(* client follows the dialogue with a delay, the packets that the server   *)
(* has sent and that no thread has handled yet: v is the phase of the      *)
(* server as the client knows it, and the unread packets lead from v to    *)
(* the phase that the server is in (Coming).  The queue holds, among the   *)
(* chat lines that the program has written early, what the library has to  *)
(* write (Owes); this and the reactor are those of phase v, so that what   *)
(* the library sends next is what the server expects (Talks).  A server    *)
(* that a chat line has offended stays offended.                           *)
(***************************************************************************)

\* The phase to which a server's packet leads, and what a server may say.
After(k) ==
  CASE k \in Responses -> "told"
    [] k = "pong" -> "done"
    [] k \in {"encryption request", "offline encryption request"} -> "encrypt"
    [] k = "set compression" -> "ready"
    [] k = "plugin request" -> "plugin"
    [] OTHER -> "play"

Saying ==
  { <<"asked", "good">>, <<"asked", "wrong version">>, <<"asked", "empty">>,
    <<"asked", "unversioned">>, <<"pinged", "pong">>,
    <<"named", "encryption request">>, <<"named", "offline encryption request">>,
    <<"named", "success">>, <<"ready", "set compression">>,
    <<"ready", "plugin request">>, <<"ready", "success">>,
    <<"play", "keep alive">>, <<"play", "position">> }

\* Phases in which a server says nothing.
Mute == {"open", "status", "told", "done", "login", "encrypt", "plugin", "confused"}

\* The phase after the first i packets of c, from phase v.
Ph(v, c, i) == IF i = 0 THEN v ELSE After(c[i])

\* The packets c lead from phase v to phase w.
Coming(v, c, w) ==
  /\ w = Ph(v, c, Len(c))
  /\ \A i \in 1..Len(c) : <<Ph(v, c, i - 1), c[i]>> \in Saying
  /\ \A i \in 0..Len(c) : Ph(v, c, i) = "play" =>
       \A j \in i + 1..Len(c) : c[j] \in {"keep alive", "position"}

\* Only a server that is ready sets the compression.
LEMMA CompressionSaid ==
  \A v : <<v, "set compression">> \in Saying => v = "ready"
BY DEF Saying

\* What is said, where it leads.
LEMMA SayingLeads ==
  \A v, k : <<v, k>> \in Saying =>
    /\ k \in Clientbound /\ v \notin Mute /\ After(k) \in Phases \ {"confused"}
    /\ v = "asked" => k \in Responses /\ After(k) = "told"
    /\ v = "pinged" => k = "pong" /\ After(k) = "done"
    /\ v = "named" => \/ /\ k \in {"encryption request", "offline encryption request"}
                         /\ After(k) = "encrypt"
                      \/ k = "success" /\ After(k) = "play"
    /\ v = "ready" => \/ k = "set compression" /\ After(k) = "ready"
                      \/ k = "plugin request" /\ After(k) = "plugin"
                      \/ k = "success" /\ After(k) = "play"
    /\ v = "play" => k \in {"keep alive", "position"} /\ After(k) = "play"
    /\ v \in {"asked", "pinged", "named", "ready", "play"}
<1> SUFFICES ASSUME NEW v, NEW k, <<v, k>> \in Saying
             PROVE  /\ k \in Clientbound /\ v \notin Mute /\ After(k) \in Phases \ {"confused"}
                    /\ v = "asked" => k \in Responses /\ After(k) = "told"
                    /\ v = "pinged" => k = "pong" /\ After(k) = "done"
                    /\ v = "named" => \/ /\ k \in {"encryption request", "offline encryption request"}
                                         /\ After(k) = "encrypt"
                                      \/ k = "success" /\ After(k) = "play"
                    /\ v = "ready" => \/ k = "set compression" /\ After(k) = "ready"
                                      \/ k = "plugin request" /\ After(k) = "plugin"
                                      \/ k = "success" /\ After(k) = "play"
                    /\ v = "play" => k \in {"keep alive", "position"} /\ After(k) = "play"
                    /\ v \in {"asked", "pinged", "named", "ready", "play"}
  OBVIOUS
<1>1. /\ v = "asked" => k \in Responses
      /\ v = "pinged" => k = "pong"
      /\ v = "named" => k \in {"encryption request", "offline encryption request", "success"}
      /\ v = "ready" => k \in {"set compression", "plugin request", "success"}
      /\ v = "play" => k \in {"keep alive", "position"}
      /\ v \in {"asked", "pinged", "named", "ready", "play"}
  BY DEF Saying, Responses
<1>2. /\ k \in Responses => After(k) = "told"
      /\ k = "pong" => After(k) = "done"
      /\ k \in {"encryption request", "offline encryption request"} => After(k) = "encrypt"
      /\ k = "set compression" => After(k) = "ready"
      /\ k = "plugin request" => After(k) = "plugin"
      /\ k \in {"keep alive", "position", "success"} => After(k) = "play"
  BY DEF After, Responses
<1>3. k \in Clientbound
  BY <1>1 DEF Clientbound, LoginPackets, PlayPackets
<1> QED
  BY <1>1, <1>2, <1>3 DEF Phases, Joining, Mute

LEMMA ComingNone == \A v, w : Coming(v, <<>>, w) <=> w = v
<1> TAKE v, w
<1>1. Len(<<>>) = 0 /\ Ph(v, <<>>, 0) = v
  BY DEF Ph
<1>2. \A i \in 1..0 : FALSE
  OBVIOUS
<1>3. \A i \in 0..0 : \A j \in i + 1..0 : FALSE
  OBVIOUS
<1> QED
  BY <1>1, <1>2, <1>3 DEF Coming

\* The server says one packet more.
LEMMA ComingMore ==
  ASSUME NEW S, NEW c \in Seq(S), NEW k \in S, NEW v, NEW w,
         Coming(v, c, w), <<w, k>> \in Saying
  PROVE  Coming(v, Append(c, k), After(k))
<1> DEFINE d == Append(c, k)
           n == Len(c)
<1>1. n \in Nat /\ Len(d) = n + 1 /\ d[n + 1] = k /\ \A i \in 1..n : d[i] = c[i]
  OBVIOUS
<1>2. /\ w = Ph(v, c, n)
      /\ \A i \in 1..n : <<Ph(v, c, i - 1), c[i]>> \in Saying
      /\ \A i \in 0..n : Ph(v, c, i) = "play" =>
           \A j \in i + 1..n : c[j] \in {"keep alive", "position"}
  BY DEF Coming
<1> HIDE DEF d, n
<1>3. \A i \in 0..n : Ph(v, d, i) = Ph(v, c, i)
  BY <1>1 DEF Ph
<1>4. Ph(v, d, n + 1) = After(k)
  BY <1>1 DEF Ph
<1>5. ASSUME NEW i \in 1..n + 1 PROVE <<Ph(v, d, i - 1), d[i]>> \in Saying
  <2>1. i \in 1..n \/ i = n + 1
    BY <1>1
  <2>2. CASE i \in 1..n
    <3>1. i - 1 \in 0..n
      BY <1>1, <2>2
    <3> QED
      BY <1>1, <1>2, <1>3, <2>2, <3>1
  <2>3. CASE i = n + 1
    <3>1. i - 1 = n /\ n \in 0..n
      BY <1>1, <2>3
    <3> QED
      BY <1>1, <1>2, <1>3, <2>3, <3>1
  <2> QED
    BY <2>1, <2>2, <2>3
<1>6. ASSUME NEW i \in 0..n + 1, Ph(v, d, i) = "play", NEW j \in i + 1..n + 1
      PROVE  d[j] \in {"keep alive", "position"}
  <2>1. i \in 0..n /\ (j \in i + 1..n \/ j = n + 1)
    BY <1>1
  <2>2. Ph(v, c, i) = "play"
    BY <1>3, <1>6, <2>1
  <2>3. CASE j \in i + 1..n
    <3>1. j \in 1..n
      BY <2>1, <2>3
    <3> QED
      BY <1>1, <1>2, <2>1, <2>2, <2>3, <3>1
  <2>4. CASE j = n + 1
    <3>1. w = "play"
      <4>1. CASE i = n
        BY <1>2, <2>2, <4>1
      <4>2. CASE i # n
        <5>1. n \in i + 1..n /\ n # 0
          BY <1>1, <2>1, <4>2
        <5>2. c[n] \in {"keep alive", "position"}
          BY <1>2, <2>1, <2>2, <5>1
        <5> QED
          BY <1>2, <5>1, <5>2 DEF Ph, After, Responses
      <4> QED
        BY <4>1, <4>2
    <3> QED
      BY <1>1, <2>4, <3>1, SayingLeads
  <2> QED
    BY <2>1, <2>3, <2>4
<1> QED
  BY <1>1, <1>4, <1>5, <1>6 DEF Coming, d

\* The client handles the first packet.
LEMMA ComingLess ==
  ASSUME NEW S, NEW c \in Seq(S), c # <<>>, NEW v, NEW w, Coming(v, c, w)
  PROVE  <<v, Head(c)>> \in Saying /\ Coming(After(Head(c)), Tail(c), w)
<1> DEFINE d == Tail(c)
           n == Len(c)
           u == After(Head(c))
<1>1. /\ d \in Seq(S) /\ n \in Nat /\ Len(d) = n - 1 /\ Head(c) = c[1] /\ 1 \in 1..n
      /\ \A i \in 1..Len(d) : d[i] = c[i + 1] /\ i + 1 \in 1..n
  BY TailOf
<1>2. /\ w = Ph(v, c, n)
      /\ \A i \in 1..n : <<Ph(v, c, i - 1), c[i]>> \in Saying
      /\ \A i \in 0..n : Ph(v, c, i) = "play" =>
           \A j \in i + 1..n : c[j] \in {"keep alive", "position"}
  BY DEF Coming
<1> HIDE DEF d, n
<1>3. <<v, Head(c)>> \in Saying
  <2>1. 1 - 1 = 0
    OBVIOUS
  <2>2. <<Ph(v, c, 1 - 1), c[1]>> \in Saying
    BY <1>1, <1>2
  <2> QED
    BY <1>1, <2>1, <2>2 DEF Ph
<1>4. \A i \in 0..Len(d) : Ph(u, d, i) = Ph(v, c, i + 1) /\ i + 1 \in 1..n
  <2> TAKE i \in 0..Len(d)
  <2>1. i + 1 \in 1..n /\ i + 1 # 0 /\ (i = 0 \/ i \in 1..Len(d))
    BY <1>1
  <2>2. CASE i = 0
    <3>1. i + 1 = 1
      BY <2>2
    <3> QED
      BY <1>1, <2>1, <2>2, <3>1 DEF Ph
  <2>3. CASE i # 0
    BY <1>1, <2>1, <2>3 DEF Ph
  <2> QED
    BY <2>2, <2>3
<1>5. w = Ph(u, d, Len(d))
  <2>1. Len(d) \in 0..Len(d) /\ Len(d) + 1 = n
    BY <1>1
  <2> QED
    BY <1>2, <1>4, <2>1
<1>6. ASSUME NEW i \in 1..Len(d) PROVE <<Ph(u, d, i - 1), d[i]>> \in Saying
  <2>1. i - 1 \in 0..Len(d) /\ (i - 1) + 1 = i /\ (i + 1) - 1 = i /\ i \in Int
    BY <1>1
  <2>2. <<Ph(v, c, (i + 1) - 1), c[i + 1]>> \in Saying /\ d[i] = c[i + 1]
    BY <1>1, <1>2
  <2>3. Ph(u, d, i - 1) = Ph(v, c, i)
    BY <1>4, <2>1
  <2> QED
    BY <2>1, <2>2, <2>3
<1>7. ASSUME NEW i \in 0..Len(d), Ph(u, d, i) = "play", NEW j \in i + 1..Len(d)
      PROVE  d[j] \in {"keep alive", "position"}
  <2>1. j \in 1..Len(d) /\ j + 1 \in (i + 1) + 1..n /\ i + 1 \in 0..n
    BY <1>1
  <2>2. Ph(v, c, i + 1) = "play"
    BY <1>4, <1>7
  <2>3. c[j + 1] \in {"keep alive", "position"}
    BY <1>2, <2>1, <2>2
  <2> QED
    BY <1>1, <2>1, <2>3
<1> QED
  BY <1>3, <1>5, <1>6, <1>7 DEF Coming, d

\* No packet leads to confusion.
LEMMA ComingClear == \A v, c, w : Coming(v, c, w) /\ v # "confused" => w # "confused"
BY DEF Coming, Ph, After

\* Where the unread packets can lead.
LEMMA ComingEnds ==
  ASSUME NEW S, NEW c \in Seq(S), NEW v, NEW w, Coming(v, c, w)
  PROVE  /\ v # "confused" => w # "confused"
         /\ v \in Mute => c = <<>> /\ w = v
         /\ v = "play" => w = "play" /\ Holds(c, {"keep alive", "position"})
<1>0. Len(c) \in Nat
  OBVIOUS
<1>1. CASE c = <<>>
  BY <1>1, ComingNone DEF Holds
<1>2. CASE c # <<>>
  <2>1. <<v, Head(c)>> \in Saying
    BY <1>2, ComingLess
  <2>2. Len(c) \in 1..Len(c) /\ Len(c) # 0
    BY <1>0, <1>2
  <2>3. w = After(c[Len(c)]) /\ <<Ph(v, c, Len(c) - 1), c[Len(c)]>> \in Saying
    BY <2>2 DEF Coming, Ph
  <2>4. v = "play" => Holds(c, {"keep alive", "position"})
    <3>1. 0 \in 0..Len(c) /\ 0 + 1 = 1
      BY <1>0
    <3> QED
      BY <3>1 DEF Coming, Ph, Holds
  <2>5. v = "play" => w = "play"
    BY <2>2, <2>3, <2>4 DEF Holds, After, Responses
  <2>6. w # "confused"
    <3> DEFINE k == c[Len(c)]
               u == Ph(v, c, Len(c) - 1)
    <3>0. <<u, k>> \in Saying
      BY <2>3
    <3> HIDE DEF k, u
    <3>1. After(k) \in Phases \ {"confused"}
      BY <3>0, SayingLeads
    <3> QED
      BY <2>3, <3>1 DEF k
  <2> QED
    BY <2>1, <2>4, <2>5, <2>6, SayingLeads
<1> QED
  BY <1>1, <1>2

\* The packet that turns on the compression is on its way.
Zips(c) == \E i \in 1..Len(c) : c[i] = "set compression"

LEMMA ZipsMore ==
  ASSUME NEW S, NEW c \in Seq(S), NEW k \in S
  PROVE  Zips(Append(c, k)) <=> Zips(c) \/ k = "set compression"
<1> DEFINE d == Append(c, k)
           n == Len(c)
<1>1. n \in Nat /\ Len(d) = n + 1 /\ d[n + 1] = k /\ \A i \in 1..n : d[i] = c[i]
  OBVIOUS
<1> HIDE DEF d, n
<1>2. \A i \in 1..n + 1 : i \in 1..n \/ i = n + 1
  BY <1>1
<1>3. n + 1 \in 1..n + 1 /\ \A i \in 1..n : i \in 1..n + 1
  BY <1>1
<1>4. Zips(d) <=> (\E i \in 1..n : c[i] = "set compression") \/ k = "set compression"
  BY <1>1, <1>2, <1>3 DEF Zips
<1> QED
  BY <1>4 DEF Zips, d, n

LEMMA ZipsLess ==
  ASSUME NEW S, NEW c \in Seq(S), c # <<>>
  PROVE  Zips(c) <=> Zips(Tail(c)) \/ Head(c) = "set compression"
<1> DEFINE d == Tail(c)
           n == Len(c)
<1>1. /\ n \in Nat /\ Len(d) = n - 1 /\ Head(c) = c[1] /\ 1 \in 1..n
      /\ \A i \in 1..Len(d) : d[i] = c[i + 1] /\ i + 1 \in 1..n
  BY TailOf
<1> HIDE DEF d, n
<1>2. \A i \in 1..n : i = 1 \/ (i - 1 \in 1..Len(d) /\ (i - 1) + 1 = i)
  BY <1>1
<1>3. ASSUME NEW i \in 1..n, c[i] = "set compression"
      PROVE  Zips(d) \/ Head(c) = "set compression"
  <2>1. CASE i = 1
    BY <1>1, <1>3, <2>1
  <2>2. CASE i - 1 \in 1..Len(d) /\ (i - 1) + 1 = i
    <3>1. d[i - 1] = c[i]
      BY <1>1, <2>2
    <3> QED
      BY <1>3, <2>2, <3>1 DEF Zips
  <2> QED
    BY <1>2, <2>1, <2>2
<1>4. ASSUME NEW i \in 1..Len(d), d[i] = "set compression" PROVE Zips(c)
  BY <1>1, <1>4 DEF Zips, n
<1>5. Head(c) = "set compression" => Zips(c)
  BY <1>1 DEF Zips, n
<1>6. Zips(c) => Zips(d) \/ Head(c) = "set compression"
  BY <1>3 DEF Zips, n
<1>7. Zips(d) => Zips(c)
  BY <1>4 DEF Zips
<1> QED
  BY <1>5, <1>6, <1>7 DEF d

LEMMA ZipsNot ==
  ASSUME NEW c, c = <<>> \/ Holds(c, {"keep alive", "position"})
  PROVE  ~ Zips(c)
<1>1. CASE c = <<>>
  <2>1. Len(c) = 0 /\ ~ \E i \in 1..0 : TRUE
    BY <1>1
  <2> QED
    BY <2>1 DEF Zips
<1>2. CASE Holds(c, {"keep alive", "position"})
  BY <1>2 DEF Zips, Holds
<1> QED
  BY <1>1, <1>2

\* A packet in hand, before the packets that have not been read.
LEMMA InHand ==
  ASSUME NEW S, NEW q \in Seq(S), NEW k \in S
  PROVE  /\ <<k>> \o q \in Seq(S) /\ <<k>> \o q # <<>>
         /\ Head(<<k>> \o q) = k /\ Tail(<<k>> \o q) = q
<1>1. <<k>> \in Seq(S) /\ Len(<<k>>) = 1 /\ <<k>>[1] = k
  OBVIOUS
<1>2. <<k>> \o q \in Seq(S) /\ Len(<<k>> \o q) = 1 + Len(q)
  BY <1>1
<1>3. <<k>> \o q # <<>> /\ Head(<<k>> \o q) = k
  BY <1>1, <1>2
<1>4. Tail(<<k>> \o q) = q
  BY <1>1, <1>2, <1>3
<1> QED
  BY <1>2, <1>3, <1>4

LEMMA HandHolds ==
  ASSUME NEW S, NEW q \in Seq(S), NEW k \in S, NEW u, u = <<k>> \o q
  PROVE  u \in Seq(S) /\ u # <<>> /\ Head(u) = k /\ Tail(u) = q
BY InHand

LEMMA HandMore ==
  ASSUME NEW S, NEW q \in Seq(S), NEW k \in S, NEW x \in S
  PROVE  Append(<<k>> \o q, x) = <<k>> \o Append(q, x)
<1>1. <<k>> \in Seq(S) /\ Len(<<k>>) = 1 /\ <<k>>[1] = k
  OBVIOUS
<1>2. <<k>> \o q \in Seq(S) /\ Len(<<k>> \o q) = 1 + Len(q)
  BY <1>1
<1> QED
  BY <1>1, <1>2

LEMMA TakenInHand ==
  ASSUME NEW S, NEW q \in Seq(S), q # <<>>
  PROVE  <<Head(q)>> \o Tail(q) = q
<1>1. /\ Tail(q) \in Seq(S) /\ Head(q) \in S /\ Len(q) \in Nat /\ Len(Tail(q)) = Len(q) - 1
      /\ Head(q) = q[1] /\ \A i \in 1..Len(Tail(q)) : Tail(q)[i] = q[i + 1]
  OBVIOUS
<1> QED
  BY <1>1

-----------------------------------------------------------------------------
(***************************************************************************)
(* o is the queue q without the chat lines that came early.                *)
(***************************************************************************)
Places(f, o, m, q, n) ==
  /\ f \in [1..m -> 1..n]
  /\ \A i, j \in 1..m : i < j => f[i] < f[j]
  /\ \A i \in 1..m : q[f[i]] = o[i] /\ o[i] # "early chat"
  /\ \A j \in 1..n : q[j] = "early chat" \/ \E i \in 1..m : f[i] = j

Owes(q, o) == \E f : Places(f, o, Len(o), q, Len(q))

LEMMA OwesNone == Owes(<<>>, <<>>)
<1> DEFINE f == [i \in 1..0 |-> 1]
<1>1. Len(<<>>) = 0 /\ \A i \in 1..0 : FALSE
  OBVIOUS
<1>2. f \in [1..0 -> 1..0]
  BY <1>1
<1> QED
  BY <1>1, <1>2 DEF Owes, Places

\* The program writes a chat line early.
LEMMA OwesChat ==
  ASSUME NEW S, NEW q \in Seq(S), NEW k \in S, NEW o, Owes(q, o)
  PROVE  k = "early chat" => Owes(Append(q, k), o)
<1>1. /\ Len(q) \in Nat /\ Len(Append(q, k)) = Len(q) + 1
      /\ Append(q, k)[Len(q) + 1] = k
      /\ \A i \in 1..Len(q) : Append(q, k)[i] = q[i]
      /\ \A i \in 1..Len(Append(q, k)) : i \in 1..Len(q) \/ i = Len(q) + 1
  BY MoreOf
<1>2. PICK f \in [1..Len(o) -> 1..Len(q)] :
        /\ \A i, j \in 1..Len(o) : i < j => f[i] < f[j]
        /\ \A i \in 1..Len(o) : q[f[i]] = o[i] /\ o[i] # "early chat"
        /\ \A j \in 1..Len(q) : q[j] = "early chat" \/ \E i \in 1..Len(o) : f[i] = j
  BY DEF Owes, Places
<1>3. f \in [1..Len(o) -> 1..Len(Append(q, k))]
  BY <1>1
<1>4. \A i \in 1..Len(o) : Append(q, k)[f[i]] = o[i] /\ o[i] # "early chat"
  BY <1>1, <1>2
<1>5. k = "early chat" => \A j \in 1..Len(Append(q, k)) :
        Append(q, k)[j] = "early chat" \/ \E i \in 1..Len(o) : f[i] = j
  BY <1>1, <1>2
<1> QED
  BY <1>2, <1>3, <1>4, <1>5, Zenon DEF Owes, Places

\* The library writes a packet.
LEMMA OwesMore ==
  ASSUME NEW S, NEW q \in Seq(S), NEW k \in S, NEW o \in Seq(S), Owes(q, o)
  PROVE  k # "early chat" => Owes(Append(q, k), Append(o, k))
<1> DEFINE a == Append(q, k)
           b == Append(o, k)
           m == Len(o)
           n == Len(q)
<1>1. /\ n \in Nat /\ Len(a) = n + 1 /\ a[n + 1] = k
      /\ \A i \in 1..n : a[i] = q[i]
      /\ \A i \in 1..n + 1 : i \in 1..n \/ i = n + 1
  BY MoreOf
<1>2. /\ m \in Nat /\ Len(b) = m + 1 /\ b[m + 1] = k
      /\ \A i \in 1..m : b[i] = o[i]
      /\ \A i \in 1..m + 1 : i \in 1..m \/ i = m + 1
  BY MoreOf
<1>3. PICK f \in [1..m -> 1..n] :
        /\ \A i, j \in 1..m : i < j => f[i] < f[j]
        /\ \A i \in 1..m : q[f[i]] = o[i] /\ o[i] # "early chat"
        /\ \A j \in 1..n : q[j] = "early chat" \/ \E i \in 1..m : f[i] = j
  BY DEF Owes, Places
<1> DEFINE g == [i \in 1..m + 1 |-> IF i = m + 1 THEN n + 1 ELSE f[i]]
<1> HIDE DEF a, b, m, n
<1>4. g \in [1..m + 1 -> 1..n + 1]
  BY <1>1, <1>2
<1>5. g[m + 1] = n + 1 /\ \A i \in 1..m : g[i] = f[i]
  BY <1>2
<1> HIDE DEF g
<1>6. \A i, j \in 1..m + 1 : i < j => g[i] < g[j]
  <2> SUFFICES ASSUME NEW i \in 1..m + 1, NEW j \in 1..m + 1, i < j PROVE g[i] < g[j]
    OBVIOUS
  <2>1. i \in 1..m /\ f[i] \in 1..n
    BY <1>2
  <2>2. CASE j = m + 1
    BY <1>1, <1>5, <2>1, <2>2
  <2>3. CASE j \in 1..m
    BY <1>3, <1>5, <2>1, <2>3
  <2> QED
    BY <1>2, <2>2, <2>3
<1>7. ASSUME k # "early chat", NEW i \in 1..m + 1
      PROVE  a[g[i]] = b[i] /\ b[i] # "early chat"
  <2>1. CASE i = m + 1
    BY <1>1, <1>2, <1>5, <1>7, <2>1
  <2>2. CASE i \in 1..m
    <3>1. f[i] \in 1..n /\ g[i] = f[i] /\ b[i] = o[i]
      BY <1>2, <1>5, <2>2
    <3>2. a[f[i]] = q[f[i]]
      BY <1>1, <3>1
    <3> QED
      BY <1>3, <2>2, <3>1, <3>2
  <2> QED
    BY <1>2, <2>1, <2>2
<1>8. \A j \in 1..n + 1 : a[j] = "early chat" \/ \E i \in 1..m + 1 : g[i] = j
  <2>1. m + 1 \in 1..m + 1 /\ \A i \in 1..m : i \in 1..m + 1
    BY <1>2
  <2>2. ASSUME NEW j \in 1..n PROVE a[j] = "early chat" \/ \E i \in 1..m + 1 : g[i] = j
    BY <1>1, <1>3, <1>5, <2>1
  <2> QED
    BY <1>1, <1>5, <2>1, <2>2
<1>9. ASSUME k # "early chat" PROVE Owes(a, b)
  <2>1. Len(a) = n + 1 /\ Len(b) = m + 1
    BY <1>1, <1>2
  <2>2. \A i \in 1..m + 1 : a[g[i]] = b[i] /\ b[i] # "early chat"
    BY <1>7, <1>9
  <2>3. Places(g, b, m + 1, a, n + 1)
    BY <1>4, <1>6, <1>8, <2>2, Zenon DEF Places
  <2> QED
    BY <2>1, <2>3 DEF Owes
<1> QED
  BY <1>9 DEF a, b

\* The head of the queue is written.
LEMMA OwesTail ==
  ASSUME NEW S, NEW q \in Seq(S), q # <<>>, NEW o \in Seq(S), Owes(q, o)
  PROVE  /\ Head(q) = "early chat" => Owes(Tail(q), o)
         /\ Head(q) # "early chat" =>
              o # <<>> /\ Head(o) = Head(q) /\ Tail(o) \in Seq(S) /\ Owes(Tail(q), Tail(o))
<1> DEFINE a == Tail(q)
           m == Len(o)
           n == Len(q)
<1>1. /\ n \in Nat /\ Len(a) = n - 1 /\ Head(q) = q[1] /\ 1 \in 1..n
      /\ \A i \in 1..n - 1 : a[i] = q[i + 1] /\ i + 1 \in 1..n
  BY TailOf
<1>2. m \in Nat
  OBVIOUS
<1>3. PICK f \in [1..m -> 1..n] :
        /\ \A i, j \in 1..m : i < j => f[i] < f[j]
        /\ \A i \in 1..m : q[f[i]] = o[i] /\ o[i] # "early chat"
        /\ \A j \in 1..n : q[j] = "early chat" \/ \E i \in 1..m : f[i] = j
  BY DEF Owes, Places
<1>4. \A i \in 1..m : f[i] \in 1..n
  BY <1>3
<1> HIDE DEF a, n
<1>5. ASSUME Head(q) = "early chat" PROVE Owes(a, o)
  <2> DEFINE g == [i \in 1..m |-> f[i] - 1]
  <2>1. \A i \in 1..m : f[i] # 1
    BY <1>1, <1>3, <1>5
  <2>2. g \in [1..m -> 1..n - 1] /\ \A i \in 1..m : g[i] = f[i] - 1
    BY <1>1, <1>4, <2>1
  <2> HIDE DEF g, m
  <2>3. ASSUME NEW i \in 1..m, NEW j \in 1..m, i < j PROVE g[i] < g[j]
    <3>1. f[i] < f[j] /\ f[i] \in 1..n /\ f[j] \in 1..n
      BY <1>3, <1>4, <2>3
    <3> QED
      BY <1>1, <2>2, <3>1
  <2>4. ASSUME NEW i \in 1..m PROVE a[g[i]] = o[i] /\ o[i] # "early chat"
    <3>1. g[i] \in 1..n - 1 /\ g[i] + 1 = f[i]
      BY <1>4, <2>2
    <3> QED
      BY <1>1, <1>3, <3>1
  <2>5. ASSUME NEW j \in 1..n - 1 PROVE a[j] = "early chat" \/ \E i \in 1..m : g[i] = j
    <3>1. a[j] = q[j + 1] /\ j + 1 \in 1..n
      BY <1>1
    <3>2. ASSUME NEW i \in 1..m, f[i] = j + 1 PROVE g[i] = j
      BY <1>1, <2>2, <3>2
    <3> QED
      BY <1>3, <3>1, <3>2
  <2>6. Len(a) = n - 1 /\ Len(o) = m
    BY <1>1 DEF m
  <2>7. Places(g, o, m, a, n - 1)
    BY <2>2, <2>3, <2>4, <2>5, Zenon DEF Places
  <2> QED
    BY <2>6, <2>7 DEF Owes
<1>6. ASSUME Head(q) # "early chat"
      PROVE  o # <<>> /\ Head(o) = Head(q) /\ Tail(o) \in Seq(S) /\ Owes(a, Tail(o))
  <2>1. PICK x \in 1..m : f[x] = 1
    BY <1>1, <1>3, <1>6
  <2>2. 1 \in 1..m
    BY <1>2, <2>1
  <2>3. x = 1
    <3>0. f[1] \in 1..n /\ (1 < x => f[1] < f[x])
      BY <1>3, <1>4, <2>1, <2>2
    <3>1. ~ 1 < x
      BY <1>1, <2>1, <3>0
    <3> QED
      BY <1>2, <2>1, <3>1
  <2>4. o # <<>>
    BY <2>2
  <2> DEFINE b == Tail(o)
             g == [i \in 1..m - 1 |-> f[i + 1] - 1]
  <2>5. /\ b \in Seq(S) /\ Len(b) = m - 1 /\ Head(o) = o[1]
        /\ \A i \in 1..m - 1 : b[i] = o[i + 1] /\ i + 1 \in 1..m
    BY <2>4, TailOf
  <2> HIDE DEF b, m
  <2>6. \A i \in 1..m - 1 : i + 1 \in 1..m /\ 1 < i + 1
    BY <1>2
  <2>7. \A i \in 1..m - 1 : f[i + 1] \in 1..n /\ 1 < f[i + 1]
    BY <1>3, <1>4, <2>1, <2>2, <2>3, <2>6
  <2>8. g \in [1..m - 1 -> 1..n - 1] /\ \A i \in 1..m - 1 : g[i] = f[i + 1] - 1
    BY <1>1, <2>7
  <2> HIDE DEF g
  <2>9. ASSUME NEW i \in 1..m - 1, NEW j \in 1..m - 1, i < j PROVE g[i] < g[j]
    <3>1. i + 1 < j + 1
      BY <1>2, <2>9
    <3>2. f[i + 1] < f[j + 1]
      BY <1>3, <2>6, <3>1
    <3> QED
      BY <1>1, <2>7, <2>8, <3>2
  <2>10. ASSUME NEW i \in 1..m - 1 PROVE a[g[i]] = b[i] /\ b[i] # "early chat"
    <3>1. g[i] \in 1..n - 1 /\ g[i] + 1 = f[i + 1]
      BY <2>7, <2>8
    <3>2. a[g[i]] = q[f[i + 1]]
      BY <1>1, <3>1
    <3> QED
      BY <1>3, <2>5, <2>6, <3>2
  <2>11. ASSUME NEW j \in 1..n - 1 PROVE a[j] = "early chat" \/ \E i \in 1..m - 1 : g[i] = j
    <3>1. a[j] = q[j + 1] /\ j + 1 \in 1..n /\ j + 1 # 1
      BY <1>1
    <3>2. ASSUME NEW i \in 1..m, f[i] = j + 1 PROVE \E y \in 1..m - 1 : g[y] = j
      <4>1. i - 1 \in 1..m - 1 /\ (i - 1) + 1 = i
        BY <1>2, <2>1, <2>3, <3>1, <3>2
      <4>2. g[i - 1] = j
        BY <2>8, <3>2, <4>1
      <4> QED
        BY <4>1, <4>2
    <3> QED
      BY <1>3, <3>1, <3>2
  <2>12. Owes(a, b)
    <3>1. Len(a) = n - 1 /\ Len(b) = m - 1
      BY <1>1, <2>5
    <3>2. Places(g, b, m - 1, a, n - 1)
      BY <2>8, <2>9, <2>10, <2>11, Zenon DEF Places
    <3> QED
      BY <3>1, <3>2 DEF Owes
  <2>13. Head(o) = Head(q)
    BY <1>1, <1>3, <2>1, <2>2, <2>3, <2>5
  <2> QED
    BY <2>4, <2>5, <2>12, <2>13 DEF b
<1> QED
  BY <1>5, <1>6 DEF a

\* A reactor answers through the queue.
LEMMA OwesQueues ==
  ASSUME NEW q \in Seq(Serverbound), NEW o \in Seq(Serverbound), Owes(q, o), NEW r, NEW k
  PROVE  /\ Owes(q \o Queues(r, k), o \o Queues(r, k))
         /\ o \o Queues(r, k) \in Seq(Serverbound)
<1>1. CASE Queues(r, k) = <<>>
  <2>1. q \o <<>> = q /\ o \o <<>> = o
    OBVIOUS
  <2> QED
    BY <1>1, <2>1
<1>2. ASSUME NEW x \in Serverbound, x # "early chat", Queues(r, k) = <<x>>
      PROVE  /\ Owes(q \o Queues(r, k), o \o Queues(r, k))
             /\ o \o Queues(r, k) \in Seq(Serverbound)
  <2>1. q \o <<x>> = Append(q, x) /\ o \o <<x>> = Append(o, x) /\ Append(o, x) \in Seq(Serverbound)
    OBVIOUS
  <2>2. Owes(Append(q, x), Append(o, x))
    BY <1>2, OwesMore
  <2> QED
    BY <1>2, <2>1, <2>2
<1>3. \/ Queues(r, k) = <<>>
      \/ \E x \in {"plugin response", "ping", "keep alive", "position"} : Queues(r, k) = <<x>>
  BY DEF Queues
<1>4. \A x \in {"plugin response", "ping", "keep alive", "position"} :
        x \in Serverbound /\ x # "early chat"
  BY DEF Serverbound
<1> QED
  BY <1>1, <1>2, <1>3, <1>4

-----------------------------------------------------------------------------
Up(s) == net[s].link = "up"

\* What the server has sent and the client has not handled yet.
Unread(s) ==
  IF pc[s] = "react" THEN <<job[s].pkt>> \o net[s].inbox ELSE net[s].inbox

Asks == {"status", "ping", "query"}

\* The reactor, and what it has to write, when the client knows the server to
\* be in phase v.
Fits(v, r, q) ==
  /\ v \notin Lost
  /\ v \in {"login", "named", "encrypt", "plugin", "ready"} => r = "login"
  /\ v \in {"status", "asked", "told", "pinged", "done"} => r \in Asks
  /\ v = "play" => r = "play" /\ Holds(q, {"keep alive", "position", "chat"})
  /\ v = "open" => \/ r = "login" /\ q = <<"hello login", "start">>
                   \/ r \in Asks /\ q = <<"hello status", "request">>
  /\ v = "login" => q = <<"start">>
  /\ v = "status" => q = <<"request">>
  /\ v = "plugin" => q = <<"plugin response">>
  /\ v = "told" => q = IF r = "ping" THEN <<"ping">> ELSE <<>>
  /\ v \in {"asked", "pinged", "done", "named", "encrypt", "ready"} => q = <<>>

\* The client knows server s to be in phase v and owes it the packets o, and is
\* right but for the packets that it has not handled; so it is about
\* compression and encryption.
Talks(s, v, o) ==
  /\ Fits(v, conn.reactor, o)
  /\ Coming(v, Unread(s), net[s].srv)
  /\ net[s].zip <=> conn.zip \/ Zips(Unread(s))
  /\ net[s].key = IF pc[s] = "wrap" THEN s ELSE conn.key
  /\ pc[s] \in {"join", "answer"} => v = "encrypt"
  /\ pc[s] = "wrap" => v = "ready"

Offended(s) == net[s].srv \in {"offended", "offended login"}

Spoken(s) ==
  \/ Offended(s)
  \/ \E v \in Phases, o \in Seq(Serverbound) : Owes(conn.queue, o) /\ Talks(s, v, o)

Talk == Calm => \A s \in Ids : Up(s) => Spoken(s)

\* The open connection is the present one, and its thread will serve it, serves
\* it, or is on the way to report a failure.
Owned ==
  \A s \in Ids : Up(s) =>
    /\ conn.socket = s /\ conn.file_object = s
    /\ \A p \in Procs : pc[p] # "opening"
    /\ \/ s = dials /\ \E p \in Procs : pc[p] = "going"
       \/ new_networking_thread = s
       \/ /\ networking_thread = s /\ new_networking_thread = None
          /\ interrupt[s] => pc[s] \in Failed

Blank(s) == ~ net[s].zip /\ net[s].key = None

\* What connect() and status() find and leave.
Opened ==
  /\ \A s \in Ids : s > dials => Blank(s)
  /\ \A p \in Procs :
       /\ pc[p] \in {"opening", "going"} =>
            Blank(dials) /\ (p \in Ids => conn.reactor = "query")
       /\ pc[p] = "opening" => Owes(conn.queue, <<>>)
       /\ pc[p] = "going" =>
            /\ Owes(conn.queue, <<IF Direct THEN "hello login" ELSE "hello status">>)
            /\ ~ conn.zip /\ conn.key = None

\* The reactor is still the one whose handler disconnects, or dials.
Reacting ==
  \A t \in Ids : /\ pc[t] = "closing" => job[t].via = conn.reactor
                 /\ pc[t] \in {"clear", "narrow", "dial"} => conn.reactor = "query"

Speaks == NoConfusion /\ Owned /\ Talk /\ Opened /\ Reacting

LEMMA UnreadType ==
  ASSUME TypeOK, NEW s \in Ids
  PROVE  /\ Unread(s) \in Seq(Clientbound \cup {"none"})
         /\ net[s].inbox \in Seq(Clientbound \cup {"none"})
         /\ job[s].pkt \in Clientbound \cup {"none"}
         /\ net[s] \in EndType /\ net[s].zip \in BOOLEAN /\ conn.zip \in BOOLEAN
         /\ conn.queue \in Seq(Serverbound) /\ conn \in ConnType
<1> DEFINE S == Clientbound \cup {"none"}
<1>1. net[s] \in EndType /\ job[s] \in JobType /\ conn \in ConnType
  BY DEF TypeOK
<1>2. /\ net[s].inbox \in Seq(Clientbound) /\ job[s].pkt \in S
      /\ net[s].zip \in BOOLEAN /\ conn.zip \in BOOLEAN /\ conn.queue \in Seq(Serverbound)
  BY <1>1 DEF EndType, JobType, ConnType
<1> HIDE DEF S
<1>3. Clientbound \subseteq S
  BY DEF S
<1>4. net[s].inbox \in Seq(S)
  BY <1>2, <1>3
<1>5. Unread(s) \in Seq(S)
  BY <1>2, <1>4, InHand DEF Unread
<1> QED
  BY <1>1, <1>2, <1>4, <1>5 DEF S

\* A server to which a thread talks is not confused.
LEMMA TalksClearly ==
  ASSUME TypeOK, NEW s \in Ids, NEW v, NEW o, Talks(s, v, o)
  PROVE  /\ net[s].srv # "confused"
         /\ v \in Mute => Unread(s) = <<>> /\ net[s].srv = v
         /\ v = "play" => net[s].srv = "play"
         /\ v \in Mute \cup {"play"} => ~ Zips(Unread(s)) /\ net[s].zip = conn.zip
<1>1. Unread(s) \in Seq(Clientbound \cup {"none"}) /\ net[s].zip \in BOOLEAN /\ conn.zip \in BOOLEAN
  BY UnreadType
<1>2. Coming(v, Unread(s), net[s].srv) /\ v # "confused"
  BY DEF Talks, Fits, Lost
<1>3. /\ net[s].srv # "confused"
      /\ v \in Mute => Unread(s) = <<>> /\ net[s].srv = v
      /\ v = "play" => net[s].srv = "play" /\ Holds(Unread(s), {"keep alive", "position"})
  BY <1>1, <1>2, ComingEnds
<1>4. v \in Mute \cup {"play"} => ~ Zips(Unread(s))
  BY <1>3, ZipsNot
<1>5. v \in Mute \cup {"play"} => net[s].zip = conn.zip
  BY <1>1, <1>4 DEF Talks
<1> QED
  BY <1>3, <1>4, <1>5

\* Nothing that the dialogue is about changes.
LEMMA TalksSame ==
  ASSUME NEW s \in Ids, NEW v, NEW o, Talks(s, v, o),
         conn'.reactor = conn.reactor, conn'.zip = conn.zip,
         conn'.key = conn.key, net'[s].srv = net[s].srv, net'[s].zip = net[s].zip,
         net'[s].key = net[s].key, Unread(s)' = Unread(s),
         pc'[s] = "wrap" <=> pc[s] = "wrap",
         pc'[s] \in {"join", "answer"} => pc[s] \in {"join", "answer"}
  PROVE  Talks(s, v, o)'
BY DEF Talks

\* Nor the queue, but for an early chat line.
Chats == conn'.queue \in {conn.queue, Append(conn.queue, "early chat")}

LEMMA OwesStill ==
  ASSUME TypeOK, NEW o, Owes(conn.queue, o), Chats
  PROVE  Owes(conn'.queue, o)
<1>1. conn.queue \in Seq(Serverbound) /\ "early chat" \in Serverbound
  BY ClientSays DEF TypeOK, ConnType
<1>2. Owes(Append(conn.queue, "early chat"), o)
  BY <1>1, OwesChat
<1> QED
  BY <1>2 DEF Chats

LEMMA SpokenSame ==
  ASSUME TypeOK, NEW s \in Ids, Chats,
         conn'.reactor = conn.reactor, conn'.zip = conn.zip,
         conn'.key = conn.key, net'[s].srv = net[s].srv, net'[s].zip = net[s].zip,
         net'[s].key = net[s].key, Unread(s)' = Unread(s),
         pc'[s] = "wrap" <=> pc[s] = "wrap",
         pc'[s] \in {"join", "answer"} => pc[s] \in {"join", "answer"}
  PROVE  Spoken(s) => Spoken(s)'
<1>1. ASSUME NEW v \in Phases, NEW o \in Seq(Serverbound), Owes(conn.queue, o), Talks(s, v, o)
      PROVE  Spoken(s)'
  <2>1. Owes(conn'.queue, o) /\ Talks(s, v, o)'
    BY <1>1, OwesStill, TalksSame
  <2> QED
    BY <2>1 DEF Spoken
<1> QED
  BY <1>1 DEF Spoken, Offended

\* An early chat line is sent: it disturbs no server that plays, and offends any
\* other.
LEMMA SpokenEarly ==
  ASSUME TypeOK, NEW s \in Ids, Up(s), conn.socket = s, Spoken(s),
         NEW k, Sent(k), conn'.reactor = conn.reactor, conn'.zip = conn.zip,
         conn'.key = conn.key, pc'[s] = pc[s], job'[s].pkt = job[s].pkt,
         \A o \in Seq(Serverbound) : Owes(conn.queue, o) => Owes(conn'.queue, o)
  PROVE  k = "early chat" => Spoken(s)'
<1> SUFFICES ASSUME k = "early chat" PROVE Spoken(s)'
  OBVIOUS
<1>1. PICK to \in Phases :
        /\ Leads(s, k, to)
        /\ net' = [net EXCEPT ![s].srv = to, ![s].key = @]
  BY DEF Sent, Up
<1>2. /\ net'[s].srv = to /\ net'[s].zip = net[s].zip /\ net'[s].key = net[s].key
      /\ net'[s].inbox = net[s].inbox /\ net[s].srv \in Phases
  <2>1. net[s] \in EndType /\ net'[s] = [net[s] EXCEPT !.srv = to, !.key = @]
    BY <1>1 DEF TypeOK
  <2> QED
    BY <2>1 DEF EndType
<1>3. \A x, y : <<x, k, y>> \in Protocol => x = "play" /\ y = "play"
  BY DEF Protocol
<1>4. \/ net[s].srv = "play" /\ to = "play"
      \/ to = Shocked(net[s].srv, k)
  BY <1>1, <1>3 DEF Leads
<1>5. net[s].srv # "confused"
  BY TalksClearly DEF Spoken, Offended
<1>6. CASE to = Shocked(net[s].srv, k)
  <2>1. to \in {"offended", "offended login"}
    BY <1>5, <1>6 DEF Shocked, Lost
  <2> QED
    BY <1>2, <2>1 DEF Spoken, Offended
<1>7. CASE net[s].srv = "play" /\ to = "play"
  <2>1. Unread(s)' = Unread(s)
    BY <1>2 DEF Unread
  <2>2. PICK v \in Phases, o \in Seq(Serverbound) : Owes(conn.queue, o) /\ Talks(s, v, o)
    BY <1>7 DEF Spoken, Offended
  <2>3. Talks(s, v, o)'
    BY <1>2, <1>7, <2>1, <2>2, TalksSame
  <2> QED
    BY <2>2, <2>3 DEF Spoken
<1> QED
  BY <1>4, <1>6, <1>7

\* An offended server stays offended, whatever is sent.
LEMMA OffendedSent ==
  ASSUME TypeOK, NEW s \in Ids, conn.socket = s, NEW k, Sent(k), Offended(s)
  PROVE  Offended(s)'
<1>1. \A x, y : <<x, k, y>> \in Protocol => x \notin {"offended", "offended login"}
  BY DEF Protocol
<1>2. CASE net' = net
  BY <1>2 DEF Offended
<1>3. ASSUME NEW to \in Phases, Leads(s, k, to),
             net' = [net EXCEPT ![s].srv = to,
               ![s].key = IF k = "encryption response" THEN s ELSE @]
      PROVE  Offended(s)'
  <2>1. to = net[s].srv
    BY <1>1, <1>3 DEF Leads, Shocked, Lost, Offended
  <2>2. net[s] \in EndType /\ \E x : net'[s] = [net[s] EXCEPT !.srv = to, !.key = x]
    BY <1>3 DEF TypeOK
  <2>3. net'[s].srv = to
    BY <2>2 DEF EndType
  <2> QED
    BY <2>1, <2>3 DEF Offended
<1> QED
  BY <1>2, <1>3 DEF Sent

\* The next packet is sent.
LEMMA TalksSent ==
  ASSUME TypeOK, NEW s \in Ids, Up(s), conn.socket = s, NEW v, NEW o, Talks(s, v, o),
         NEW k, NEW w, <<v, k, w>> \in Protocol,
         k \notin {"encryption response", "early chat"}, Sent(k), NEW u,
         Fits(w, conn'.reactor, u), conn'.zip = conn.zip, conn'.key = conn.key,
         pc'[s] = pc[s], job'[s].pkt = job[s].pkt
  PROVE  Talks(s, w, u)' /\ w \in Phases
<1>1. /\ v \in Mute \cup {"play"} /\ v \notin {"encrypt", "ready", "confused"}
      /\ w \in Phases /\ (v = "play" => w = "play")
      /\ \A x : <<v, k, x>> \in Protocol => x = w
  BY DEF Protocol, Mute, Phases, Joining
<1>2. /\ net[s].srv = v /\ net[s].zip = conn.zip /\ ~ Zips(Unread(s))
      /\ v \in Mute => Unread(s) = <<>>
  BY <1>1, TalksClearly
<1>3. pc[s] \notin {"wrap", "join", "answer"} /\ net[s].key = conn.key
  BY <1>1 DEF Talks
<1>4. /\ net[s].srv # w => v \in Mute
      /\ net'[s] = [net[s] EXCEPT !.srv = w, !.key = @]
  <2>1. PICK to \in Phases :
          /\ Leads(s, k, to)
          /\ net' = [net EXCEPT ![s].srv = to,
               ![s].key = IF k = "encryption response" THEN s ELSE @]
    BY DEF Sent, Up
  <2>2. to = w
    BY <1>1, <1>2, <1>3, <2>1 DEF Leads
  <2> QED
    BY <1>1, <1>2, <2>1, <2>2 DEF TypeOK
<1>5. /\ net'[s].srv = w /\ net'[s].zip = net[s].zip /\ net'[s].key = net[s].key
      /\ net'[s].inbox = net[s].inbox
  BY <1>4, UnreadType DEF EndType
<1>6. Unread(s)' = Unread(s)
  BY <1>5 DEF Unread
<1>7. Coming(w, Unread(s), w)
  <2>1. CASE v \in Mute
    <3>1. Unread(s) = <<>>
      BY <1>2, <2>1
    <3>2. Coming(w, <<>>, w)
      BY ComingNone
    <3> QED
      BY <3>1, <3>2
  <2>2. CASE v = "play"
    BY <1>1, <1>2, <2>2 DEF Talks
  <2> QED
    BY <1>1, <2>1, <2>2
<1>8. Talks(s, w, u)'
  BY <1>2, <1>3, <1>5, <1>6, <1>7 DEF Talks
<1> QED
  BY <1>1, <1>8

-----------------------------------------------------------------------------
(***************************************************************************)
(* The abstract steps, with what they do to an open connection.            *)
(***************************************************************************)

\* A thread that does not leave is the one that the open connection belongs to.
LEMMA WhoServes ==
  ASSUME TypeOK, ThreadInv, Life, Kin, ~ Hasty, Speaks, NEW s \in Ids, Up(s),
         NEW t \in Ids,
         pc[t] \in Active \ {"turn", "exit", "final", "going", "raise", "report"}
  PROVE  /\ t = s /\ Calm /\ conn.socket = s /\ conn.file_object = s
         /\ networking_thread = s /\ new_networking_thread = None
         /\ pc[s] # "opening" /\ (interrupt[s] => pc[s] \in Failed)
<1>0. /\ networking_thread = t /\ t # None /\ t \in Procs
      /\ conn.socket = s /\ conn.file_object = s /\ \A p \in Procs : pc[p] # "opening"
  BY ProcsApart DEF ThreadInv, OneReader, Speaks, Owned, Procs
<1>1. Calm
  BY <1>0, CalmWhen
<1>2. new_networking_thread # s
  <2>1. ASSUME new_networking_thread # None PROVE FALSE
    <3>1. job[t].next
      BY <1>0, <2>1 DEF Kin, Heirs
    <3>2. pc[t] \in {"turn", "exit", "final", "dead", "raise", "report"}
      BY <3>1 DEF Kin, Heirs
    <3> QED
      BY <3>2 DEF Active
  <2>2. s # None
    BY ProcsApart DEF Procs
  <2> QED
    BY <2>1, <2>2
<1>3. /\ networking_thread = s /\ new_networking_thread = None
      /\ interrupt[s] => pc[s] \in Failed
  BY <1>1, <1>2 DEF Speaks, Owned, Calm
<1> QED
  BY <1>0, <1>1, <1>3

LEMMA BeyondSocket ==
  ASSUME TypeOK, Kin PROVE \A s \in Ids : s > dials => s # conn.socket
<1> SUFFICES ASSUME NEW s \in Ids, s > dials, s = conn.socket PROVE FALSE
  OBVIOUS
<1>1. s <= dials
  BY DEF Kin, Dialing
<1>2. s \in Int /\ dials \in Nat
  BY DEF Ids, TypeOK
<1> QED
  BY <1>1, <1>2

\* No server is confused by the step, unless the client still talks to it.
Unconfused == \A s \in Ids : net'[s].srv = "confused" => net[s].srv = "confused" \/ Up(s)'

Still(s) ==
  /\ Up(s) /\ conn'.socket = conn.socket /\ conn'.file_object = conn.file_object
  /\ Spoken(s) => Spoken(s)'

\* A step of thread t within the active places, without dialling.
Tends(t) ==
  /\ \A s \in Ids : Up(s)' =>
       /\ Still(s)
       /\ pc[t] \in Failed => pc'[t] \in Failed
       /\ interrupt' = interrupt \/ pc'[t] \in Failed
  /\ \A s \in Ids : s # conn.socket /\ Blank(s) => Blank(s)'
  /\ Unconfused
  /\ pc'[t] = "closing" => job'[t].via = conn'.reactor
  /\ pc'[t] \in {"clear", "narrow", "dial"} => conn'.reactor = "query"

LEMMA StillTalks ==
  ASSUME NoConfusion, Talk, Calm, Unconfused, \A s \in Ids : Up(s)' => Still(s)
  PROVE  NoConfusion' /\ \A s \in Ids : Up(s)' => Spoken(s)'
<1>1. ASSUME NEW s \in Ids, Up(s)' PROVE Spoken(s)'
  BY <1>1 DEF Still, Talk
<1>2. ASSUME NEW s \in Ids, Spoken(s)' PROVE net'[s].srv # "confused"
  <2>1. ASSUME NEW w, NEW o, Talks(s, w, o)' PROVE net'[s].srv # "confused"
    <3>1. Coming(w, Unread(s)', net'[s].srv) /\ w # "confused"
      BY <2>1 DEF Talks, Fits, Lost
    <3> QED
      BY <3>1, ComingClear
  <2> QED
    BY <1>2, <2>1 DEF Spoken, Offended
<1>3. NoConfusion'
  BY <1>1, <1>2 DEF NoConfusion, Unconfused
<1> QED
  BY <1>1, <1>3

LEMMA WorksTalk ==
  ASSUME TypeOK, ThreadInv, Life, Kin, ~ Hasty, Speaks,
         NEW t \in Ids, Working(t), Tends(t)
  PROVE  Speaks'
<1>1. PICK l : Works(t, l)
  BY DEF Working
<1>0. /\ pc' = [pc EXCEPT ![t] = l] /\ pc \in [Procs -> ThreadPCs \cup CallerPCs]
      /\ UNCHANGED <<networking_thread, new_networking_thread, dials>>
      /\ pc[t] \in Active \ {"going"} /\ l \in Active \ {"opening", "going"}
      /\ \A u \in Ids : u \in Procs /\ u # None
      /\ networking_thread = t /\ dials \in Nat
      /\ \A u \in Ids : u # t => pc[u] \notin Active
  BY <1>1, ProcsApart DEF Works, TypeOK, Procs, ThreadInv, OneReader
<1>2. \A p \in Procs : pc'[p] = IF p = t THEN l ELSE pc[p]
  BY <1>0
<1>3. Calm' /\ (Calm \/ pc[t] = "opening")
  <2>1. CASE pc[t] = "opening"
    BY <1>0, <1>2, <2>1, WhoDials DEF Calm
  <2>2. CASE pc[t] # "opening"
    <3>1. Calm
      BY <1>0, <2>2, CalmWhen
    <3> QED
      BY <1>0, <1>2, <3>1 DEF Calm
  <2> QED
    BY <2>1, <2>2
<1>4. \A s \in Ids : Up(s)' => Still(s) /\ Calm
  BY <1>0, <1>3 DEF Tends, Still, Speaks, Owned
<1>5. NoConfusion' /\ Talk'
  <2>1. CASE Calm
    BY <1>4, <2>1, StillTalks DEF Tends, Speaks, Talk
  <2>2. CASE ~ Calm
    BY <1>4, <2>2 DEF Tends, Speaks, Talk, NoConfusion, Unconfused
  <2> QED
    BY <2>1, <2>2
<1>6. Owned'
  <2> SUFFICES ASSUME NEW s \in Ids, Up(s)'
               PROVE  /\ conn'.socket = s /\ conn'.file_object = s
                      /\ \A p \in Procs : pc'[p] # "opening"
                      /\ \/ new_networking_thread' = s
                         \/ /\ networking_thread' = s /\ new_networking_thread' = None
                            /\ interrupt'[s] => pc'[s] \in Failed
    BY DEF Owned
  <2>1. /\ Up(s) /\ Calm /\ conn'.socket = conn.socket /\ conn'.file_object = conn.file_object
        /\ pc[t] \in Failed => pc'[t] \in Failed
        /\ interrupt' = interrupt \/ pc'[t] \in Failed
    BY <1>4 DEF Tends, Still
  <2>2. /\ conn.socket = s /\ conn.file_object = s
        /\ \/ new_networking_thread = s
           \/ /\ networking_thread = s /\ new_networking_thread = None
              /\ interrupt[s] => pc[s] \in Failed
    BY <2>1 DEF Speaks, Owned, Calm
  <2> QED
    BY <1>0, <1>3, <2>1, <2>2 DEF Calm
<1>7. Opened'
  <2>1. \A s \in Ids : s > dials => Blank(s)'
    <3>1. \A s \in Ids : s > dials => s # conn.socket
      BY BeyondSocket
    <3>2. \A s \in Ids : s > dials => Blank(s)
      BY DEF Speaks, Opened, Kin, Dialing
    <3> QED
      BY <1>0, <3>1, <3>2 DEF Tends
  <2> QED
    BY <1>0, <1>3, <2>1 DEF Opened, Calm
<1>8. Reacting'
  <2>1. ASSUME NEW u \in Ids, u # t PROVE pc'[u] \notin {"closing", "clear", "narrow", "dial"}
    BY <1>0, <1>2, <2>1 DEF Active, ThreadPCs
  <2> QED
    BY <2>1 DEF Reacting, Tends
<1> QED
  BY <1>5, <1>6, <1>7, <1>8 DEF Speaks

\* What a program or a server does beside a thread.
Attends ==
  /\ \A s \in Ids : Up(s)' =>
       /\ Up(s) /\ conn'.socket = conn.socket /\ conn'.file_object = conn.file_object
       /\ interrupt' = interrupt
       /\ Calm => Still(s)
  /\ \A s \in Ids : s # conn.socket /\ Fresh(s) /\ Blank(s) => Blank(s)'
  /\ Unconfused /\ conn'.reactor = conn.reactor
  /\ \/ Calm
     \/ /\ \A s \in Ids : Fresh(s) /\ Blank(s) => Blank(s)'
        /\ \A s \in Ids : net'[s].srv = "confused" => net[s].srv = "confused"
        /\ UNCHANGED pc /\ Chats /\ Direct' = Direct
        /\ conn'.zip = conn.zip /\ conn'.key = conn.key
     \/ Calm' /\ Unconfused /\ \A s \in Ids : ~ Up(s)'

LEMMA AsideTalk ==
  ASSUME TypeOK, ThreadInv, Life, Kin, ~ Hasty, Speaks, Aside, Attends
  PROVE  Speaks'
<1>0. /\ UNCHANGED <<networking_thread, new_networking_thread, dials, job>>
      /\ pc \in [Procs -> ThreadPCs \cup CallerPCs] /\ dials \in Nat
      /\ \A u \in Ids : u \in Procs /\ u \notin Callers
      /\ \A c \in Callers : c \in Procs
  BY ProcsApart DEF Aside, TypeOK, Procs
<1>1. /\ \A u \in Ids : pc'[u] = pc[u]
      /\ \A p \in Procs : /\ pc'[p] \in {"opening", "going"} => pc'[p] = pc[p]
                          /\ pc[p] = "going" => pc'[p] = "going"
  <2>2. \A u \in Ids : pc'[u] = pc[u]
    BY <1>0 DEF Aside
  <2>3. \A p \in Procs : /\ pc'[p] \in {"opening", "going"} => pc'[p] = pc[p]
                         /\ pc[p] = "going" => pc'[p] = "going"
    BY <1>0 DEF Aside
  <2> QED
    BY <2>2, <2>3
<1>2. Calm => Calm'
  BY <1>1 DEF Calm
<1>3. NoConfusion' /\ Talk'
  <2>1. CASE Calm
    BY <2>1, StillTalks DEF Attends, Speaks, Talk
  <2>2. CASE UNCHANGED pc /\ ~ Calm
    BY <2>2 DEF Attends, Speaks, Talk, Calm, NoConfusion
  <2>3. CASE Unconfused /\ \A s \in Ids : ~ Up(s)'
    BY <2>3 DEF Speaks, Talk, Unconfused, NoConfusion
  <2> QED
    BY <2>1, <2>2, <2>3 DEF Attends
<1>4. Owned'
  <2> SUFFICES ASSUME NEW s \in Ids, Up(s)'
               PROVE  /\ conn'.socket = s /\ conn'.file_object = s
                      /\ \A p \in Procs : pc'[p] # "opening"
                      /\ \/ s = dials' /\ \E p \in Procs : pc'[p] = "going"
                         \/ new_networking_thread' = s
                         \/ /\ networking_thread' = s /\ new_networking_thread' = None
                            /\ interrupt'[s] => pc'[s] \in Failed
    BY DEF Owned
  <2>1. /\ Up(s) /\ conn'.socket = conn.socket /\ conn'.file_object = conn.file_object
        /\ interrupt' = interrupt
    BY DEF Attends
  <2>2. /\ conn.socket = s /\ conn.file_object = s
        /\ \A p \in Procs : pc[p] # "opening"
        /\ \/ s = dials /\ \E p \in Procs : pc[p] = "going"
           \/ new_networking_thread = s
           \/ /\ networking_thread = s /\ new_networking_thread = None
              /\ interrupt[s] => pc[s] \in Failed
    BY <2>1 DEF Speaks, Owned
  <2>3. \A p \in Procs : pc'[p] # "opening"
    BY <1>1, <2>2
  <2> QED
    BY <1>0, <1>1, <2>1, <2>2, <2>3
<1>5. Opened'
  <2>1. \A s \in Ids : s > dials => Blank(s)'
    <3>1. \A s \in Ids : s > dials => s # conn.socket
      BY BeyondSocket
    <3>2. \A s \in Ids : s > dials => Blank(s) /\ Fresh(s)
      BY DEF Speaks, Opened, Kin, Dialing
    <3> QED
      BY <1>0, <3>1, <3>2 DEF Attends
  <2>2. CASE Calm \/ Calm'
    BY <1>0, <1>2, <2>1, <2>2 DEF Opened, Calm
  <2>3. CASE /\ \A s \in Ids : Fresh(s) /\ Blank(s) => Blank(s)'
             /\ UNCHANGED pc /\ Chats /\ Direct' = Direct
             /\ conn'.zip = conn.zip /\ conn'.key = conn.key
    <3>1. ASSUME NEW p \in Procs, pc[p] \in {"opening", "going"} PROVE Blank(dials)'
      <4>1. dials \in Ids /\ Fresh(dials) /\ Blank(dials)
        BY <3>1 DEF ThreadInv, Kin, Dialing, Speaks, Opened
      <4> QED
        BY <1>0, <2>3, <4>1 DEF Blank
    <3>2. \A o : Owes(conn.queue, o) => Owes(conn'.queue, o)
      BY <2>3, OwesStill
    <3>3. conn'.reactor = conn.reactor
      BY DEF Attends
    <3> QED
      BY <1>0, <2>1, <2>3, <3>1, <3>2, <3>3 DEF Opened, Speaks
  <2> QED
    BY <2>2, <2>3 DEF Attends
<1>6. Reacting'
  BY <1>0, <1>1 DEF Reacting, Speaks, Attends
<1> QED
  BY <1>3, <1>4, <1>5, <1>6 DEF Speaks

-----------------------------------------------------------------------------
(***************************************************************************)
(* Every step of a thread in its loop, its handlers or its ends tends.     *)
(***************************************************************************)

\* Who is closed is not talked to, and no server is confused by it.
LEMMA ClosedTalk ==
  ASSUME TypeOK, Owned, net' = ClosedEnds
  PROVE  /\ \A s \in Ids : ~ Up(s)'
         /\ \A s \in Ids : s # conn.socket /\ Blank(s) => Blank(s)'
         /\ \A s \in Ids : net'[s].srv = "confused" => net[s].srv = "confused"
<1>1. \A s \in Ids : net'[s] = net[s] \/ (conn.socket = s /\ net'[s].link # "up")
  BY ClosedKeeps
<1>2. ASSUME NEW s \in Ids, Up(s)' PROVE FALSE
  <2>1. Up(s) /\ conn.socket = s
    BY <1>1, <1>2 DEF Owned, Up
  <2>2. net'[s] = ClosedEnd(net[s]) /\ net[s] \in EndType
    BY <2>1 DEF ClosedEnds, TypeOK
  <2> QED
    BY <1>2, <2>2 DEF ClosedEnd, EndType, Up
<1>3. \A s \in Ids : s # conn.socket => net'[s] = net[s]
  BY DEF ClosedEnds, TypeOK
<1>4. ASSUME NEW s \in Ids, s = conn.socket, net'[s].srv = "confused"
      PROVE  net[s].srv = "confused"
  <2>1. net'[s] = ClosedEnd(net[s]) /\ net[s] \in EndType
    BY <1>4 DEF ClosedEnds, TypeOK
  <2> QED
    BY <1>4, <2>1 DEF ClosedEnd, EndType
<1> QED
  BY <1>2, <1>3, <1>4 DEF Blank

\* Nobody is talked to.
LEMMA SilentTends ==
  ASSUME NEW t \in Ids, net' = net, \A s \in Ids : ~ Up(s),
         pc'[t] = "closing" => job'[t].via = conn'.reactor,
         pc'[t] \in {"clear", "narrow", "dial"} => conn'.reactor = "query"
  PROVE  Tends(t)
BY DEF Tends, Up, Blank, Unconfused

\* A write that fails finds no open connection.
LEMMA FailsSilent ==
  ASSUME TypeOK, Owned, SendIOError \/ NoSocket
  PROVE  \A s \in Ids : ~ Up(s)
BY DEF Owned, Up, SendIOError, NoSocket

\* Threads that leave the attributes and the servers alone.
LEMMA LeavesTends ==
  ASSUME TypeOK, NEW t \in Ids, UNCHANGED <<conn, net>>,
         NEW l, pc' = [pc EXCEPT ![t] = l], pc[t] \notin {"react", "wrap"},
         l \notin {"react", "wrap", "narrow", "dial"},
         l = "clear" => conn.reactor = "query", pc[t] \in Failed => l \in Failed,
         l \in {"join", "answer"} => pc[t] \in {"join", "answer"},
         \A u \in Ids : u # t => job'[u] = job[u],
         interrupt' = interrupt \/ l \in Failed,
         l = "closing" => job'[t].via = conn.reactor
  PROVE  Tends(t)
<1>0. t \in Procs /\ \A s \in Ids : s \in Procs
  BY DEF Procs
<1>1. pc'[t] = l /\ \A s \in Ids : s # t => pc'[s] = pc[s]
  BY <1>0 DEF TypeOK
<1>2. ASSUME NEW s \in Ids PROVE Unread(s)' = Unread(s)
  BY <1>1 DEF Unread
<1>3. ASSUME NEW s \in Ids PROVE Spoken(s) => Spoken(s)'
  <2>1. pc'[s] = "wrap" <=> pc[s] = "wrap"
    BY <1>1
  <2>2. pc'[s] \in {"join", "answer"} => pc[s] \in {"join", "answer"}
    BY <1>1
  <2>3. Chats
    BY DEF Chats
  <2> QED
    BY <1>2, <2>1, <2>2, <2>3, SpokenSame
<1> QED
  BY <1>1, <1>3 DEF Tends, Still, Up, Blank, Unconfused

\* What a sent packet leaves alone.
LEMMA SentLeaves ==
  ASSUME TypeOK, NEW k, Sent(k)
  PROVE  /\ \A s \in Ids : s # conn.socket => net'[s] = net[s]
         /\ \A s \in Ids : Up(s)' => Up(s)
         /\ \A s \in Ids : net'[s].srv # net[s].srv => Up(s)'
<1> SUFFICES ASSUME NEW s \in Ids
             PROVE  /\ s # conn.socket => net'[s] = net[s]
                    /\ Up(s)' => Up(s)
                    /\ net'[s].srv # net[s].srv => Up(s)'
  OBVIOUS
<1>1. CASE net' = net
  BY <1>1 DEF Up
<1>2. ASSUME conn.socket \in Ids, net[conn.socket].link = "up", NEW to \in Phases,
             net' = [net EXCEPT ![conn.socket].srv = to,
               ![conn.socket].key =
                  IF k = "encryption response" THEN conn.socket ELSE @]
      PROVE  /\ s # conn.socket => net'[s] = net[s]
             /\ Up(s)' => Up(s)
             /\ net'[s].srv # net[s].srv => Up(s)'
  <2>1. CASE s # conn.socket
    BY <1>2, <2>1 DEF Up, TypeOK
  <2>2. CASE s = conn.socket
    <3>0. /\ net[s] \in EndType
          /\ \E x : net'[s] = [net[s] EXCEPT !.srv = to, !.key = x]
      BY <1>2, <2>2 DEF TypeOK
    <3>1. net'[s].link = net[s].link
      BY <3>0 DEF EndType
    <3> QED
      BY <1>2, <2>2, <3>1 DEF Up
  <2> QED
    BY <2>1, <2>2
<1> QED
  BY <1>1, <1>2 DEF Sent

LEMMA OneOrTwo ==
  \A a, b : /\ Head(<<a>>) = a /\ Tail(<<a>>) = <<>>
            /\ Head(<<a, b>>) = a /\ Tail(<<a, b>>) = <<b>>
            /\ Append(<<a>>, b) = <<a, b>> /\ Append(<<>>, a) = <<a>>
            /\ <<>> \o <<a>> = <<a>>
<1> TAKE a, b
<1> DEFINE S == {a, b}
<1>1. a \in S /\ b \in S /\ <<>> \in Seq(S) /\ <<a>> \in Seq(S) /\ <<a, b>> \in Seq(S)
  OBVIOUS
<1>2. Len(<<a>>) = 1 /\ <<a>>[1] = a
  OBVIOUS
<1>3. Len(<<a, b>>) = 2 /\ <<a, b>>[1] = a /\ <<a, b>>[2] = b
  OBVIOUS
<1> HIDE DEF S
<1>4. Head(<<a>>) = a /\ Head(<<a, b>>) = a
  BY <1>1, <1>2, <1>3
<1>5. Tail(<<a>>) = <<>>
  BY <1>1, <1>2
<1>6. Append(<<>>, a) = <<a>>
  BY <1>1, <1>2
<1>7. <<>> \o <<a>> = <<a>>
  BY <1>1, <1>2
<1>8. Append(<<a>>, b) = <<a, b>>
  <2> DEFINE p == <<a>>
             q == <<a, b>>
  <2>1. p \in Seq(S) /\ q \in Seq(S) /\ Len(p) = 1 /\ Len(q) = 2 /\ p[1] = a /\ q[1] = a /\ q[2] = b
    BY <1>1, <1>2, <1>3
  <2> HIDE DEF p, q
  <2>2. /\ Append(p, b) \in Seq(S) /\ Len(Append(p, b)) = 2
        /\ Append(p, b)[1] = a /\ Append(p, b)[2] = b
    <3>0. p \in Seq(S) /\ b \in S
      BY <1>1, <2>1
    <3>1. /\ Len(Append(p, b)) = Len(p) + 1 /\ Append(p, b)[Len(p) + 1] = b
          /\ Append(p, b) \in Seq(S)
          /\ \A i \in 1..Len(p) : Append(p, b)[i] = p[i]
      BY <3>0, MoreOf
    <3>3. Len(p) + 1 = 2 /\ 1 \in 1..Len(p)
      BY <2>1
    <3> QED
      BY <2>1, <3>1, <3>3
  <2>3. \A i \in 1..2 : Append(p, b)[i] = q[i]
    BY <2>1, <2>2
  <2>4. Append(p, b) = q
    BY <2>1, <2>2, <2>3
  <2> QED
    BY <2>4 DEF p, q
<1>9. Tail(<<a, b>>) = <<b>>
  BY <1>1, <1>2, <1>3
<1> QED
  BY <1>4, <1>5, <1>6, <1>7, <1>8, <1>9

\* The head of the queue is what the server expects next.
LEMMA NextFits ==
  ASSUME NEW v \in Phases, NEW r, NEW q \in Seq(Serverbound), q # <<>>, Fits(v, r, q)
  PROVE  \E w : /\ <<v, Head(q), w>> \in Protocol
                /\ Head(q) \notin {"encryption response", "early chat"}
                /\ Fits(w, r, Tail(q))
<1>1. CASE v = "play"
  <2>1. /\ Tail(q) \in Seq(Serverbound) /\ Len(q) \in Nat
        /\ Head(q) = q[1] /\ 1 \in 1..Len(q)
        /\ \A i \in 1..Len(Tail(q)) : Tail(q)[i] = q[i + 1] /\ i + 1 \in 1..Len(q)
    BY TailOf
  <2>2. /\ r = "play" /\ Head(q) \in {"keep alive", "position", "chat"}
        /\ Holds(Tail(q), {"keep alive", "position", "chat"})
    BY <1>1, <2>1 DEF Fits, Holds
  <2>3. <<v, Head(q), "play">> \in Protocol
    BY <1>1, <2>2 DEF Protocol
  <2>4. Fits("play", r, Tail(q))
    BY <2>2 DEF Fits, Lost
  <2> QED
    BY <2>2, <2>3, <2>4
<1>2. CASE v = "open" /\ r = "login" /\ q = <<"hello login", "start">>
  <2>1. Head(q) = "hello login" /\ Tail(q) = <<"start">>
    BY <1>2, OneOrTwo
  <2>2. <<"open", "hello login", "login">> \in Protocol
    BY DEF Protocol
  <2>3. Fits("login", r, <<"start">>)
    BY <1>2 DEF Fits, Lost
  <2> QED
    BY <1>2, <2>1, <2>2, <2>3
<1>3. CASE v = "open" /\ r \in Asks /\ q = <<"hello status", "request">>
  <2>1. Head(q) = "hello status" /\ Tail(q) = <<"request">>
    BY <1>3, OneOrTwo
  <2>2. <<"open", "hello status", "status">> \in Protocol
    BY DEF Protocol
  <2>3. Fits("status", r, <<"request">>)
    BY <1>3 DEF Fits, Lost
  <2> QED
    BY <1>3, <2>1, <2>2, <2>3
<1>4. ASSUME NEW k, NEW w, q = <<k>>, <<v, k, w>> \in Protocol,
             k \notin {"encryption response", "early chat"},
             w \in {"named", "asked", "pinged", "ready"}, w = "named" \/ w = "ready" => r = "login",
             w \in {"asked", "pinged"} => r \in Asks
      PROVE  \E x : /\ <<v, Head(q), x>> \in Protocol
                    /\ Head(q) \notin {"encryption response", "early chat"}
                    /\ Fits(x, r, Tail(q))
  <2>1. Head(q) = k /\ Tail(q) = <<>>
    BY <1>4, OneOrTwo
  <2>2. Fits(w, r, <<>>)
    BY <1>4 DEF Fits, Lost
  <2> QED
    BY <1>4, <2>1, <2>2
<1>5. CASE v = "login" /\ q = <<"start">> /\ r = "login"
  <2>1. <<"login", "start", "named">> \in Protocol
    BY DEF Protocol
  <2> QED
    BY <1>4, <1>5, <2>1
<1>6. CASE v = "status" /\ q = <<"request">> /\ r \in Asks
  <2>1. <<"status", "request", "asked">> \in Protocol
    BY DEF Protocol
  <2> QED
    BY <1>4, <1>6, <2>1
<1>7. CASE v = "plugin" /\ q = <<"plugin response">> /\ r = "login"
  <2>1. <<"plugin", "plugin response", "ready">> \in Protocol
    BY DEF Protocol
  <2> QED
    BY <1>4, <1>7, <2>1
<1>8. CASE v = "told" /\ q = <<"ping">> /\ r \in Asks
  <2>1. <<"told", "ping", "pinged">> \in Protocol
    BY DEF Protocol
  <2> QED
    BY <1>4, <1>8, <2>1
<1> QED
  BY <1>1, <1>2, <1>3, <1>5, <1>6, <1>7, <1>8 DEF Fits, Phases, Joining

\* The head of the queue is sent to the server, or is lost.
LEMMA QueueTends ==
  ASSUME TypeOK, ThreadInv, Life, Kin, ~ Hasty, Speaks, NEW p \in Procs,
         conn.queue # <<>>, conn' = [conn EXCEPT !.queue = Tail(@)], Sent(Head(conn.queue)),
         UNCHANGED <<pc, interrupt>>, \A u \in Ids : job'[u].pkt = job[u].pkt
  PROVE  /\ \A s \in Ids : Up(s)' => Still(s)
         /\ \A s \in Ids : s # conn.socket /\ Blank(s) => Blank(s)'
         /\ Unconfused
<1> DEFINE q == conn.queue
           k == Head(q)
<1>1. /\ conn'.queue = Tail(q) /\ conn'.socket = conn.socket /\ conn'.zip = conn.zip
      /\ conn'.file_object = conn.file_object /\ conn'.reactor = conn.reactor
      /\ conn'.key = conn.key
      /\ q \in Seq(Serverbound)
  BY DEF TypeOK, ConnType
<1>2. /\ \A s \in Ids : s # conn.socket => net'[s] = net[s]
      /\ \A s \in Ids : Up(s)' => Up(s)
      /\ \A s \in Ids : net'[s].srv # net[s].srv => Up(s)'
  BY SentLeaves
<1>3. Sent(k) /\ q # <<>>
  OBVIOUS
<1> HIDE DEF q, k
<1>4. ASSUME NEW s \in Ids, Up(s), Spoken(s) PROVE Spoken(s)'
  <2>1. conn.socket = s
    BY <1>4 DEF Speaks, Owned
  <2>2. CASE Offended(s)
    BY <1>3, <2>1, <2>2, OffendedSent DEF Spoken
  <2>3. CASE k = "early chat"
    <3>1. \A o \in Seq(Serverbound) : Owes(q, o) => Owes(Tail(q), o)
      BY <1>1, <1>3, <2>3, OwesTail DEF k
    <3> QED
      BY <1>1, <1>3, <1>4, <2>1, <2>3, <3>1, SpokenEarly DEF q
  <2>4. ASSUME k # "early chat", NEW v \in Phases, NEW o \in Seq(Serverbound),
               Owes(q, o), Talks(s, v, o)
        PROVE  Spoken(s)'
    <3>0. /\ o # <<>> /\ Head(o) = k /\ Tail(o) \in Seq(Serverbound)
          /\ Owes(Tail(q), Tail(o))
      BY <1>1, <1>3, <2>4, OwesTail DEF k
    <3>1. /\ o # <<>> /\ Head(o) = k /\ Tail(o) \in Seq(Serverbound)
          /\ Owes(conn'.queue, Tail(o))
      BY <1>1, <3>0
    <3>2. Fits(v, conn.reactor, o)
      BY <2>4 DEF Talks
    <3>3. PICK w : /\ <<v, k, w>> \in Protocol
                   /\ k \notin {"encryption response", "early chat"}
                   /\ Fits(w, conn.reactor, Tail(o))
      BY <2>4, <3>1, <3>2, NextFits
    <3>4. Talks(s, w, Tail(o))' /\ w \in Phases
      BY <1>1, <1>3, <1>4, <2>1, <2>4, <3>3, TalksSent
    <3> QED
      BY <3>1, <3>4 DEF Spoken
  <2> QED
    BY <1>4, <2>2, <2>3, <2>4 DEF Spoken, q
<1>5. \A s \in Ids : Up(s)' => Still(s)
  BY <1>1, <1>2, <1>4 DEF Still
<1> QED
  BY <1>2, <1>5 DEF Blank, Unconfused

LEMMA LoopTends ==
  ASSUME TypeOK, ThreadInv, Life, Kin, ~ Hasty, Speaks, NEW t \in Ids,
         Turn(t) \/ Write(t) \/ Written(t)
  PROVE  Tends(t)
<1>0. /\ t \in Procs /\ job[t].num \in Nat /\ job[t].bad \in Errors
      /\ UNCHANGED interrupt
  BY DEF TypeOK, Procs, JobType, Turn, Write, Written
<1>1. CASE Turn(t)
  <2>1. PICK l \in {"exit", "writing"} : pc' = [pc EXCEPT ![t] = l]
    BY <1>1 DEF Turn, Goto
  <2> QED
    BY <1>0, <1>1, <2>1, LeavesTends DEF Turn, Failed
<1>2. ASSUME \/ \E exc \in Excs : Raises(t, exc)
             \/ \E bad \in Errors : Onward(t, job[t].num, bad),
             net' = net, conn' = conn \/ \A s \in Ids : ~ Up(s), pc[t] = "writing"
      PROVE  Tends(t)
  <2>1. Carries(t)
    BY <1>2, TurnsCarry, Zenon
  <2>2. Goes(t, {"read", "raise", "turn"})
    BY <1>0, <1>2, RaisesGoes, OnwardGoes, Zenon DEF Goes
  <2>3. PICK l \in {"read", "raise", "turn"} : pc' = [pc EXCEPT ![t] = l]
    BY <2>2 DEF Goes
  <2>4. pc'[t] = l
    BY <1>0, <2>3 DEF TypeOK
  <2>5. CASE conn' = conn
    BY <1>0, <1>2, <2>1, <2>3, <2>5, LeavesTends DEF Carries, Failed
  <2>6. CASE \A s \in Ids : ~ Up(s)
    BY <1>2, <2>4, <2>6, SilentTends
  <2> QED
    BY <1>2, <2>5, <2>6
<1>3. CASE Written(t)
  BY <1>2, <1>3 DEF Written, Errors
<1>4. CASE Write(t)
  <2>1. CASE /\ Sent(Head(conn.queue)) /\ job' = [job EXCEPT ![t].num = @ + 1]
             /\ UNCHANGED <<lock, pc>>
    <3>1. \A u \in Ids : job'[u].pkt = job[u].pkt
      BY <2>1 DEF TypeOK, JobType
    <3>2. conn.queue # <<>> /\ conn' = [conn EXCEPT !.queue = Tail(@)] /\ pc[t] = "writing"
      BY <1>4 DEF Write, MorePackets
    <3>3. /\ \A s \in Ids : Up(s)' => Still(s)
          /\ \A s \in Ids : s # conn.socket /\ Blank(s) => Blank(s)'
          /\ Unconfused
      BY <1>0, <2>1, <3>1, <3>2, QueueTends
    <3> QED
      BY <1>0, <2>1, <3>2, <3>3 DEF Tends, Failed
  <2>2. CASE /\ UNCHANGED net
             /\ \/ SendIOError /\ Onward(t, job[t].num, Error(Head(conn.queue)))
                \/ NoSocket /\ Raises(t, "attribute")
    <3>1. \A s \in Ids : ~ Up(s)
      BY <2>2, FailsSilent DEF Speaks
    <3>2. pc[t] = "writing" /\ "attribute" \in Excs /\ Error(Head(conn.queue)) \in Errors
      BY <1>4 DEF Write, Excs, Error, Errors
    <3> QED
      BY <1>2, <2>2, <3>1, <3>2
  <2> QED
    BY <1>4, <2>1, <2>2, Zenon DEF Write
<1> QED
  BY <1>1, <1>3, <1>4

LEMMA ReadTends ==
  ASSUME TypeOK, ThreadInv, Life, Kin, ~ Hasty, Speaks, NEW t \in Ids, Read(t)
  PROVE  Tends(t)
<1> DEFINE f == conn.file_object
<1>0. /\ t \in Procs /\ conn' = conn /\ pc[t] = "read" /\ f \in Ids /\ interrupt' = interrupt
      /\ job[t].bad \in Errors
  BY DEF TypeOK, Procs, Read, ThreadInv, JobType
<1>1. \A s \in Ids : Up(s) => t = s /\ conn.file_object = s
  BY <1>0, WhoServes, ActivePlaces
<1> HIDE DEF f
<1>2. CASE UNCHANGED net /\ (Raises(t, "io") \/ Raises(t, "eof") \/ EndTurn(t, job[t].bad))
  <2>1. Carries(t)
    BY <1>2, TurnsCarry, Zenon
  <2>2. Goes(t, {"read", "raise", "turn"})
    BY <1>0, <1>2, RaisesGoes, EndTurnGoes, Zenon DEF Goes, Excs
  <2>3. PICK l \in {"read", "raise", "turn"} : pc' = [pc EXCEPT ![t] = l]
    BY <2>2 DEF Goes
  <2> QED
    BY <1>0, <1>2, <2>1, <2>3, LeavesTends DEF Carries, Failed
<1>3. CASE UNCHANGED net /\ Goto(t, "stuck") /\ UNCHANGED job
  BY <1>0, <1>3, LeavesTends DEF Goto, Failed
<1>4. CASE /\ net[f].inbox # <<>> /\ Goto(t, "react")
           /\ job' = [job EXCEPT ![t].pkt = Head(net[f].inbox), ![t].num = @ + 1]
           /\ net' = [net EXCEPT ![f].inbox = Tail(@)]
  <2>1. pc'[t] = "react" /\ job'[t].pkt = Head(net[f].inbox)
    BY <1>0, <1>4 DEF Goto, TypeOK, JobType
  <2>2. \A u \in Ids : /\ net'[u].srv = net[u].srv /\ net'[u].link = net[u].link
                       /\ net'[u].zip = net[u].zip /\ net'[u].key = net[u].key
                       /\ u = f => net'[u].inbox = Tail(net[u].inbox)
    BY <1>0, <1>4 DEF TypeOK, EndType
  <2>3. ASSUME NEW s \in Ids, Up(s) PROVE Spoken(s) => Spoken(s)'
    <3>1. t = s /\ f = s
      BY <1>1, <2>3 DEF f
    <3>2. Unread(s) = net[s].inbox /\ Unread(s)' = <<Head(net[s].inbox)>> \o Tail(net[s].inbox)
      BY <1>0, <2>1, <2>2, <3>1 DEF Unread
    <3>3. Unread(s)' = Unread(s)
      BY <1>4, <3>1, <3>2, TakenInHand, UnreadType
    <3>4. Chats
      BY <1>0 DEF Chats
    <3> QED
      BY <1>0, <2>1, <2>2, <3>1, <3>3, <3>4, SpokenSame
  <2>4. \A s \in Ids : Up(s)' => Still(s)
    BY <1>0, <2>2, <2>3 DEF Up, Still
  <2> QED
    BY <1>0, <2>1, <2>2, <2>4 DEF Tends, Blank, Unconfused, Failed
<1> QED
  BY <1>2, <1>3, <1>4, Zenon DEF Read, f

\* What the reactors make of a packet is what the server expects.
LEMMA HandledFits ==
  ASSUME NEW v, NEW k, <<v, k>> \in Saying, NEW r, NEW q \in Seq(Serverbound), Fits(v, r, q)
  PROVE  Fits(After(k), IF r = "login" /\ k = "success" THEN "play" ELSE r,
              q \o Queues(r, k))
<1> DEFINE r1 == IF r = "login" /\ k = "success" THEN "play" ELSE r
<1>0. \A x \in Seq(Serverbound) : x \o <<>> = x
  OBVIOUS
<1>1. CASE v = "asked"
  <2>1. /\ k \in Responses /\ After(k) = "told" /\ r \in Asks /\ q = <<>> /\ r1 = r
    BY <1>1, SayingLeads DEF Fits, Lost, Asks
  <2>2. CASE r = "ping"
    <3>1. Queues(r, k) = <<"ping">>
      BY <2>1, <2>2 DEF Queues
    <3>2. q \o Queues(r, k) = <<"ping">>
      BY <2>1, <3>1, OneOrTwo
    <3> QED
      BY <2>1, <2>2, <3>2 DEF Fits, Lost
  <2>3. CASE r # "ping"
    <3>1. Queues(r, k) = <<>>
      BY <2>1, <2>3 DEF Queues, Asks
    <3>2. q \o Queues(r, k) = <<>>
      BY <1>0, <2>1, <3>1
    <3> QED
      BY <2>1, <2>3, <3>2 DEF Fits, Lost
  <2> QED
    BY <2>2, <2>3
<1>2. CASE v = "pinged"
  <2>1. k = "pong" /\ After(k) = "done" /\ r \in Asks /\ q = <<>> /\ r1 = r
    BY <1>2, SayingLeads DEF Fits, Lost
  <2>2. Queues(r, k) = <<>>
    BY <2>1 DEF Queues, Responses
  <2>3. q \o Queues(r, k) = <<>>
    BY <1>0, <2>1, <2>2
  <2> QED
    BY <2>1, <2>3 DEF Fits, Lost
<1>3. CASE v \in {"named", "ready"} /\ k # "plugin request"
  <2>1. /\ r = "login" /\ q = <<>>
        /\ \/ k \in {"encryption request", "offline encryption request"} /\ After(k) = "encrypt"
           \/ k = "set compression" /\ After(k) = "ready"
           \/ k = "success" /\ After(k) = "play"
    BY <1>3, SayingLeads DEF Fits, Lost
  <2>2. Queues(r, k) = <<>>
    BY <2>1 DEF Queues, Responses
  <2>3. q \o Queues(r, k) = <<>>
    BY <1>0, <2>1, <2>2
  <2>4. Holds(<<>>, {"keep alive", "position", "chat"})
    BY HoldsNone
  <2>5. After(k) = "play" => r1 = "play"
    BY <2>1
  <2>6. After(k) # "play" => r1 = "login"
    BY <2>1
  <2> QED
    BY <2>1, <2>3, <2>4, <2>5, <2>6 DEF Fits, Lost
<1>4. CASE v \in {"named", "ready"} /\ k = "plugin request"
  <2>0. After(k) = "plugin" /\ r1 = r
    BY <1>4 DEF After, Responses
  <2>1. r = "login" /\ q = <<>> /\ After(k) = "plugin" /\ r1 = r
    BY <1>4, <2>0 DEF Fits, Lost
  <2>2. Queues(r, k) = <<"plugin response">>
    BY <1>4, <2>1 DEF Queues
  <2>3. q \o Queues(r, k) = <<"plugin response">>
    BY <2>1, <2>2, OneOrTwo
  <2> QED
    BY <2>1, <2>3 DEF Fits, Lost
<1>5. CASE v = "play"
  <2>1. /\ r = "play" /\ Holds(q, {"keep alive", "position", "chat"}) /\ r1 = "play"
        /\ k \in {"keep alive", "position"} /\ After(k) = "play"
    BY <1>5, SayingLeads DEF Fits, Lost
  <2>2. Queues(r, k) = <<k>>
    BY <2>1 DEF Queues
  <2>3. k \in Serverbound
    BY <2>1 DEF Serverbound
  <2>4. q \o <<k>> = Append(q, k)
    BY <2>3
  <2>5. Holds(Append(q, k), {"keep alive", "position", "chat"})
    <3>1. /\ {"keep alive", "position", "chat"} \subseteq {"keep alive", "position", "chat"}
          /\ k \in {"keep alive", "position", "chat"}
      BY <2>1
    <3> QED
      BY <2>1, <2>3, <3>1, HoldsMore, Zenon
  <2> QED
    BY <2>1, <2>2, <2>4, <2>5 DEF Fits, Lost
<1>6. v \in {"asked", "pinged", "named", "ready", "play"}
  BY SayingLeads
<1> QED
  BY <1>1, <1>2, <1>3, <1>4, <1>5, <1>6

LEMMA UnreadInHand ==
  ASSUME TypeOK, NEW s \in Ids, pc[s] = "react"
  PROVE  /\ Unread(s) \in Seq(Clientbound \cup {"none"}) /\ Unread(s) # <<>>
         /\ Head(Unread(s)) = job[s].pkt /\ Tail(Unread(s)) = net[s].inbox
<1>1. /\ net[s].inbox \in Seq(Clientbound \cup {"none"})
      /\ job[s].pkt \in Clientbound \cup {"none"}
      /\ Unread(s) = <<job[s].pkt>> \o net[s].inbox
  BY UnreadType DEF Unread
<1> QED
  BY <1>1, HandHolds

LEMMA TalksHandled ==
  ASSUME TypeOK, NEW s \in Ids, pc[s] = "react", net' = net, NEW v,
         NEW o \in Seq(Serverbound), Talks(s, v, o), NEW k, NEW u, u = o \o Queues(conn.reactor, k), k = job[s].pkt,
         conn'.reactor = IF conn.reactor = "login" /\ k = "success"
                         THEN "play" ELSE conn.reactor,
         conn'.zip <=> \/ conn.zip
                       \/ conn.reactor \in {"login", "play"} /\ k = "set compression",
         conn'.key = conn.key, pc'[s] \notin {"react", "wrap"},
         pc'[s] \in {"join", "answer"} =>
           k \in {"encryption request", "offline encryption request"}
  PROVE  Talks(s, After(k), u)' /\ After(k) \in Phases
<1> DEFINE S == Clientbound \cup {"none"}
<1>0. PICK i : i = net[s].inbox
  OBVIOUS
<1>2. /\ Unread(s) \in Seq(S) /\ Unread(s) # <<>> /\ Head(Unread(s)) = k
      /\ Tail(Unread(s)) = i
  BY <1>0, UnreadInHand
<1> HIDE DEF S
<1>3. <<v, k>> \in Saying /\ Coming(After(k), i, net[s].srv)
  BY <1>2, ComingLess DEF Talks
<1>4. Zips(Unread(s)) <=> Zips(i) \/ k = "set compression"
  BY <1>2, ZipsLess
<1>5. Unread(s)' = i
  BY <1>0 DEF Unread
<1>6. Fits(After(k), conn'.reactor, u)
  <2>1. Fits(v, conn.reactor, o)
    BY DEF Talks
  <2>2. Fits(After(k), IF conn.reactor = "login" /\ k = "success" THEN "play" ELSE conn.reactor, u)
    BY <1>3, <2>1, HandledFits, Zenon
  <2> QED
    BY <2>2
<1>7. k = "set compression" => conn.reactor = "login"
  <2>1. k = "set compression" => v = "ready"
    BY <1>3, CompressionSaid
  <2> QED
    BY <2>1 DEF Talks, Fits
<1>8. pc'[s] \in {"join", "answer"} => After(k) = "encrypt"
  BY DEF After, Responses
<1>9. net'[s].zip <=> conn'.zip \/ Zips(Unread(s)')
  BY <1>4, <1>5, <1>7 DEF Talks
<1>10. Talks(s, After(k), u)'
  <2>1. net'[s].key = conn'.key
    BY DEF Talks
  <2>2. Coming(After(k), Unread(s)', net'[s].srv)
    BY <1>3, <1>5
  <2>3. /\ pc'[s] # "wrap"
        /\ net'[s].key = IF pc'[s] = "wrap" THEN s ELSE conn'.key
    BY <2>1
  <2> QED
    BY <1>6, <1>8, <1>9, <2>2, <2>3, Zenon DEF Talks
<1>11. After(k) \in Phases
  BY <1>3, SayingLeads
<1> QED
  BY <1>10, <1>11

LEMMA ReactTends ==
  ASSUME TypeOK, ThreadInv, Life, Kin, ~ Hasty, Speaks, NEW t \in Ids, React(t)
  PROVE  Tends(t)
<1>0. PICK r, k : r = conn.reactor /\ k = job[t].pkt
  OBVIOUS
<1>1. /\ t \in Procs /\ conn \in ConnType /\ net' = net /\ pc[t] = "react"
      /\ interrupt' = interrupt /\ conn.queue \in Seq(Serverbound)
      /\ job[t] \in JobType
      /\ \A l : Goto(t, l) => pc'[t] = l
  BY DEF TypeOK, Procs, React, ConnType, Goto
<1>2. \A s \in Ids : Up(s) => t = s /\ Calm
  BY <1>1, WhoServes, ActivePlaces
<1>3. ASSUME NEW s \in Ids, Up(s), NEW v, NEW o, Talks(s, v, o) PROVE <<v, k>> \in Saying
  <2>1. /\ Unread(s) \in Seq(Clientbound \cup {"none"}) /\ Unread(s) # <<>>
        /\ Head(Unread(s)) = k
    BY <1>0, <1>1, <1>2, <1>3, UnreadInHand
  <2> QED
    BY <1>3, <2>1, ComingLess DEF Talks
<1>4. \A v : <<v, k>> \in Saying => k # "disconnect"
  BY DEF Saying
<1>5. ASSUME conn'.socket = conn.socket, conn'.file_object = conn.file_object,
             k # "disconnect" =>
               /\ conn'.reactor = IF r = "login" /\ k = "success" THEN "play" ELSE r
               /\ conn'.zip <=> conn.zip \/ (r \in {"login", "play"} /\ k = "set compression")
               /\ conn'.queue = conn.queue \o Queues(r, k)
               /\ conn'.key = conn.key,
             pc'[t] \notin {"react", "wrap", "clear", "narrow", "dial"},
             pc'[t] \in {"join", "answer"} =>
               k \in {"encryption request", "offline encryption request"},
             pc'[t] = "closing" => job'[t].via = conn'.reactor
      PROVE  Tends(t)
  <2>1. ASSUME NEW s \in Ids, Up(s), Spoken(s) PROVE Spoken(s)'
    <3>1. t = s
      BY <1>2, <2>1
    <3>2. ASSUME NEW v \in Phases, NEW o \in Seq(Serverbound),
                 Owes(conn.queue, o), Talks(s, v, o)
          PROVE  Spoken(s)'
      <4>0. k # "disconnect"
        BY <1>3, <1>4, <2>1, <3>2
      <4>1. PICK u : u = o \o Queues(conn.reactor, k)
        OBVIOUS
      <4>2. Talks(s, After(k), u)' /\ After(k) \in Phases
        BY <1>0, <1>1, <1>5, <3>1, <3>2, <4>0, <4>1, TalksHandled
      <4>3. Owes(conn.queue \o Queues(r, k), u) /\ u \in Seq(Serverbound)
        BY <1>0, <1>1, <3>2, <4>1, OwesQueues
      <4>4. Owes(conn'.queue, u)
        BY <1>5, <4>0, <4>3
      <4> QED
        BY <4>2, <4>3, <4>4 DEF Spoken
    <3> QED
      BY <1>1, <2>1, <3>2 DEF Spoken, Offended
  <2> QED
    BY <1>1, <1>5, <2>1 DEF Tends, Still, Up, Blank, Unconfused, Failed
<1>6. \A q \in Seq(Serverbound) : q \o <<>> = q
  OBVIOUS
<1>7. CASE /\ r = "login" /\ k \in {"encryption request", "offline encryption request"}
           /\ Goto(t, "join") \/ Goto(t, "answer")
           /\ UNCHANGED <<job, conn, lock>>
  <2>1. Queues(r, k) = <<>> /\ conn'.queue = conn.queue \o Queues(r, k)
    <3>1. Queues(r, k) = <<>>
      BY <1>7 DEF Queues
    <3> QED
      BY <1>1, <1>6, <1>7, <3>1
  <2>2. conn'.zip <=> conn.zip \/ (r \in {"login", "play"} /\ k = "set compression")
    BY <1>7
  <2>3. pc'[t] \in {"join", "answer"}
    BY <1>1, <1>7
  <2> QED
    BY <1>0, <1>5, <1>7, <2>1, <2>2, <2>3
<1>8. CASE k = "disconnect" /\ Raises(t, "login") /\ UNCHANGED <<conn, lock>>
  <2>1. pc'[t] = "raise"
    BY <1>1, <1>8 DEF Raises
  <2> QED
    BY <1>5, <1>8, <2>1
<1>9. CASE /\ Disconnects(r, k) /\ conn' = [conn EXCEPT !.connected = FALSE]
           /\ job' = [job EXCEPT ![t].via = r] /\ Goto(t, "closing")
  <2>1. /\ conn'.socket = conn.socket /\ conn'.file_object = conn.file_object
        /\ conn'.reactor = r /\ conn'.zip = conn.zip /\ conn'.queue = conn.queue
        /\ conn'.key = conn.key /\ job'[t].via = r /\ pc'[t] = "closing"
    BY <1>0, <1>1, <1>9 DEF ConnType, TypeOK, JobType
  <2>2. CASE k = "disconnect"
    BY <1>5, <2>1, <2>2
  <2>3. CASE k # "disconnect"
    <3>1. \/ r \in {"status", "query"} /\ k \in Responses
          \/ r = "ping" /\ k = "pong"
      BY <1>9, <2>3 DEF Disconnects
    <3>2. Queues(r, k) = <<>> /\ r # "login"
      BY <3>1 DEF Queues, Responses
    <3>3. conn'.queue = conn.queue \o Queues(r, k)
      BY <1>1, <1>6, <2>1, <3>2
    <3>4. conn'.zip <=> conn.zip \/ (r \in {"login", "play"} /\ k = "set compression")
      BY <2>1, <3>1
    <3> QED
      BY <1>5, <2>1, <3>2, <3>3, <3>4
  <2> QED
    BY <2>2, <2>3
<1>10. CASE /\ conn' = [conn EXCEPT
                 !.reactor = IF r = "login" /\ k = "success" THEN "play" ELSE @,
                 !.zip = @ \/ (r \in {"login", "play"} /\ k = "set compression"),
                 !.queue = @ \o Queues(r, k)]
            /\ Handled(t)
  <2>1. /\ conn'.socket = conn.socket /\ conn'.file_object = conn.file_object
        /\ conn'.reactor = IF r = "login" /\ k = "success" THEN "play" ELSE r
        /\ conn'.queue = conn.queue \o Queues(r, k) /\ conn'.key = conn.key
    BY <1>0, <1>1, <1>10 DEF ConnType
  <2>2. conn'.zip <=> conn.zip \/ (r \in {"login", "play"} /\ k = "set compression")
    BY <1>1, <1>10 DEF ConnType
  <2>3. pc'[t] \in {"read", "raise", "turn"}
    <3>1. Goes(t, {"read", "raise", "turn"})
      BY <1>10, HandledGoes
    <3> QED
      BY <1>1, <3>1 DEF Goes, Goto
  <2> QED
    BY <1>5, <2>1, <2>2, <2>3
<1> QED
  BY <1>0, <1>7, <1>8, <1>9, <1>10, Zenon DEF React

LEMMA LoginTends ==
  ASSUME TypeOK, ThreadInv, Life, Kin, ~ Hasty, Speaks, NEW t \in Ids,
         (\E a \in BOOLEAN : Join(t, a)) \/ Answer(t) \/ Wrap(t)
  PROVE  Tends(t)
<1>0. /\ t \in Procs /\ conn \in ConnType /\ pc[t] \in {"join", "answer", "wrap"}
      /\ interrupt' = interrupt
      /\ \A l : Goto(t, l) => pc'[t] = l
  <2>1. t \in Procs /\ conn \in ConnType /\ \A l : Goto(t, l) => pc'[t] = l
    BY DEF TypeOK, Procs, Goto
  <2>2. pc[t] \in {"join", "answer", "wrap"} /\ interrupt' = interrupt
    BY DEF Join, Answer, Wrap
  <2> QED
    BY <2>1, <2>2
<1>1. \A s \in Ids : Up(s) => t = s /\ conn.socket = s
  BY <1>0, WhoServes, ActivePlaces
<1>2. ASSUME NEW a \in BOOLEAN, Join(t, a) PROVE Tends(t)
  <2>1. PICK l \in {"answer", "raise"} : pc' = [pc EXCEPT ![t] = l]
    BY <1>2 DEF Join, Goto, Raises
  <2>2. \A u \in Ids : u # t => job'[u] = job[u]
    <3>1. CASE UNCHANGED job
      BY <3>1
    <3>2. CASE Raises(t, "join")
      BY <3>2, TurnsCarry, Zenon DEF Carries
    <3> QED
      BY <1>2, <3>1, <3>2, Zenon DEF Join
  <2> QED
    BY <1>0, <1>2, <2>1, <2>2, LeavesTends DEF Join, Failed
<1>3. CASE Answer(t)
  <2>0. conn' = conn /\ pc[t] = "answer"
    BY <1>3 DEF Answer
  <2>1. CASE net' = net /\ (SendIOError \/ NoSocket)
             /\ (Raises(t, "io") \/ Raises(t, "attribute"))
    <3>1. pc'[t] = "raise"
      BY <1>0, <2>1 DEF Raises
    <3>2. \A s \in Ids : ~ Up(s)
      BY <2>1, FailsSilent DEF Speaks
    <3> QED
      BY <2>1, <3>1, <3>2, SilentTends
  <2>2. CASE Sent("encryption response") /\ Goto(t, "wrap") /\ UNCHANGED job
    <3>1. /\ \A s \in Ids : s # conn.socket => net'[s] = net[s]
          /\ \A s \in Ids : Up(s)' => Up(s)
          /\ \A s \in Ids : net'[s].srv # net[s].srv => Up(s)'
      BY <2>2, SentLeaves
    <3>2. pc'[t] = "wrap"
      BY <1>0, <2>2
    <3>3. ASSUME NEW s \in Ids, Up(s), NEW v \in Phases, NEW o, Talks(s, v, o)
          PROVE  Talks(s, "ready", o)'
      <4>1. t = s /\ conn.socket = s /\ v = "encrypt"
        BY <1>1, <2>0, <3>3 DEF Talks
      <4>2. /\ Unread(s) = <<>> /\ net[s].srv = "encrypt" /\ ~ Zips(Unread(s))
            /\ net[s].zip = conn.zip
        BY <3>3, <4>1, TalksClearly DEF Mute
      <4>3. net[s].key = conn.key /\ conn.reactor = "login" /\ o = <<>>
        BY <2>0, <3>3, <4>1 DEF Talks, Fits
      <4>4. net'[s] = [net[s] EXCEPT !.srv = "ready", !.key = s]
        <5>1. PICK to \in Phases :
                /\ Leads(s, "encryption response", to)
                /\ net' = [net EXCEPT ![s].srv = to, ![s].key = s]
          BY <2>2, <3>3, <4>1 DEF Sent, Up
        <5>2. <<"encrypt", "encryption response", "ready">> \in Protocol /\ "ready" \in Phases
              /\ \A x : <<"encrypt", "encryption response", x>> \in Protocol => x = "ready"
          BY DEF Protocol, Phases, Joining
        <5>3. to = "ready"
          BY <4>2, <4>3, <5>1, <5>2 DEF Leads
        <5> QED
          BY <5>1, <5>3 DEF TypeOK
      <4>5. /\ net'[s].srv = "ready" /\ net'[s].zip = net[s].zip /\ net'[s].key = s
            /\ net'[s].inbox = net[s].inbox
        BY <4>4, UnreadType DEF EndType
      <4>6. Unread(s)' = <<>>
        BY <2>0, <3>2, <4>1, <4>2, <4>5 DEF Unread
      <4>7. Fits("ready", conn'.reactor, o)
        BY <2>0, <4>3 DEF Fits, Lost
      <4>8. Coming("ready", Unread(s)', net'[s].srv)
        BY <4>5, <4>6, ComingNone
      <4>9. net'[s].zip <=> conn'.zip \/ Zips(Unread(s)')
        BY <2>0, <4>2, <4>5, <4>6
      <4> QED
        BY <3>2, <4>1, <4>5, <4>7, <4>8, <4>9 DEF Talks
    <3>4. "ready" \in Phases
      BY DEF Phases, Joining
    <3>5. ASSUME NEW s \in Ids, Up(s), Spoken(s) PROVE Spoken(s)'
      <4>1. CASE Offended(s)
        BY <1>1, <2>2, <3>5, <4>1, OffendedSent DEF Spoken
      <4>2. ASSUME NEW v \in Phases, NEW o \in Seq(Serverbound),
                   Owes(conn.queue, o), Talks(s, v, o)
            PROVE  Spoken(s)'
        BY <2>0, <3>3, <3>4, <3>5, <4>2 DEF Spoken
      <4> QED
        BY <3>5, <4>1, <4>2 DEF Spoken
    <3>6. \A s \in Ids : Up(s)' => Still(s)
      BY <2>0, <3>1, <3>5 DEF Still
    <3> QED
      BY <1>0, <2>0, <3>1, <3>2, <3>6 DEF Tends, Blank, Unconfused, Failed
  <2> QED
    BY <1>3, <2>1, <2>2, Zenon DEF Answer
<1>4. CASE Wrap(t)
  <2>1. /\ conn' = [conn EXCEPT !.socket = IF @ = None THEN Hollow ELSE @, !.key = t]
        /\ net' = net /\ pc[t] = "wrap"
    BY <1>4 DEF Wrap
  <2>2. pc'[t] \in {"read", "raise", "turn"}
    <3>1. Handled(t)
      BY <1>4 DEF Wrap
    <3>2. Goes(t, {"read", "raise", "turn"})
      BY <3>1, HandledGoes
    <3> QED
      BY <1>0, <3>2 DEF Goes, Goto
  <2>3. /\ conn'.file_object = conn.file_object /\ conn'.reactor = conn.reactor
        /\ conn'.queue = conn.queue /\ conn'.zip = conn.zip /\ conn'.key = t
        /\ conn'.socket = IF conn.socket = None THEN Hollow ELSE conn.socket
    BY <1>0, <2>1 DEF ConnType
  <2>4. ASSUME NEW s \in Ids, Up(s), Spoken(s) PROVE Spoken(s)'
    <3>1. t = s
      BY <1>1, <2>4
    <3>2. ASSUME NEW v \in Phases, NEW o, Talks(s, v, o) PROVE Talks(s, v, o)'
      <4>1. net[s].key = s /\ Unread(s)' = Unread(s)
        BY <2>1, <2>2, <3>1, <3>2 DEF Talks, Unread
      <4> QED
        BY <2>1, <2>2, <2>3, <3>1, <3>2, <4>1 DEF Talks
    <3> QED
      BY <2>1, <2>3, <2>4, <3>2 DEF Spoken, Offended
  <2>5. \A s \in Ids : Up(s) => conn'.socket = conn.socket
    BY <1>1, <2>3, ProcsApart DEF Procs
  <2>6. \A s \in Ids : Up(s)' => Still(s)
    BY <2>1, <2>3, <2>4, <2>5 DEF Up, Still
  <2> QED
    BY <1>0, <2>1, <2>2, <2>6 DEF Tends, Blank, Unconfused, Failed
<1> QED
  BY <1>2, <1>3, <1>4

LEMMA ClosingTends ==
  ASSUME TypeOK, ThreadInv, Life, Kin, ~ Hasty, Speaks, NEW t \in Ids, Flush(t) \/ Close(t)
  PROVE  Tends(t)
<1>0. /\ t \in Procs /\ conn \in ConnType /\ pc[t] = "closing" /\ job[t].via = conn.reactor
      /\ \A l : Goto(t, l) => pc'[t] = l
  BY DEF TypeOK, Procs, Flush, Close, Speaks, Reacting, Goto
<1>1. CASE Flush(t)
  <2>1. conn.queue # <<>> /\ conn' = [conn EXCEPT !.queue = Tail(@)] /\ interrupt' = interrupt
    BY <1>1 DEF Flush
  <2>2. conn'.reactor = conn.reactor
    BY <1>0, <2>1 DEF ConnType
  <2>3. CASE Sent(Head(conn.queue)) /\ UNCHANGED <<lock, pc, job>>
    <3>1. /\ \A s \in Ids : Up(s)' => Still(s)
          /\ \A s \in Ids : s # conn.socket /\ Blank(s) => Blank(s)'
          /\ Unconfused
      BY <1>0, <2>1, <2>3, QueueTends
    <3> QED
      BY <1>0, <2>1, <2>2, <2>3, <3>1 DEF Tends, Failed
  <2>4. CASE /\ net' = net /\ (SendIOError \/ NoSocket)
             /\ \E exc : Raises(t, exc)
    <3>1. pc'[t] = "raise"
      BY <1>0, <2>4 DEF Raises
    <3>2. \A s \in Ids : ~ Up(s)
      BY <2>4, FailsSilent DEF Speaks
    <3> QED
      BY <2>4, <3>1, <3>2, SilentTends
  <2> QED
    BY <1>1, <2>3, <2>4, Zenon DEF Flush
<1>2. CASE Close(t)
  <2>1. net' = ClosedEnds /\ conn' = ClosedConn
    BY <1>2, Zenon DEF Close
  <2>2. conn'.reactor = conn.reactor
    BY <2>1, ClosedMinds
  <2>3. /\ \A s \in Ids : ~ Up(s)'
        /\ \A s \in Ids : s # conn.socket /\ Blank(s) => Blank(s)'
        /\ \A s \in Ids : net'[s].srv = "confused" => net[s].srv = "confused"
    BY <2>1, ClosedTalk DEF Speaks
  <2>4. /\ pc'[t] \notin {"closing", "clear", "dial"}
        /\ pc'[t] = "narrow" => job[t].via = "query"
    <3>1. CASE \E exc : Raises(t, exc)
      BY <1>0, <3>1 DEF Raises
    <3>2. CASE Goto(t, "turn")
      BY <1>0, <3>2
    <3>3. CASE EndTurn(t, job[t].bad)
      BY <1>0, <3>3 DEF EndTurn, NewTurn, Raises
    <3>4. CASE Goto(t, "narrow") /\ job[t].via = "query"
      BY <1>0, <3>4
    <3> QED
      BY <1>2, <3>1, <3>2, <3>3, <3>4, Zenon DEF Close, Resumes
  <2> QED
    BY <1>0, <2>2, <2>3, <2>4 DEF Tends, Unconfused
<1> QED
  BY <1>1, <1>2

\* A call that fails in a thread, or that has yet to dial, finds nobody up.
LEMMA RefusesSilent ==
  ASSUME TypeOK, ThreadInv, Life, Kin, ~ Hasty, Speaks, NEW p \in Procs,
         pc[p] = "opening" \/ (p \in Ids /\ pc[p] \in {"narrow", "dial"})
  PROVE  \A s \in Ids : ~ Up(s)
<1> SUFFICES ASSUME NEW s \in Ids, Up(s) PROVE FALSE
  OBVIOUS
<1>1. CASE pc[p] = "opening"
  BY <1>1 DEF Speaks, Owned
<1>2. CASE p \in Ids /\ pc[p] \in {"narrow", "dial"}
  <2>1. p = s /\ (interrupt[s] => pc[s] \in Failed)
    BY <1>2, WhoServes, ActivePlaces
  <2>2. interrupt[p]
    BY <1>2 DEF Life, Lives, Leaving
  <2> QED
    BY <1>2, <2>1, <2>2 DEF Failed
<1> QED
  BY <1>1, <1>2

LEMMA EndTends ==
  ASSUME TypeOK, ThreadInv, Life, Kin, ~ Hasty, Speaks, NEW t \in Ids, Ending(t)
  PROVE  Tends(t)
<1>0. t \in Procs /\ conn \in ConnType /\ \A l : Goto(t, l) => pc'[t] = l
  BY DEF TypeOK, Procs, Goto
<1>1. ASSUME net' = ClosedEnds, conn' = ClosedConn, pc'[t] \in {"narrow", "final"},
             pc'[t] = "narrow" => conn.reactor = "query"
      PROVE  Tends(t)
  <2>1. conn'.reactor = conn.reactor
    BY <1>1, ClosedMinds
  <2>2. /\ \A s \in Ids : ~ Up(s)'
        /\ \A s \in Ids : s # conn.socket /\ Blank(s) => Blank(s)'
        /\ \A s \in Ids : net'[s].srv = "confused" => net[s].srv = "confused"
    BY <1>1, ClosedTalk DEF Speaks
  <2> QED
    BY <1>1, <2>1, <2>2 DEF Tends, Unconfused
<1>2. CASE Raise(t)
  <2>1. pc[t] = "raise" /\ UNCHANGED <<net, conn, job>>
    BY <1>2 DEF Raise
  <2>2. PICK l \in {"handle", "report"} : pc' = [pc EXCEPT ![t] = l]
    BY <1>2 DEF Raise, Goto
  <2> QED
    BY <2>1, <2>2, LeavesTends DEF Failed
<1>3. CASE Handle(t)
  <2>1. /\ pc[t] = "handle" /\ UNCHANGED <<net, conn, job, interrupt>>
        /\ Goto(t, IF conn.reactor = "query" THEN "clear" ELSE "report")
    BY <1>3 DEF Handle, threadVars
  <2> QED
    BY <2>1, LeavesTends DEF Goto, Failed
<1>4. CASE Clear(t)
  <2>1. net' = ClosedEnds /\ conn' = ClosedConn /\ pc'[t] = "narrow" /\ pc[t] = "clear"
    BY <1>0, <1>4 DEF Clear
  <2>2. conn.reactor = "query"
    BY <2>1 DEF Speaks, Reacting
  <2> QED
    BY <1>1, <2>1, <2>2
<1>5. CASE Narrow(t)
  <2>1. /\ pc[t] = "narrow" /\ pc'[t] = "dial" /\ net' = net
        /\ conn' = [conn EXCEPT !.allowed = "one"]
    BY <1>0, <1>5 DEF Narrow
  <2>2. conn'.reactor = conn.reactor /\ conn.reactor = "query"
    BY <1>0, <2>1 DEF ConnType, Speaks, Reacting
  <2>3. \A s \in Ids : ~ Up(s)
    BY <1>0, <2>1, RefusesSilent
  <2> QED
    BY <2>1, <2>2, <2>3, SilentTends
<1>6. CASE Report(t)
  <2>1. net' = ClosedEnds /\ conn' = ClosedConn /\ pc'[t] = "final"
    BY <1>0, <1>6 DEF Report
  <2> QED
    BY <1>1, <2>1
<1>7. CASE Exit(t)
  <2>1. /\ pc[t] = "exit" /\ pc' = [pc EXCEPT ![t] = "final"] /\ UNCHANGED <<conn, net, interrupt>>
        /\ \A u \in Ids : u # t => job'[u] = job[u]
    BY <1>7 DEF Exit, Goto, TypeOK
  <2> QED
    BY <2>1, LeavesTends DEF Failed
<1> QED
  BY <1>2, <1>3, <1>4, <1>5, <1>6, <1>7 DEF Ending

LEMMA FailedTends ==
  ASSUME TypeOK, ThreadInv, Life, Kin, ~ Hasty, Speaks, NEW t \in Ids, NEW exc,
         CallFails(t, exc), pc[t] \in {"dial", "opening"}, net' = net
  PROVE  Tends(t)
<1>0. t \in Procs /\ \A l : Goto(t, l) => pc'[t] = l
  BY DEF TypeOK, Procs, Goto
<1>1. pc'[t] \in {"raise", "report"}
  BY <1>0 DEF CallFails, Raises
<1>2. \A s \in Ids : ~ Up(s)
  BY <1>0, RefusesSilent
<1> QED
  BY <1>1, <1>2, SilentTends

-----------------------------------------------------------------------------
(***************************************************************************)
(* What programs and servers do beside the threads.                        *)
(***************************************************************************)

\* Nothing that the dialogue is about changes.
LEMMA StandAttends ==
  ASSUME TypeOK, net' = net, job' = job, interrupt' = interrupt,
         \A s \in Ids : pc'[s] = pc[s],
         conn'.socket = conn.socket, conn'.file_object = conn.file_object,
         conn'.reactor = conn.reactor, Chats, conn'.zip = conn.zip,
         conn'.key = conn.key, Calm \/ (UNCHANGED <<pc, want>> /\ conn'.allowed = conn.allowed)
  PROVE  Attends
<1>1. ASSUME NEW s \in Ids PROVE Spoken(s) => Spoken(s)'
  <2>1. Unread(s)' = Unread(s)
    BY DEF Unread
  <2> QED
    BY <2>1, SpokenSame
<1>2. \A s \in Ids : Up(s)' => Still(s)
  BY <1>1 DEF Still, Up
<1>3. want' = want /\ conn'.allowed = conn.allowed => Direct' = Direct
  BY DEF Direct
<1> QED
  BY <1>2, <1>3 DEF Attends, Still, Blank, Unconfused

\* Who is closed by a program.
LEMMA ClosedAttends ==
  ASSUME TypeOK, Speaks, Calm, net' = ClosedEnds, conn' = ClosedConn
  PROVE  Attends
<1>1. conn'.reactor = conn.reactor
  BY ClosedMinds
<1>2. /\ \A s \in Ids : ~ Up(s)'
      /\ \A s \in Ids : s # conn.socket /\ Blank(s) => Blank(s)'
      /\ \A s \in Ids : net'[s].srv = "confused" => net[s].srv = "confused"
  BY ClosedTalk DEF Speaks
<1> QED
  BY <1>1, <1>2 DEF Attends, Unconfused

LEMMA CallAttends ==
  ASSUME TypeOK, ThreadInv, Life, Kin, ~ Hasty, Speaks, NEW c \in Callers, Flush(c) \/ Close(c)
  PROVE  Attends
<1>0. c \in Procs /\ conn \in ConnType /\ pc[c] = "closing"
  BY DEF Procs, Flush, Close, TypeOK
<1>1. Calm
  BY <1>0, CalmWhen
<1>2. CASE Flush(c)
  <2>1. conn.queue # <<>> /\ conn' = [conn EXCEPT !.queue = Tail(@)] /\ interrupt' = interrupt
    BY <1>2 DEF Flush
  <2>2. conn'.reactor = conn.reactor
    BY <1>0, <2>1 DEF ConnType
  <2>3. CASE Sent(Head(conn.queue)) /\ UNCHANGED <<lock, pc, job>>
    <3>1. /\ \A s \in Ids : Up(s)' => Still(s)
          /\ \A s \in Ids : s # conn.socket /\ Blank(s) => Blank(s)'
          /\ Unconfused
      BY <1>0, <2>1, <2>3, QueueTends
    <3> QED
      BY <1>1, <2>1, <2>2, <3>1 DEF Attends, Still
  <2>4. CASE net' = net /\ (SendIOError \/ NoSocket)
    <3>1. \A s \in Ids : ~ Up(s)
      BY <2>4, FailsSilent DEF Speaks
    <3> QED
      BY <1>1, <2>2, <2>4, <3>1 DEF Attends, Up, Blank, Unconfused
  <2> QED
    BY <1>2, <2>3, <2>4, Zenon DEF Flush
<1>3. CASE Close(c)
  <2>1. net' = ClosedEnds /\ conn' = ClosedConn
    BY <1>3, Zenon DEF Close
  <2> QED
    BY <1>1, <2>1, ClosedAttends
<1> QED
  BY <1>2, <1>3

\* Who plays is talked to in that phase.
LEMMA PlaysOnly ==
  ASSUME NEW v \in Phases, NEW q, Fits(v, "play", q)
  PROVE  v = "play" /\ Holds(q, {"keep alive", "position", "chat"})
BY DEF Fits, Phases, Joining, Asks

LEMMA ChatAttends ==
  ASSUME TypeOK, ThreadInv, Life, Kin, ~ Hasty, Speaks, NEW c \in Callers, Chat(c) \/ ChatNow(c)
  PROVE  Attends
<1>0. /\ conn \in ConnType /\ conn.queue \in Seq(Serverbound)
      /\ UNCHANGED <<pc, job, want, interrupt>>
  <2>1. conn \in ConnType /\ conn.queue \in Seq(Serverbound)
    BY DEF TypeOK, ConnType
  <2>2. UNCHANGED <<pc, job, want, interrupt>>
    BY DEF Chat, ChatNow, threadVars
  <2> QED
    BY <2>1, <2>2
<1>1. \/ ChatLine = "chat" /\ conn.reactor = "play" /\ Calm
      \/ ChatLine = "early chat"
  BY DEF ChatLine, Calm
<1>2. CASE Chat(c)
  <2>1. conn' = Append1(conn, ChatLine) /\ net' = net
    BY <1>2 DEF Chat
  <2>2. /\ conn'.queue = Append(conn.queue, ChatLine) /\ conn'.socket = conn.socket
        /\ conn'.file_object = conn.file_object /\ conn'.reactor = conn.reactor
        /\ conn'.zip = conn.zip /\ conn'.key = conn.key /\ conn'.allowed = conn.allowed
    BY <1>0, <2>1 DEF Append1, ConnType
  <2>3. CASE ChatLine = "early chat"
    <3>1. Chats
      BY <2>2, <2>3 DEF Chats
    <3> QED
      BY <1>0, <2>1, <2>2, <3>1, StandAttends
  <2>4. CASE ChatLine = "chat" /\ conn.reactor = "play" /\ Calm
    <3>1. ASSUME NEW s \in Ids, NEW v \in Phases, NEW o \in Seq(Serverbound),
                 Owes(conn.queue, o), Talks(s, v, o)
          PROVE  Spoken(s)'
      <4>0. "chat" \in Serverbound
        BY DEF Serverbound
      <4>1. v = "play" /\ Holds(o, {"keep alive", "position", "chat"})
        BY <2>4, <3>1, PlaysOnly DEF Talks
      <4>2. Holds(Append(o, "chat"), {"keep alive", "position", "chat"})
        <5>1. /\ {"keep alive", "position", "chat"} \subseteq {"keep alive", "position", "chat"}
              /\ "chat" \in {"keep alive", "position", "chat"}
          OBVIOUS
        <5> QED
          BY <4>0, <4>1, <5>1, HoldsMore, Zenon
      <4>3. Fits(v, conn'.reactor, Append(o, "chat"))
        BY <2>2, <2>4, <4>1, <4>2 DEF Fits, Lost
      <4>4. Unread(s)' = Unread(s)
        BY <1>0, <2>1 DEF Unread
      <4>5. Talks(s, v, Append(o, "chat"))'
        BY <1>0, <2>1, <2>2, <3>1, <4>3, <4>4 DEF Talks
      <4>6. Owes(conn'.queue, Append(o, "chat")) /\ Append(o, "chat") \in Seq(Serverbound)
        <5>1. Owes(Append(conn.queue, "chat"), Append(o, "chat"))
          BY <1>0, <3>1, <4>0, OwesMore
        <5>2. Append(o, "chat") \in Seq(Serverbound)
          BY <4>0
        <5> QED
          BY <2>2, <2>4, <5>1, <5>2
      <4> QED
        BY <4>5, <4>6 DEF Spoken
    <3>2. \A s \in Ids : Spoken(s) => Spoken(s)'
      BY <2>1, <3>1 DEF Spoken, Offended
    <3>3. \A s \in Ids : Up(s)' => Still(s)
      BY <2>1, <2>2, <3>2 DEF Up, Still
    <3> QED
      BY <1>0, <2>1, <2>2, <2>4, <3>3 DEF Attends, Still, Blank, Unconfused
  <2> QED
    BY <1>1, <2>3, <2>4
<1>3. CASE ChatNow(c)
  <2>0. conn' = conn /\ Calm
    BY <1>3, CalmWhen DEF ChatNow
  <2>1. CASE Sent(ChatLine)
    <3>1. /\ \A s \in Ids : s # conn.socket => net'[s] = net[s]
          /\ \A s \in Ids : Up(s)' => Up(s)
          /\ \A s \in Ids : net'[s].srv # net[s].srv => Up(s)'
      BY <2>1, SentLeaves
    <3>2. ASSUME NEW s \in Ids, Up(s), Spoken(s) PROVE Spoken(s)'
      <4>0. conn.socket = s
        BY <3>2 DEF Speaks, Owned
      <4>1. CASE Offended(s)
        BY <2>1, <4>0, <4>1, OffendedSent DEF Spoken
      <4>2. CASE ChatLine = "early chat"
        BY <1>0, <2>0, <2>1, <3>2, <4>0, <4>2, SpokenEarly
      <4>3. ASSUME ChatLine = "chat", conn.reactor = "play", NEW v \in Phases,
                   NEW o \in Seq(Serverbound), Owes(conn.queue, o), Talks(s, v, o)
            PROVE  Spoken(s)'
        <5>1. v = "play"
          BY <4>3, PlaysOnly DEF Talks
        <5>2. <<v, "chat", "play">> \in Protocol
          BY <5>1 DEF Protocol
        <5>3. Fits("play", conn'.reactor, o)
          BY <2>0, <4>3, <5>1 DEF Talks
        <5>4. Talks(s, "play", o)' /\ "play" \in Phases
          BY <1>0, <2>0, <2>1, <3>2, <4>0, <4>3, <5>2, <5>3, TalksSent
        <5> QED
          BY <2>0, <4>3, <5>4 DEF Spoken
      <4> QED
        BY <1>1, <3>2, <4>1, <4>2, <4>3 DEF Spoken
    <3>3. \A s \in Ids : Up(s)' => Still(s)
      BY <2>0, <3>1, <3>2 DEF Still
    <3> QED
      BY <1>0, <2>0, <3>1, <3>3 DEF Attends, Still, Blank, Unconfused
  <2>2. CASE net' = net
    <3>1. Chats
      BY <2>0 DEF Chats
    <3> QED
      BY <1>0, <2>0, <2>2, <3>1, StandAttends
  <2> QED
    BY <1>3, <2>1, <2>2 DEF ChatNow
<1> QED
  BY <1>2, <1>3

\* What a server says is what its phase allows.
LEMMA ServesSaying ==
  ASSUME NEW e \in Ids, Serve(e)
  PROVE  \E k : <<net[e].srv, k>> \in Saying /\ Says(e, net[e].srv, k, After(k))
<1> DEFINE Goal == \E k : <<net[e].srv, k>> \in Saying /\ Says(e, net[e].srv, k, After(k))
<1>1. ASSUME NEW from, NEW k, NEW to, Says(e, from, k, to), <<from, k>> \in Saying, to = After(k)
      PROVE  Goal
  <2>1. from = net[e].srv
    BY <1>1 DEF Says
  <2> QED
    BY <1>1, <2>1
<1> HIDE DEF Goal
<1>2. ASSUME NEW k \in Responses, Says(e, "asked", k, "told") PROVE Goal
  <2>1. <<"asked", k>> \in Saying /\ After(k) = "told"
    BY DEF Responses, Saying, After
  <2> QED
    BY <1>1, <1>2, <2>1
<1>3. ASSUME Says(e, "pinged", "pong", "done") PROVE Goal
  <2>1. <<"pinged", "pong">> \in Saying /\ After("pong") = "done"
    BY DEF Responses, Saying, After
  <2> QED
    BY <1>1, <1>3, <2>1
<1>4. ASSUME NEW k \in {"encryption request", "offline encryption request"},
             Says(e, "named", k, "encrypt")
      PROVE  Goal
  <2>1. <<"named", k>> \in Saying /\ After(k) = "encrypt"
    BY DEF Responses, Saying, After
  <2> QED
    BY <1>1, <1>4, <2>1
<1>5. ASSUME NEW from \in {"named", "ready"}, Says(e, from, "success", "play") PROVE Goal
  <2>1. <<from, "success">> \in Saying /\ After("success") = "play"
    BY DEF Responses, Saying, After
  <2> QED
    BY <1>1, <1>5, <2>1
<1>6. ASSUME Says(e, "ready", "set compression", "ready") PROVE Goal
  <2>1. <<"ready", "set compression">> \in Saying /\ After("set compression") = "ready"
    BY DEF Responses, Saying, After
  <2> QED
    BY <1>1, <1>6, <2>1
<1>7. ASSUME Says(e, "ready", "plugin request", "plugin") PROVE Goal
  <2>1. <<"ready", "plugin request">> \in Saying /\ After("plugin request") = "plugin"
    BY DEF Responses, Saying, After
  <2> QED
    BY <1>1, <1>7, <2>1
<1>8. ASSUME NEW k \in Questions, Says(e, "play", k, "play") PROVE Goal
  <2>1. k \in {"keep alive", "position"}
    BY DialAssumption
  <2>2. <<"play", k>> \in Saying /\ After(k) = "play"
    BY <2>1 DEF Responses, Saying, After
  <2> QED
    BY <1>1, <1>8, <2>2
<1>9. Goal
  BY <1>2, <1>3, <1>4, <1>5, <1>6, <1>7, <1>8 DEF Serve
<1> QED
  BY <1>9 DEF Goal

\* A packet more is on its way.
LEMMA UnreadMore ==
  ASSUME TypeOK, NEW s \in Ids, NEW k \in Clientbound, NEW i, i = Append(net[s].inbox, k)
  PROVE  /\ Append(Unread(s), k) = IF pc[s] = "react" THEN <<job[s].pkt>> \o i ELSE i
         /\ k \in Clientbound \cup {"none"}
<1>1. /\ net[s].inbox \in Seq(Clientbound \cup {"none"})
      /\ job[s].pkt \in Clientbound \cup {"none"}
  BY UnreadType
<1>2. k \in Clientbound \cup {"none"}
  OBVIOUS
<1> DEFINE S == Clientbound \cup {"none"}
           q == net[s].inbox
           h == job[s].pkt
<1>3. q \in Seq(S) /\ h \in S /\ k \in S
  BY <1>1, <1>2
<1>4. i = Append(q, k) /\ (Unread(s) = IF pc[s] = "react" THEN <<h>> \o q ELSE q)
  BY DEF Unread
<1> HIDE DEF S, q, h
<1>5. Append(<<h>> \o q, k) = <<h>> \o Append(q, k)
  BY <1>3, HandMore
<1>6. Append(Unread(s), k) = IF pc[s] = "react" THEN <<h>> \o i ELSE i
  BY <1>4, <1>5
<1> QED
  BY <1>2, <1>6 DEF h

LEMMA SpokenTalks ==
  ASSUME TypeOK, NEW s \in Ids, NEW k, <<net[s].srv, k>> \in Saying,
         NEW v, NEW o, Talks(s, v, o),
         net'[s] = [net[s] EXCEPT !.inbox = Append(@, k), !.srv = After(k),
                                  !.zip = @ \/ k = "set compression"],
         conn' = conn, pc' = pc, job' = job
  PROVE  Talks(s, v, o)'
<1>0. k \in Clientbound
  BY SayingLeads
<1>1. /\ net'[s].inbox = Append(net[s].inbox, k) /\ net'[s].srv = After(k)
      /\ net'[s].zip = (net[s].zip \/ k = "set compression") /\ net'[s].key = net[s].key
  <2> DEFINE e == net[s]
             f == net'[s]
             w == After(k)
  <2>1. e \in EndType
    BY DEF TypeOK
  <2>2. f = [e EXCEPT !.inbox = Append(@, k), !.srv = w, !.zip = @ \/ k = "set compression"]
    OBVIOUS
  <2> HIDE DEF e, f, w
  <2>3. /\ f.inbox = Append(e.inbox, k) /\ f.srv = w
        /\ f.zip = (e.zip \/ k = "set compression") /\ f.key = e.key
    BY <2>1, <2>2 DEF EndType
  <2> QED
    BY <2>3 DEF e, f, w
<1>2. Unread(s)' = Append(Unread(s), k) /\ k \in Clientbound \cup {"none"}
  BY <1>0, <1>1, UnreadMore DEF Unread
<1>3. Unread(s) \in Seq(Clientbound \cup {"none"})
  BY UnreadType
<1>4. Coming(v, Append(Unread(s), k), After(k))
  BY <1>2, <1>3, ComingMore DEF Talks
<1>5. Zips(Append(Unread(s), k)) <=> Zips(Unread(s)) \/ k = "set compression"
  BY <1>2, <1>3, ZipsMore
<1>6. net'[s].zip <=> conn'.zip \/ Zips(Unread(s)')
  BY <1>1, <1>2, <1>5 DEF Talks
<1> QED
  BY <1>1, <1>2, <1>4, <1>6 DEF Talks

LEMMA ServerAttends ==
  ASSUME TypeOK, NEW e \in Ids, Server(e)
  PROVE  Attends
<1>0. /\ UNCHANGED <<pc, job, conn, want, interrupt>> /\ Direct' = Direct
      /\ net \in [Ids -> EndType]
  BY DEF Server, Direct, TypeOK
<1>1. ASSUME \A s \in Ids : s # e => net'[s] = net[s],
             \A s \in Ids : Up(s)' => Up(s),
             \A s \in Ids : net'[s].srv = "confused" => net[s].srv = "confused",
             Fresh(e) /\ Blank(e) => Blank(e)',
             Up(e)' /\ Spoken(e) => Spoken(e)'
      PROVE  Attends
  <2>0. Chats
    BY <1>0 DEF Chats
  <2>1. ASSUME NEW s \in Ids, s # e PROVE Spoken(s) => Spoken(s)'
    <3>1. Unread(s)' = Unread(s)
      BY <1>0, <1>1, <2>1 DEF Unread
    <3> QED
      BY <1>0, <1>1, <2>0, <2>1, <3>1, SpokenSame
  <2>2. \A s \in Ids : Up(s)' => Still(s)
    BY <1>0, <1>1, <2>1 DEF Still
  <2>3. \A s \in Ids : Fresh(s) /\ Blank(s) => Blank(s)'
    BY <1>1 DEF Blank
  <2> QED
    BY <1>0, <1>1, <2>0, <2>2, <2>3 DEF Attends, Still, Unconfused
<1>2. CASE Serve(e)
  <2>1. PICK k : <<net[e].srv, k>> \in Saying /\ Says(e, net[e].srv, k, After(k))
    BY <1>2, ServesSaying
  <2>2. /\ \A s \in Ids : s # e => net'[s] = net[s]
        /\ net'[e] = [net[e] EXCEPT !.inbox = Append(@, k), !.srv = After(k),
                                    !.zip = @ \/ k = "set compression"]
    BY <1>0, <2>1 DEF Says
  <2>3. Up(e) /\ net'[e].srv = After(k)
    <3>1. net[e].link = "up" /\ net[e] \in EndType
      BY <1>0, <2>1 DEF Says
    <3> QED
      BY <2>2, <3>1 DEF Up, EndType
  <2>4. After(k) # "confused" /\ net[e].srv \notin Mute
    BY <2>1, SayingLeads
  <2>5. ~ Fresh(e)
    BY <2>4 DEF Fresh, Mute
  <2>6. Spoken(e) => Spoken(e)'
    <3>1. ~ Offended(e)
      BY <2>1, SayingLeads DEF Offended
    <3>2. ASSUME NEW v \in Phases, NEW o \in Seq(Serverbound),
                 Owes(conn.queue, o), Talks(e, v, o)
          PROVE  Spoken(e)'
      <4>1. Talks(e, v, o)'
        BY <1>0, <2>1, <2>2, <3>2, SpokenTalks
      <4> QED
        BY <1>0, <3>2, <4>1 DEF Spoken
    <3> QED
      BY <3>1, <3>2 DEF Spoken
  <2> QED
    BY <1>1, <2>2, <2>3, <2>4, <2>5, <2>6 DEF Up
<1>3. CASE HangUp(e)
  <2>1. /\ \A s \in Ids : s # e => net'[s] = net[s]
        /\ net'[e].link # "up" /\ net'[e].srv = net[e].srv
        /\ net'[e].zip = net[e].zip /\ net'[e].key = net[e].key
    <3>1. ASSUME NEW l \in {"half", "reset", "torn"}, net' = [net EXCEPT ![e].link = l]
          PROVE  /\ \A s \in Ids : s # e => net'[s] = net[s]
                 /\ net'[e].link # "up" /\ net'[e].srv = net[e].srv
                 /\ net'[e].zip = net[e].zip /\ net'[e].key = net[e].key
      BY <1>0, <3>1 DEF EndType
    <3>2. ASSUME NEW q, net' = [net EXCEPT ![e].inbox = q, ![e].link = "half"]
          PROVE  /\ \A s \in Ids : s # e => net'[s] = net[s]
                 /\ net'[e].link # "up" /\ net'[e].srv = net[e].srv
                 /\ net'[e].zip = net[e].zip /\ net'[e].key = net[e].key
      BY <1>0, <3>2 DEF EndType
    <3> QED
      BY <1>3, <3>1, <3>2 DEF HangUp
  <2> QED
    BY <1>1, <2>1 DEF Up, Blank
<1> QED
  BY <1>2, <1>3 DEF Server

LEMMA OtherAttends ==
  ASSUME TypeOK, ThreadInv, Life, Kin, ~ Hasty, Speaks,
         \/ \E c \in Callers : \/ \E i \in BOOLEAN : Disconnect(c, i)
                               \/ Chat(c) \/ ChatNow(c)
         \/ \E s \in Ids : Server(s)
         \/ UNCHANGED vars
  PROVE  Attends
<1>0. conn \in ConnType /\ pc \in [Procs -> ThreadPCs \cup CallerPCs]
  BY DEF TypeOK
<1>1. ASSUME NEW c \in Callers, NEW i \in BOOLEAN, Disconnect(c, i) PROVE Attends
  <2>0. Calm
    BY <1>1, CalmWhen DEF Disconnect
  <2>1. CASE net' = ClosedEnds /\ conn' = ClosedConn
    BY <2>0, <2>1, ClosedAttends
  <2>2. CASE /\ net' = net /\ conn' = [conn EXCEPT !.connected = FALSE]
             /\ interrupt' = interrupt /\ Goto(c, "closing")
    <3>1. \A s \in Ids : pc'[s] = pc[s]
      BY <1>0, <2>2, ProcsApart DEF Goto, Procs
    <3>2. job' = job
      BY <1>1 DEF Disconnect
    <3>3. /\ conn'.socket = conn.socket /\ conn'.file_object = conn.file_object
          /\ conn'.reactor = conn.reactor /\ Chats
          /\ conn'.zip = conn.zip /\ conn'.key = conn.key
      BY <1>0, <2>2 DEF ConnType, Chats
    <3> QED
      BY <2>0, <2>2, <3>1, <3>2, <3>3, StandAttends
  <2> QED
    BY <1>1, <2>1, <2>2, Zenon DEF Disconnect
<1>2. CASE UNCHANGED vars
  BY <1>2, StandAttends DEF vars, Chats
<1> QED
  BY <1>1, <1>2, ChatAttends, ServerAttends

-----------------------------------------------------------------------------
(***************************************************************************)
(* Dialling, and the succession of threads.                                *)
(***************************************************************************)
LEMMA DialTalk ==
  ASSUME TypeOK, ThreadInv, Life, Kin, ~ Hasty, Speaks,
         NEW p \in Procs, NEW w, Dial(p, w), ~ Busy,
         p \in Ids => pc[p] = "dial", p \notin Ids => networking_thread = None
  PROVE  Speaks'
<1>0. /\ pc \in [Procs -> ThreadPCs \cup CallerPCs] /\ dials \in Nat /\ dials' \in Ids
      /\ dials < MaxDials /\ dials' = dials + 1 /\ conn \in ConnType
      /\ \A u \in Ids : u \in Procs /\ u # None
      /\ UNCHANGED <<networking_thread, new_networking_thread, interrupt, job, net>>
      /\ conn' = [conn EXCEPT !.queue = <<>>] /\ pc' = [pc EXCEPT ![p] = "opening"]
      /\ Calm
  BY NextId, CalmWhen, ProcsApart DEF TypeOK, Procs, Dial, Goto
<1>1. \A q \in Procs : pc'[q] = IF q = p THEN "opening" ELSE pc[q]
  BY <1>0
<1>2. conn'.queue = <<>> /\ conn'.reactor = conn.reactor
  BY <1>0 DEF ConnType
<1>3. \A s \in Ids : ~ Up(s)
  <2> SUFFICES ASSUME NEW s \in Ids, Up(s) PROVE FALSE
    OBVIOUS
  <2>1. /\ networking_thread = s /\ new_networking_thread = None
        /\ interrupt[s] => pc[s] \in Failed
    BY <1>0 DEF Speaks, Owned, Busy, Calm
  <2>2. interrupt[s] /\ pc[s] \in Failed
    BY <1>0, <2>1 DEF Busy
  <2>3. CASE p \in Ids
    <3>1. networking_thread = p
      BY <2>3, ActivePlaces DEF ThreadInv, OneReader
    <3> QED
      BY <2>1, <2>2, <2>3, <3>1 DEF Failed
  <2> QED
    BY <1>0, <2>1, <2>3
<1>4. NoConfusion' /\ Talk' /\ Owned'
  BY <1>0, <1>3 DEF Speaks, NoConfusion, Talk, Owned, Up
<1>5. Opened'
  <2>1. \A s \in Ids : s > dials => Blank(s)'
    BY <1>0 DEF Speaks, Opened, Blank
  <2>2. \A s \in Ids : s > dials' => s > dials
    BY <1>0 DEF Ids
  <2>3. dials' > dials
    BY <1>0
  <2>4. Blank(dials)'
    BY <1>0, <2>1, <2>3 DEF Blank
  <2>5. p \in Ids => conn'.reactor = "query"
    BY <1>2 DEF Speaks, Reacting
  <2>6. \A q \in Procs : pc'[q] \in {"opening", "going"} => q = p /\ pc'[q] = "opening"
    BY <1>0, <1>1 DEF Calm
  <2>7. Owes(conn'.queue, <<>>)
    BY <1>2, OwesNone
  <2> QED
    BY <2>1, <2>2, <2>4, <2>5, <2>6, <2>7 DEF Opened
<1>6. Reacting'
  BY <1>0, <1>1, <1>2 DEF Speaks, Reacting
<1> QED
  BY <1>4, <1>5, <1>6 DEF Speaks

LEMMA OpenTalk ==
  ASSUME TypeOK, ThreadInv, Life, Kin, ~ Hasty, Speaks, NEW p \in Procs, Open(p)
  PROVE  Speaks'
<1> DEFINE k == IF Direct THEN "hello login" ELSE "hello status"
<1>0. /\ pc \in [Procs -> ThreadPCs \cup CallerPCs] /\ dials \in Ids /\ conn \in ConnType
      /\ \A u \in Ids : u \in Procs
      /\ UNCHANGED <<networking_thread, new_networking_thread, interrupt, job, dials, want>>
      /\ pc[p] = "opening" /\ pc' = [pc EXCEPT ![p] = "going"]
      /\ net' = [net EXCEPT ![dials].link = "up"]
  BY DEF TypeOK, Procs, Open, Goto, ThreadInv
<1>1. \A q \in Procs : pc'[q] = IF q = p THEN "going" ELSE pc[q]
  BY <1>0
<1>2. /\ Owes(conn'.queue, <<k>>) /\ conn'.reactor = conn.reactor /\ ~ conn'.zip
      /\ conn'.socket = dials /\ conn'.file_object = dials /\ conn'.key = None
      /\ Direct' = Direct
  <2>1. conn' = [Append1(conn, k) EXCEPT !.socket = dials, !.file_object = dials,
                   !.key = None, !.zip = FALSE, !.connected = TRUE]
    BY DEF Open
  <2>2. /\ Append1(conn, k) \in [DOMAIN conn -> {Append1(conn, k)[x] : x \in DOMAIN conn}]
        /\ Append1(conn, k).queue = Append(conn.queue, k)
        /\ Append1(conn, k).reactor = conn.reactor /\ Append1(conn, k).allowed = conn.allowed
    BY <1>0 DEF Append1, ConnType
  <2>3. Owes(conn.queue, <<>>) /\ conn.queue \in Seq(Serverbound)
    BY <1>0 DEF Speaks, Opened, ConnType
  <2>6. k \in Serverbound /\ k # "early chat"
    BY DEF Serverbound
  <2> HIDE DEF k
  <2>4. Owes(Append(conn.queue, k), <<k>>)
    <3>1. Append(<<>>, k) = <<k>> /\ <<>> \in Seq(Serverbound)
      BY OneOrTwo
    <3> QED
      BY <2>3, <2>6, <3>1, OwesMore
  <2>5. /\ conn'.queue = Append1(conn, k).queue /\ conn'.reactor = Append1(conn, k).reactor
        /\ conn'.socket = dials /\ conn'.file_object = dials /\ conn'.key = None /\ ~ conn'.zip
        /\ conn'.allowed = Append1(conn, k).allowed
    BY <1>0, <2>1, <2>2 DEF ConnType
  <2> QED
    BY <1>0, <2>2, <2>4, <2>5 DEF Direct
<1>3. /\ \A t \in Ids : t # p => pc[t] \notin Active
      /\ \A q \in Procs : q # p => pc[q] \notin {"opening", "going"}
  BY <1>0, WhoDials
<1>4. \A s \in Ids : /\ net'[s].srv = net[s].srv /\ net'[s].zip = net[s].zip
                     /\ net'[s].key = net[s].key
                     /\ s # dials => net'[s].link = net[s].link
  BY <1>0 DEF TypeOK, EndType
<1>5. \A s \in Ids : Up(s)' => s = dials
  BY <1>0, <1>4, RefusesSilent DEF Up
<1>6. NoConfusion' /\ Talk'
  BY <1>0, <1>1, <1>4 DEF Speaks, NoConfusion, Talk, Calm
<1>7. Owned'
  BY <1>0, <1>1, <1>2, <1>3, <1>5 DEF Owned
<1>8. Opened'
  <2>1. \A s \in Ids : Blank(s) => Blank(s)'
    BY <1>4 DEF Blank
  <2>2. Blank(dials) /\ (p \in Ids => conn.reactor = "query")
    BY <1>0 DEF Speaks, Opened
  <2>3. Blank(dials)'
    BY <1>0, <1>4, <2>2 DEF Blank
  <2>4. \A s \in Ids : s > dials' => Blank(s)'
    BY <1>0, <2>1 DEF Speaks, Opened
  <2>5. \A q \in Procs : pc'[q] \in {"opening", "going"} => q = p /\ pc'[q] = "going"
    BY <1>1, <1>3
  <2> QED
    BY <1>2, <2>2, <2>3, <2>4, <2>5 DEF Opened
<1>9. Reacting'
  BY <1>0, <1>1, <1>2 DEF Speaks, Reacting
<1> QED
  BY <1>6, <1>7, <1>8, <1>9 DEF Speaks

LEMMA TurnoverTalk ==
  ASSUME TypeOK, ThreadInv, Life, Kin, ~ Hasty, Speaks, NEW t \in Ids, Wait(t) \/ Final(t)
  PROVE  Speaks'
<1>0. /\ pc \in [Procs -> ThreadPCs \cup CallerPCs] /\ t \in Procs /\ net \in [Ids -> EndType]
      /\ \A u \in Ids : u \in Procs /\ u # None
      /\ UNCHANGED <<interrupt, job, conn, dials>> /\ Calm
      /\ pc[t] \in {"wait", "final"}
  BY CalmWhen, ProcsApart DEF TypeOK, Procs, Wait, Final
<1>1. PICK l \in {"turn", "dead"} : /\ pc' = [pc EXCEPT ![t] = l]
                                    /\ l = "turn" => pc[t] = "wait"
  BY DEF Wait, Final, Goto
<1>2. \A q \in Procs : pc'[q] = IF q = t THEN l ELSE pc[q]
  BY <1>0, <1>1
<1>3. \A s \in Ids : /\ net'[s].srv = net[s].srv /\ net'[s].zip = net[s].zip
                     /\ net'[s].key = net[s].key /\ net'[s].link = net[s].link
                     /\ s # t => net'[s].inbox = net[s].inbox
                     /\ Wait(t) => net'[s].inbox = net[s].inbox
  <2>1. CASE net' = net
    BY <2>1
  <2>2. CASE Final(t)
    <3>1. net' = [net EXCEPT ![t].inbox = <<>>] /\ ~ Wait(t)
      BY <2>2 DEF Final, Wait
    <3> QED
      BY <1>0, <3>1 DEF EndType
  <2> QED
    BY <2>1, <2>2 DEF Wait
<1>4. ASSUME NEW s \in Ids, Up(s)
      PROVE  /\ conn.socket = s /\ conn.file_object = s /\ (Final(t) => s # t)
             /\ \/ new_networking_thread' = s
                \/ networking_thread' = s /\ new_networking_thread' = None /\ ~ interrupt[s]
  <2>1. /\ conn.socket = s /\ conn.file_object = s
        /\ \/ new_networking_thread = s
           \/ /\ networking_thread = s /\ new_networking_thread = None
              /\ interrupt[s] => pc[s] \in Failed
    BY <1>0, <1>4 DEF Speaks, Owned, Calm
  <2>2. CASE Wait(t)
    <3>1. new_networking_thread = t /\ ~ interrupt[t] /\ pc[t] = "wait"
      BY <2>2 DEF Wait, ThreadInv, Life, Lives, Unborn
    <3> QED
      BY <1>0, <2>1, <2>2, <3>1 DEF Wait, Final
  <2>3. CASE Final(t)
    <3>1. pc[t] = "final" /\ interrupt[t] /\ networking_thread = t
      BY <2>3, ActivePlaces DEF Final, Life, Lives, Leaving, ThreadInv, OneReader
    <3>2. new_networking_thread = s /\ pc[s] = "wait"
      BY <1>0, <2>1, <3>1 DEF Life, Lives, Failed
    <3> QED
      BY <1>0, <2>1, <2>3, <3>1, <3>2 DEF Final
  <2> QED
    BY <2>2, <2>3
<1>5. ASSUME NEW s \in Ids, Up(s) PROVE Spoken(s) => Spoken(s)'
  <2>1. net'[s].inbox = net[s].inbox
    BY <1>3, <1>4, <1>5
  <2>2. Unread(s)' = Unread(s)
    BY <1>0, <1>1, <1>2, <2>1 DEF Unread
  <2>3. Chats
    BY <1>0 DEF Chats
  <2> QED
    BY <1>0, <1>1, <1>2, <1>3, <2>2, <2>3, SpokenSame
<1>6. NoConfusion' /\ Talk'
  BY <1>0, <1>3, <1>5 DEF Speaks, NoConfusion, Talk, Up
<1>7. Owned'
  <2>1. \A q \in Procs : pc'[q] # "opening"
    BY <1>0, <1>1, <1>2 DEF Calm
  <2> QED
    BY <1>0, <1>3, <1>4, <2>1 DEF Owned, Up
<1>8. Opened'
  <2>1. \A q \in Procs : pc'[q] \notin {"opening", "going"}
    BY <1>0, <1>1, <1>2 DEF Calm
  <2>2. \A s \in Ids : s > dials' => Blank(s)'
    BY <1>0, <1>3 DEF Speaks, Opened, Blank
  <2> QED
    BY <2>1, <2>2 DEF Opened
<1>9. Reacting'
  BY <1>0, <1>1, <1>2 DEF Speaks, Reacting
<1> QED
  BY <1>6, <1>7, <1>8, <1>9 DEF Speaks

\* A server that has just been dialled, and the two packets that wait for it.
LEMMA FreshFits ==
  ASSUME NEW direct \in BOOLEAN, NEW q, NEW r,
         q = Append(<<IF direct THEN "hello login" ELSE "hello status">>,
                    IF direct THEN "start" ELSE "request"),
         IF direct THEN r = "login" ELSE r \in Asks
  PROVE  Fits("open", r, q)
<1>1. CASE direct
  <2>1. q = <<"hello login", "start">>
    BY <1>1, OneOrTwo
  <2> QED
    BY <1>1, <2>1 DEF Fits, Lost
<1>2. CASE ~ direct
  <2>1. q = <<"hello status", "request">>
    BY <1>2, OneOrTwo
  <2> QED
    BY <1>2, <2>1 DEF Fits, Lost
<1> QED
  BY <1>1, <1>2

LEMMA GoTalk ==
  ASSUME TypeOK, ThreadInv, Life, Kin, ~ Hasty, Speaks, NEW p \in Procs, Go(p)
  PROVE  Speaks'
<1> DEFINE first == IF networking_thread = None THEN "turn" ELSE "wait"
           next == IF p \notin Ids THEN "idle"
                   ELSE IF job[p].via = "handler" THEN "final"
                   ELSE IF job[p].bad # "none" THEN "raise" ELSE "turn"
           h == <<IF Direct THEN "hello login" ELSE "hello status">>
           k == IF Direct THEN "start" ELSE "request"
           r == IF Direct THEN "login" ELSE IF want = "play" THEN "query" ELSE want
<1>0. /\ pc \in [Procs -> ThreadPCs \cup CallerPCs] /\ dials \in Ids
      /\ \A u \in Ids : u \in Procs /\ u # None
      /\ conn \in ConnType /\ net \in [Ids -> EndType]
      /\ pc[p] = "going" /\ pc[dials] = "unborn" /\ p # dials /\ ~ interrupt[dials]
      /\ new_networking_thread = None
      /\ UNCHANGED <<interrupt, dials, net>>
  BY ProcsApart DEF TypeOK, Procs, Go, ThreadInv, Life, Lives, Unborn
<1>1. pc' = [pc EXCEPT ![dials] = first, ![p] = next]
  BY DEF Go
<1>2. /\ first \in {"turn", "wait"} /\ next \in {"idle", "final", "raise", "turn"}
      /\ networking_thread = None => networking_thread' = dials /\ new_networking_thread' = None
      /\ networking_thread # None => new_networking_thread' = dials
  BY <1>0 DEF Go
<1>3. /\ conn'.queue = Append(conn.queue, k) /\ conn'.reactor = r
      /\ conn'.socket = conn.socket /\ conn'.file_object = conn.file_object
      /\ conn'.zip = conn.zip /\ conn'.key = conn.key
  <2>1. conn' = [Append1(conn, k) EXCEPT !.reactor = r]
    BY DEF Go
  <2>2. /\ Append1(conn, k) \in [DOMAIN conn -> {Append1(conn, k)[x] : x \in DOMAIN conn}]
        /\ Append1(conn, k).queue = Append(conn.queue, k)
        /\ Append1(conn, k).socket = conn.socket
        /\ Append1(conn, k).file_object = conn.file_object
        /\ Append1(conn, k).zip = conn.zip /\ Append1(conn, k).key = conn.key
    BY <1>0 DEF Append1, ConnType
  <2> HIDE DEF k, r
  <2> QED
    BY <1>0, <2>1, <2>2 DEF ConnType
<1>4. PICK o \in Seq(Serverbound) : Fits("open", r, o) /\ Owes(conn'.queue, o)
  <2>1. /\ Owes(conn.queue, h) /\ conn.queue \in Seq(Serverbound)
        /\ k \in Serverbound /\ k # "early chat"
        /\ h \in Seq(Serverbound)
    <3>1. Owes(conn.queue, h)
      BY <1>0 DEF Speaks, Opened
    <3>2. k \in Serverbound /\ k # "early chat" /\ h \in Seq(Serverbound)
      BY DEF Serverbound
    <3> QED
      BY <1>0, <3>1, <3>2 DEF ConnType
  <2>2. IF Direct THEN r = "login" ELSE r \in Asks
    BY DEF TypeOK, Asks
  <2>3. Direct \in BOOLEAN
    BY DEF Direct
  <2>4. Fits("open", r, Append(h, k))
    BY <2>2, <2>3, FreshFits
  <2> HIDE DEF h, k, r
  <2>5. Owes(Append(conn.queue, k), Append(h, k))
    BY <2>1, OwesMore
  <2>6. Append(h, k) \in Seq(Serverbound)
    <3>1. k \in Serverbound /\ h \in Seq(Serverbound)
      BY <2>1
    <3> QED
      BY <3>1
  <2> QED
    BY <1>3, <2>4, <2>5, <2>6
<1> HIDE DEF first, next, h, k, r
<1>5. \A q \in Procs : pc'[q] = IF q = p THEN next ELSE IF q = dials THEN first ELSE pc[q]
  BY <1>0, <1>1
<1>6. /\ \A t \in Ids : t # p => pc[t] \notin Active
      /\ \A q \in Procs : q # p => pc[q] \notin {"opening", "going"}
  BY <1>0, WhoDials
<1>7. \A q \in Procs : pc'[q] \notin {"opening", "going"}
  BY <1>2, <1>5, <1>6
<1>8. \A s \in Ids : Up(s) => s = dials /\ conn.socket = s /\ conn.file_object = s
  BY <1>0 DEF Speaks, Owned, Kin, Dialing
<1>9. Blank(dials) /\ ~ conn.zip /\ conn.key = None /\ Fresh(dials)
  BY <1>0 DEF Speaks, Opened, Kin, Dialing
<1>10. Talks(dials, "open", o)'
  <2>1. pc'[dials] \in {"turn", "wait"}
    BY <1>0, <1>2, <1>5
  <2>2. Unread(dials)' = <<>>
    BY <1>0, <1>9, <2>1 DEF Unread, Fresh
  <2>3. net'[dials].srv = "open" /\ ~ net'[dials].zip /\ net'[dials].key = None
    BY <1>0, <1>9 DEF Fresh, Blank
  <2>4. Coming("open", <<>>, "open") /\ ~ Zips(<<>>)
    BY ComingNone, ZipsNot
  <2>5. ~ Zips(Unread(dials)') /\ Coming("open", Unread(dials)', net'[dials].srv)
    BY <2>2, <2>3, <2>4
  <2>6. dials' = dials
    BY <1>0
  <2> QED
    BY <1>3, <1>4, <1>9, <2>1, <2>3, <2>5, <2>6 DEF Talks
<1>11. NoConfusion' /\ Talk'
  <2>1. NoConfusion'
    BY <1>0 DEF Speaks, NoConfusion
  <2>2. ASSUME NEW s \in Ids, Up(s)' PROVE Spoken(s)'
    <3>1. s = dials /\ s = dials'
      BY <1>0, <1>8, <2>2 DEF Up
    <3>2. Talks(s, "open", o)'
      BY <1>10, <3>1
    <3>3. "open" \in Phases
      BY DEF Phases
    <3> QED
      BY <1>4, <3>2, <3>3 DEF Spoken
  <2> QED
    BY <2>1, <2>2 DEF Talk
<1>12. Owned'
  BY <1>0, <1>2, <1>3, <1>7, <1>8 DEF Owned, Up
<1>13. Opened'
  <2>1. \A s \in Ids : s > dials' => Blank(s)'
    BY <1>0 DEF Speaks, Opened, Blank
  <2> QED
    BY <1>7, <2>1 DEF Opened
<1>14. Reacting'
  <2>1. \A t \in Ids : pc'[t] \notin {"closing", "clear", "narrow", "dial"}
    BY <1>0, <1>2, <1>5, <1>6, ActivePlaces
  <2> QED
    BY <2>1 DEF Reacting
<1> QED
  BY <1>11, <1>12, <1>13, <1>14 DEF Speaks

LEMMA TalkInit == Init => Speaks
<1> SUFFICES ASSUME Init PROVE Speaks
  OBVIOUS
<1>1. \A s \in Ids : net[s] = NoEnd
  BY DEF Init
<1>2. \A s \in Ids : ~ Up(s) /\ net[s].srv = "open" /\ Blank(s)
  BY <1>1 DEF NoEnd, Up, Blank
<1>3. \A p \in Procs : pc[p] \in {"idle", "unborn"}
  BY DEF Init
<1>4. \A t \in Ids : t \in Procs
  BY DEF Procs
<1> QED
  BY <1>2, <1>3, <1>4 DEF Speaks, NoConfusion, Owned, Talk, Opened, Reacting

LEMMA TalkStep ==
  ASSUME ~ Hasty, ConnInv, Life, Kin, Speaks, [Next]_vars
  PROVE  Speaks'
<1>0. TypeOK /\ ThreadInv
  BY DEF ConnInv
<1>1. ASSUME NEW p \in Procs, NEW w, Dial(p, w), p \in Ids => pc[p] = "dial",
             p \notin Ids => pc[p] = "idle" /\ (Busy \/ networking_thread = None)
      PROVE  Speaks'
  <2>1. CASE Busy
    <3>1. /\ CallFails(p, "state") /\ lock = None
          /\ UNCHANGED <<lock, conn, want, dials, net>> /\ UNCHANGED threadVars
      BY <1>1, <2>1 DEF Dial
    <3>2. CASE p \in Ids
      <4>1. Working(p)
        BY <1>0, <1>1, <3>1, <3>2, CallFailsWorks
      <4>2. Tends(p)
        BY <1>0, <1>1, <3>1, <3>2, FailedTends
      <4> QED
        BY <1>0, <3>2, <4>1, <4>2, WorksTalk
    <3>3. CASE p \notin Ids
      <4>1. p \in Callers /\ pc' = [pc EXCEPT ![p] = "idle"] /\ job' = job
        BY <3>1, <3>3 DEF CallFails, Goto, Procs
      <4>2. Aside
        BY <1>1, <3>1, <3>3, <4>1 DEF Aside
      <4>3. Calm /\ \A s \in Ids : pc'[s] = pc[s]
        BY <1>0, <3>1, <3>3, <4>1, CalmWhen DEF TypeOK, Procs
      <4>4. Attends
        BY <1>0, <3>1, <4>1, <4>3, StandAttends DEF Chats, threadVars
      <4> QED
        BY <1>0, <4>2, <4>4, AsideTalk
    <3> QED
      BY <3>2, <3>3
  <2> QED
    BY <1>0, <1>1, <2>1, DialTalk
<1>2. ASSUME NEW p \in Procs, Refuse(p) PROVE Speaks'
  <2>1. /\ pc[p] = "opening" /\ CallFails(p, "io") /\ net' = net
        /\ UNCHANGED threadVars /\ dials' = dials
        /\ conn' = conn \/ conn' = [conn EXCEPT !.socket = dials, !.key = None]
    BY <1>2 DEF Refuse
  <2>2. conn'.connected = conn.connected /\ conn'.reactor = conn.reactor
    BY <1>0, <2>1 DEF TypeOK, ConnType
  <2>3. CASE p \in Ids
    <3>1. Working(p)
      BY <1>0, <2>1, <2>2, <2>3, CallFailsWorks
    <3>2. Tends(p)
      BY <1>0, <2>1, <2>3, FailedTends
    <3> QED
      BY <1>0, <2>3, <3>1, <3>2, WorksTalk
  <2>4. CASE p \notin Ids
    <3>1. p \in Callers /\ pc' = [pc EXCEPT ![p] = "idle"] /\ job' = job
      BY <2>1, <2>4 DEF CallFails, Goto, Procs
    <3>2. Aside
      BY <2>1, <2>2, <2>4, <3>1 DEF Aside
    <3>3. \A q \in Procs : q # p => pc[q] \notin {"opening", "going"}
      BY <1>0, <2>1, WhoDials
    <3>4. Calm'
      BY <1>0, <3>1, <3>3 DEF Calm, TypeOK
    <3>5. \A s \in Ids : ~ Up(s)
      BY <1>0, <2>1, RefusesSilent
    <3>6. Attends
      BY <2>1, <2>2, <3>4, <3>5 DEF Attends, Up, Blank, Unconfused
    <3> QED
      BY <1>0, <3>2, <3>6, AsideTalk
  <2> QED
    BY <2>3, <2>4
<1>3. ASSUME NEW t \in Ids, ThreadStep(t) PROVE Speaks'
  <2>0. t \in Procs
    BY DEF Procs
  <2>1. CASE DialAgain(t)
    BY <1>1, <2>0, <2>1 DEF DialAgain
  <2>2. CASE Wait(t) \/ Final(t)
    BY <1>0, <2>2, TurnoverTalk
  <2>3. CASE Turn(t) \/ Write(t) \/ Written(t) \/ Read(t)
    BY <1>0, <2>3, LoopWorks, LoopTends, ReadTends, WorksTalk
  <2>4. CASE React(t) \/ Answer(t) \/ Wrap(t)
    BY <1>0, <2>4, HandlerWorks, ReactTends, LoginTends, WorksTalk
  <2>5. CASE Ending(t)
    BY <1>0, <2>5, EndWorks, EndTends, WorksTalk
  <2> QED
    BY <1>3, <2>1, <2>2, <2>3, <2>4, <2>5 DEF ThreadStep, Ending
<1>4. ASSUME NEW t \in Ids, NEW a \in BOOLEAN, Join(t, a) PROVE Speaks'
  BY <1>0, <1>4, HandlerWorks, LoginTends, WorksTalk
<1>5. ASSUME NEW p \in Procs, CallStep(p) PROVE Speaks'
  <2>1. CASE Flush(p) \/ Close(p)
    <3>1. CASE p \in Ids
      BY <1>0, <2>1, <3>1, CloseMoves, ClosingTends, WorksTalk
    <3>2. CASE p \notin Ids
      <4>1. p \in Callers /\ Aside
        BY <1>0, <2>1, <3>2, CloseMoves DEF Procs
      <4> QED
        BY <1>0, <2>1, <4>1, CallAttends, AsideTalk
    <3> QED
      BY <3>1, <3>2
  <2> QED
    BY <1>0, <1>2, <1>5, <2>1, OpenTalk, GoTalk DEF CallStep
<1>6. ASSUME NEW c \in Callers, CallerStep(c) PROVE Speaks'
  <2>0. c \in Procs /\ c \notin Ids
    BY ProcsApart DEF Procs
  <2>1. ASSUME NEW w, Connect(c, w) PROVE Speaks'
    BY <1>1, <2>0, <2>1 DEF Connect, Calls
  <2> QED
    BY <1>0, <1>6, <2>1, OtherMoves, OtherAttends, AsideTalk DEF CallerStep
<1>7. ASSUME (\E s \in Ids : Server(s)) \/ UNCHANGED vars PROVE Speaks'
  BY <1>0, <1>7, OtherMoves, OtherAttends, AsideTalk
<1> QED
  BY <1>3, <1>4, <1>5, <1>6, <1>7 DEF Next

\* Of its own accord the library never writes a packet that the server's phase of
\* the protocol, its compression or its encryption does not allow (what the
\* reactors queue and write, connection.py:551-780, across status queries and
\* reconnections), whatever chat lines the program puts into the queue or sends
\* at whatever time, and however many threads call the library, if they wait for
\* an interrupted networking thread to be gone before they connect again.
THEOREM ServersUnderstand == ASSUME ~ Hasty PROVE Spec => []NoConfusion
<1>1. Init => Kin /\ Speaks
  BY KinInit, TalkInit
<1>2. ConnInv /\ Life /\ Kin /\ [Next]_vars => Kin'
  BY KinStep
<1>3. ConnInv /\ Life /\ Kin /\ Speaks /\ [Next]_vars => Speaks'
  BY TalkStep
<1>4. Speaks => NoConfusion
  BY DEF Speaks
<1> QED
  BY <1>1, <1>2, <1>3, <1>4, LifeHolds, PTL DEF Spec
=============================================================================
