-------------------------- MODULE DanmuBridgeProofs --------------------------
(***************************************************************************)
(* Proofs about DanmuBridge: a player whose session has the file of the    *)
(* room for itself is told its comments in the order they were made, for   *)
(* any numbers of sessions and comments, any sizes of the channels and any *)
(* budgets of what happens from outside.                                   *)
(***************************************************************************)
EXTENDS DanmuBridge, FiniteSetTheorems, TLAPS

Comments == 1..MaxSaid
Commands == 0..(MaxSaid + 1)
Paths == Files \cup {0}

Programs ==
  [pc : {"off", "none", "new", "dial", "run"}, out : Paths, open : BOOLEAN,
   connected : BOOLEAN, repeats : Nat, wire : Seq(Seq(Commands)),
   hand : Seq(Commands), msg : Seq(Comments), uncompressed : Nat,
   printed : SUBSET Comments]
Relays ==
  [pc : {"off", "idle", "text", "tell", "hung"}, watch : Paths, queued : BOOLEAN,
   name : Lines, text : Lines, depth : Nat]

Types ==
  /\ path \in Paths /\ last \in Lines /\ said \in Lines
  /\ go \in [Sessions -> Programs] /\ py \in [Sessions -> Relays]
  /\ shown \in [Sessions -> Lines]
  /\ script \in [Sessions -> {"off", "quit", "launch", "trap", "loop"}]
  /\ alone \subseteq Sessions

\* Without its screen session there is no program, before start.sh has come to its
\* loop no relay, and a player alone in the room is the only one with a session.
Still(s) ==
  ~ go[s].open /\ go[s].wire = <<>> /\ go[s].hand = <<>> /\ go[s].msg = <<>>
Silent(s) ==
  py[s].pc = "off" /\ py[s].name = Other /\ py[s].text = Other /\ shown[s] = 0
Sole ==
  /\ \A s \in Sessions : go[s].pc = "off" => Still(s)
  /\ \A s \in Sessions : script[s] # "loop" => Silent(s)
  /\ \A s \in alone : \A t \in Sessions : Busy(t) => t = s

\* The comments of S were made before those of T.
Behind(S, T) == \A c \in S \cap Comments, d \in T \cap Comments : c <= d

\* The members of a queue, and of the packets on a wire; their order.
Elems(q) == {q[i] : i \in 1..Len(q)}
Flat(w) == UNION {Elems(w[i]) : i \in 1..Len(w)}
Sorted(q) == \A i, j \in 1..Len(q) : i < j => Behind({q[i]}, {q[j]})
Lined(w) ==
  /\ \A i \in 1..Len(w) : Sorted(w[i])
  /\ \A i, j \in 1..Len(w) : i < j => Behind(Elems(w[i]), Elems(w[j]))

\* The comments on their way to the player of session s: on the wire, in the
\* hand of ReceiveMsg, in the channel.
OnWire(s) == Flat(go[s].wire)
InHand(s) == Elems(go[s].hand)
InPool(s) == Elems(go[s].msg)
Coming(s) == InPool(s) \cup InHand(s) \cup OnWire(s)

\* Each place on the way holds its comments in order, and newer ones than the
\* places after it.
Ranged(s) ==
  /\ Lined(go[s].wire) /\ Sorted(go[s].hand) /\ Sorted(go[s].msg)
  /\ Behind(InHand(s), OnWire(s))
  /\ Behind(InPool(s), InHand(s) \cup OnWire(s))
Read(s) ==
  /\ Behind({last}, Coming(s))
  /\ Behind({py[s].text}, {last} \cup Coming(s))
  /\ Behind({py[s].name}, {py[s].text, last} \cup Coming(s))
  /\ Behind({shown[s]}, {py[s].text, last} \cup Coming(s))
  /\ py[s].pc \notin {"tell", "hung"} => py[s].text = Other
  /\ py[s].pc \notin {"text", "tell", "hung"} => py[s].name = Other
Made(s) ==
  \A c \in Comments :
    c \in Coming(s) \cup {last, py[s].text, py[s].name, shown[s]} => c <= said
InOrder(s) == Ranged(s) /\ Read(s) /\ Made(s)

OrderInv == Types /\ Sole /\ \A s \in alone : InOrder(s)

-----------------------------------------------------------------------------
(***************************************************************************)
(* Queues.                                                                 *)
(***************************************************************************)
LEMMA TailElems ==
  ASSUME NEW S, NEW q \in Seq(S), q # <<>>
  PROVE  /\ Head(q) \in S /\ Tail(q) \in Seq(S)
         /\ Elems(q) = {Head(q)} \cup Elems(Tail(q))
         /\ Sorted(q) => Sorted(Tail(q)) /\ Behind({Head(q)}, Elems(Tail(q)))
<1>1. /\ Head(q) \in S /\ Tail(q) \in Seq(S) /\ Len(q) \in Nat \ {0}
      /\ Len(Tail(q)) = Len(q) - 1 /\ Head(q) = q[1]
      /\ \A i \in 1..Len(Tail(q)) : Tail(q)[i] = q[i + 1]
  OBVIOUS
<1>2. Elems(q) = {Head(q)} \cup Elems(Tail(q))
  <2>1. ASSUME NEW x \in Elems(q) PROVE x \in {Head(q)} \cup Elems(Tail(q))
    <3>1. PICK i \in 1..Len(q) : x = q[i]
      BY <2>1 DEF Elems
    <3>2. CASE i = 1
      BY <1>1, <3>1, <3>2
    <3>3. CASE i # 1
      <4>1. i - 1 \in 1..Len(Tail(q)) /\ (i - 1) + 1 = i
        BY <1>1, <3>1, <3>3
      <4>2. Tail(q)[i - 1] = x
        BY <1>1, <3>1, <4>1
      <4> QED
        BY <4>1, <4>2 DEF Elems
    <3> QED
      BY <3>2, <3>3
  <2>2. ASSUME NEW x \in Elems(Tail(q)) PROVE x \in Elems(q)
    <3>1. PICK i \in 1..Len(Tail(q)) : x = Tail(q)[i]
      BY <2>2 DEF Elems
    <3>2. i + 1 \in 1..Len(q) /\ x = q[i + 1]
      BY <1>1, <3>1
    <3> QED
      BY <3>2 DEF Elems
  <2>3. Head(q) \in Elems(q)
    BY <1>1 DEF Elems
  <2> QED
    BY <2>1, <2>2, <2>3
<1>3. ASSUME Sorted(q) PROVE Sorted(Tail(q)) /\ Behind({Head(q)}, Elems(Tail(q)))
  <2>1. ASSUME NEW i \in 1..Len(Tail(q)), NEW j \in 1..Len(Tail(q)), i < j
        PROVE  Behind({Tail(q)[i]}, {Tail(q)[j]})
    <3>1. i + 1 \in 1..Len(q) /\ j + 1 \in 1..Len(q) /\ i + 1 < j + 1
      BY <1>1, <2>1
    <3> QED
      BY <1>1, <1>3, <3>1 DEF Sorted
  <2>2. ASSUME NEW x \in Elems(Tail(q)) PROVE Behind({Head(q)}, {x})
    <3>1. PICK i \in 1..Len(Tail(q)) : x = Tail(q)[i]
      BY <2>2 DEF Elems
    <3>2. 1 \in 1..Len(q) /\ i + 1 \in 1..Len(q) /\ 1 < i + 1 /\ x = q[i + 1]
      BY <1>1, <3>1
    <3> QED
      BY <1>1, <1>3, <3>2 DEF Sorted
  <2> QED
    BY <2>1, <2>2 DEF Sorted, Behind
<1> QED
  BY <1>1, <1>2, <1>3

LEMMA AppendElems ==
  ASSUME NEW S, NEW q \in Seq(S), NEW x \in S
  PROVE  /\ Append(q, x) \in Seq(S)
         /\ Elems(Append(q, x)) = Elems(q) \cup {x}
         /\ Sorted(q) /\ Behind(Elems(q), {x}) => Sorted(Append(q, x))
<1> DEFINE r == Append(q, x)
<1>1. /\ r \in Seq(S) /\ Len(q) \in Nat /\ Len(r) = Len(q) + 1
      /\ \A i \in 1..Len(q) : r[i] = q[i]
      /\ r[Len(r)] = x
  OBVIOUS
<1> HIDE DEF r
<1>2. Elems(r) = Elems(q) \cup {x}
  <2>1. ASSUME NEW y \in Elems(r) PROVE y \in Elems(q) \cup {x}
    <3>1. PICK i \in 1..Len(r) : y = r[i]
      BY <2>1 DEF Elems
    <3>2. i \in 1..Len(q) \/ i = Len(r)
      BY <1>1, <3>1
    <3> QED
      BY <1>1, <3>1, <3>2 DEF Elems
  <2>2. \A i \in 1..Len(q) : i \in 1..Len(r)
    BY <1>1
  <2>3. Len(r) \in 1..Len(r)
    BY <1>1
  <2> QED
    BY <1>1, <2>1, <2>2, <2>3 DEF Elems
<1>3. ASSUME Sorted(q), Behind(Elems(q), {x}), NEW i \in 1..Len(r), NEW j \in 1..Len(r), i < j
      PROVE  Behind({r[i]}, {r[j]})
  <2>1. i \in 1..Len(q) /\ (j \in 1..Len(q) \/ j = Len(r))
    BY <1>1, <1>3
  <2>2. CASE j \in 1..Len(q)
    BY <1>1, <1>3, <2>1, <2>2 DEF Sorted
  <2>3. CASE j = Len(r)
    <3>1. r[i] \in Elems(q) /\ r[j] = x
      BY <1>1, <2>1, <2>3 DEF Elems
    <3> QED
      BY <1>3, <3>1 DEF Behind
  <2> QED
    BY <2>1, <2>2, <2>3
<1> QED
  BY <1>1, <1>2, <1>3 DEF r, Sorted

LEMMA NoElems == Elems(<<>>) = {} /\ Flat(<<>>) = {} /\ Sorted(<<>>) /\ Lined(<<>>)
BY DEF Elems, Flat, Sorted, Lined

LEMMA TailFlat ==
  ASSUME NEW w \in Seq(Seq(Commands)), w # <<>>
  PROVE  /\ Head(w) \in Seq(Commands) /\ Tail(w) \in Seq(Seq(Commands))
         /\ Flat(w) = Elems(Head(w)) \cup Flat(Tail(w))
         /\ Lined(w) => /\ Lined(Tail(w)) /\ Sorted(Head(w))
                        /\ Behind(Elems(Head(w)), Flat(Tail(w)))
<1>1. /\ Head(w) \in Seq(Commands) /\ Tail(w) \in Seq(Seq(Commands)) /\ Len(w) \in Nat \ {0}
      /\ Len(Tail(w)) = Len(w) - 1 /\ Head(w) = w[1]
      /\ \A i \in 1..Len(Tail(w)) : Tail(w)[i] = w[i + 1]
  OBVIOUS
<1>2. \A x : x \in Flat(w) <=> \E i \in 1..Len(w) : x \in Elems(w[i])
  BY DEF Flat
<1>3. \A x : x \in Flat(Tail(w)) <=> \E i \in 1..Len(Tail(w)) : x \in Elems(Tail(w)[i])
  BY DEF Flat
<1>4. ASSUME NEW x PROVE x \in Flat(w) <=> x \in Elems(Head(w)) \cup Flat(Tail(w))
  <2>1. ASSUME NEW i \in 1..Len(w), x \in Elems(w[i])
        PROVE  x \in Elems(Head(w)) \cup Flat(Tail(w))
    <3>1. CASE i = 1
      BY <1>1, <2>1, <3>1
    <3>2. CASE i # 1
      <4>1. i - 1 \in 1..Len(Tail(w)) /\ (i - 1) + 1 = i
        BY <1>1, <3>2
      <4>2. Tail(w)[i - 1] = w[i]
        BY <1>1, <4>1
      <4> QED
        BY <1>3, <2>1, <4>1, <4>2
    <3> QED
      BY <3>1, <3>2
  <2>2. ASSUME NEW i \in 1..Len(Tail(w)), x \in Elems(Tail(w)[i]) PROVE x \in Flat(w)
    <3>1. i + 1 \in 1..Len(w)
      BY <1>1
    <3> QED
      BY <1>1, <1>2, <2>2, <3>1
  <2>3. 1 \in 1..Len(w)
    BY <1>1
  <2> QED
    BY <1>1, <1>2, <1>3, <2>1, <2>2, <2>3
<1>5. ASSUME Lined(w)
      PROVE  Lined(Tail(w)) /\ Sorted(Head(w)) /\ Behind(Elems(Head(w)), Flat(Tail(w)))
  <2>1. \A i \in 1..Len(Tail(w)) : i + 1 \in 1..Len(w) /\ 1 < i + 1
    BY <1>1
  <2>2. \A i, j \in 1..Len(Tail(w)) : i < j => i + 1 < j + 1
    BY <1>1
  <2>3. 1 \in 1..Len(w)
    BY <1>1
  <2>4. Lined(Tail(w))
    BY <1>1, <1>5, <2>1, <2>2 DEF Lined
  <2>5. \A i \in 1..Len(Tail(w)) : Behind(Elems(Head(w)), Elems(Tail(w)[i]))
    BY <1>1, <1>5, <2>1, <2>3 DEF Lined
  <2>6. Behind(Elems(Head(w)), Flat(Tail(w)))
    BY <1>3, <2>5 DEF Behind
  <2> QED
    BY <1>1, <1>5, <2>3, <2>4, <2>6 DEF Lined
<1> QED
  BY <1>1, <1>4, <1>5

LEMMA AppendFlat ==
  ASSUME NEW w \in Seq(Seq(Commands)), NEW p \in Seq(Commands)
  PROVE  /\ Append(w, p) \in Seq(Seq(Commands))
         /\ Flat(Append(w, p)) = Flat(w) \cup Elems(p)
         /\ Lined(w) /\ Sorted(p) /\ Behind(Flat(w), Elems(p)) => Lined(Append(w, p))
<1> DEFINE r == Append(w, p)
<1>1. /\ r \in Seq(Seq(Commands)) /\ Len(w) \in Nat /\ Len(r) = Len(w) + 1
      /\ \A i \in 1..Len(w) : r[i] = w[i]
      /\ r[Len(r)] = p
  OBVIOUS
<1> HIDE DEF r
<1>2. \A x : x \in Flat(w) <=> \E i \in 1..Len(w) : x \in Elems(w[i])
  BY DEF Flat
<1>3. \A x : x \in Flat(r) <=> \E i \in 1..Len(r) : x \in Elems(r[i])
  BY DEF Flat
<1>4. /\ \A i \in 1..Len(r) : i \in 1..Len(w) \/ i = Len(r)
      /\ \A i \in 1..Len(w) : i \in 1..Len(r) /\ i < Len(r)
      /\ Len(r) \in 1..Len(r)
  BY <1>1
<1>5. Flat(r) = Flat(w) \cup Elems(p)
  BY <1>1, <1>2, <1>3, <1>4
<1>6. ASSUME Lined(w), Sorted(p), Behind(Flat(w), Elems(p)) PROVE Lined(r)
  <2>1. \A i \in 1..Len(w) : Behind(Elems(w[i]), Elems(p))
    BY <1>2, <1>6 DEF Behind
  <2>2. \A i, j \in 1..Len(r) : i < j => i \in 1..Len(w)
    BY <1>1
  <2> QED
    BY <1>1, <1>4, <1>6, <2>1, <2>2 DEF Lined
<1> QED
  BY <1>1, <1>5, <1>6 DEF r

-----------------------------------------------------------------------------
(***************************************************************************)
(* Types.                                                                  *)
(***************************************************************************)

\* There is always a name for a new file: a session has at most two files.
LEMMA NewFileExists ==
  ASSUME Types
  PROVE  NewFile \in Files
<1> DEFINE Outs == {go[t].out : t \in Sessions}
           Watched == {py[t].watch : t \in Sessions}
           n == Cardinality(Sessions)
<1>1. IsFiniteSet(Sessions) /\ n \in Nat
  BY DanmuAssumption, FS_CardinalityType
<1>2. IsFiniteSet(Outs) /\ Cardinality(Outs) <= n
  <2>1. [t \in Sessions |-> go[t].out] \in Surjection(Sessions, Outs)
    BY DEF Surjection
  <2> HIDE DEF Outs
  <2> QED
    BY <1>1, <2>1, FS_Surjection
<1>3. IsFiniteSet(Watched) /\ Cardinality(Watched) <= n
  <2>1. [t \in Sessions |-> py[t].watch] \in Surjection(Sessions, Watched)
    BY DEF Surjection
  <2> HIDE DEF Watched
  <2> QED
    BY <1>1, <2>1, FS_Surjection
<1> HIDE DEF Outs, Watched, n
<1>4. IsFiniteSet(Outs \cup Watched) /\ Cardinality(Outs \cup Watched) <= 2 * n
  <2>1. /\ Cardinality(Outs \cup Watched) =
             Cardinality(Outs) + Cardinality(Watched) - Cardinality(Outs \cap Watched)
        /\ IsFiniteSet(Outs \cup Watched)
    BY <1>2, <1>3, FS_Union
  <2>2. IsFiniteSet(Outs \cap Watched)
    BY <1>2, FS_Intersection
  <2>3. Cardinality(Outs) \in Nat /\ Cardinality(Watched) \in Nat
        /\ Cardinality(Outs \cap Watched) \in Nat
    BY <1>2, <1>3, <2>2, FS_CardinalityType
  <2> QED
    BY <1>1, <1>2, <1>3, <2>1, <2>3
<1>5. IsFiniteSet(Files) /\ Cardinality(Files) = 2 * n + 1
  <2>1. 2 * n + 1 \in Int /\ 1 \in Int /\ 2 * n + 1 >= 1
    BY <1>1
  <2> QED
    BY <2>1, FS_Interval DEF Files, n
<1>6. \E f \in Files : f \notin Outs \cup Watched
  <2> SUFFICES ASSUME Files \subseteq Outs \cup Watched PROVE FALSE
    OBVIOUS
  <2>1. Cardinality(Files) <= Cardinality(Outs \cup Watched)
    BY <1>4, FS_Subset
  <2>2. Cardinality(Outs \cup Watched) \in Nat
    BY <1>4, FS_CardinalityType
  <2> QED
    BY <1>1, <1>4, <1>5, <2>1, <2>2
<1> QED
  BY <1>6 DEF NewFile, Outs, Watched

\* A line that is written leaves the relays as they are, but for their queues.
LEMMA ModifyEffect ==
  ASSUME Types, NEW file, Modify(file)
  PROVE  /\ py' \in [Sessions -> Relays]
         /\ \A t \in Sessions : /\ py'[t].name = py[t].name /\ py'[t].text = py[t].text
                                /\ py'[t].pc = py[t].pc
<1>1. \A t \in Sessions : py[t] \in Relays
  BY DEF Types
<1>2. \A t \in Sessions : py'[t] = [py[t] EXCEPT !.queued = py[t].queued \/ py[t].watch = file]
  BY <1>1 DEF Modify, Relays
<1>3. \A t \in Sessions : py'[t] \in Relays
  BY <1>1, <1>2, ZenonT(60) DEF Relays
<1>4. py' \in [Sessions -> Relays]
  BY <1>3 DEF Modify
<1> QED
  BY <1>1, <1>2, <1>4 DEF Relays

LEMMA StoppedType ==
  /\ \A pc \in {"off", "none", "new", "dial", "run"} : Stopped(pc) \in Programs
  /\ \A f \in Paths : Started(f) \in Programs
  /\ NoRelay \in Relays /\ \A f \in Paths : [NoRelay EXCEPT !.pc = "idle", !.watch = f] \in Relays
<1>1. <<>> \in Seq(Seq(Commands)) /\ <<>> \in Seq(Commands) /\ <<>> \in Seq(Comments)
  OBVIOUS
<1>2. 0 \in Paths /\ 0 \in Lines
  BY DanmuAssumption DEF Paths, Lines
<1>3. \A pc \in {"off", "none", "new", "dial", "run"} : Stopped(pc) \in Programs
  BY <1>1, <1>2 DEF Stopped, Programs
<1>4. \A f \in Paths : Started(f) \in Programs
  BY <1>3 DEF Started, Programs
<1> QED
  BY <1>2, <1>3, <1>4 DEF NoRelay, Relays, Other

\* What a step of program s leaves: its new record, and perhaps a line written.
Runs(s) ==
  /\ go'[s] \in Programs /\ go' = [go EXCEPT ![s] = go'[s]]
  /\ path' \in Paths /\ last' \in Lines
  /\ py' = py \/ \E f : Modify(f)
  /\ UNCHANGED <<script, said, shown, alone>>

LEMMA RunsTypes == ASSUME Types, NEW s \in Sessions, Runs(s) PROVE Types'
<1>1. py' \in [Sessions -> Relays]
  BY ModifyEffect DEF Runs, Types
<1> QED
  BY <1>1 DEF Runs, Types

\* It follows from the new record.
LEMMA RunsIf ==
  ASSUME Types, NEW s \in Sessions, NEW g \in Programs, go' = [go EXCEPT ![s] = g],
         path' \in Paths, last' \in Lines, py' = py \/ \E f : Modify(f),
         UNCHANGED <<script, said, shown, alone>>
  PROVE  Runs(s) /\ go'[s] = g
<1>1. go'[s] = g
  BY DEF Types
<1> QED
  BY <1>1 DEF Runs

LEMMA WritesLine ==
  ASSUME Types, NEW file, NEW line \in Lines, Append1(file, line)
  PROVE  path' \in Paths /\ last' \in Lines /\ last' \in {last, line} /\ \E f : Modify(f)
BY DEF Append1, Types

\* The new record of program s after each of its steps.
LEMMA ProgramRuns ==
  ASSUME Types, NEW s \in Sessions
  PROVE  /\ Launch(s) => Runs(s) /\ last' = Other /\ \E f \in Paths : go'[s] = Started(f)
         /\ Dial(s) => /\ Runs(s) /\ last' \in {last, Other}
                       /\ go'[s].wire = go[s].wire /\ go'[s].hand = go[s].hand
                       /\ go'[s].msg = go[s].msg
         /\ DialFails(s) \/ EndMain(s) =>
              Runs(s) /\ last' \in {last, Other} /\ go'[s] = Stopped("none")
         /\ HeartBeatFails(s) => Runs(s) /\ last' \in {last, Other} /\ go' = go
<1>0. /\ go[s] \in Programs /\ Other \in Lines /\ path \in Paths /\ last \in Lines
      /\ go = [go EXCEPT ![s] = go[s]]
  BY DanmuAssumption DEF Types, Other, Lines
<1>2. ASSUME Launch(s) PROVE Runs(s) /\ last' = Other /\ \E f \in Paths : go'[s] = Started(f)
  <2>1. path' \in Paths
    BY <1>0, <1>2, NewFileExists DEF Launch, Paths
  <2>2. Started(path') \in Programs /\ go' = [go EXCEPT ![s] = Started(path')]
    BY <1>2, <2>1, StoppedType DEF Launch
  <2>3. (\E f : Modify(f)) /\ last' = Other /\ UNCHANGED <<script, said, shown, alone>>
    BY <1>2 DEF Launch
  <2>4. Runs(s) /\ go'[s] = Started(path')
    BY <1>0, <2>1, <2>2, <2>3, RunsIf
  <2> QED
    BY <2>1, <2>3, <2>4
<1>3. ASSUME Dial(s)
      PROVE  /\ Runs(s) /\ last' \in {last, Other}
             /\ go'[s].wire = go[s].wire /\ go'[s].hand = go[s].hand
             /\ go'[s].msg = go[s].msg
  <2> DEFINE g == [go[s] EXCEPT !.pc = "run", !.open = TRUE]
  <2>1. /\ g \in Programs /\ g.wire = go[s].wire /\ g.hand = go[s].hand
        /\ g.msg = go[s].msg
    BY <1>0 DEF Programs
  <2>2. go' = [go EXCEPT ![s] = g]
    BY <1>0, <1>3 DEF Dial, Types, Programs
  <2>3. Append1(go[s].out, Other) /\ UNCHANGED <<script, said, shown, alone>>
    BY <1>3 DEF Dial
  <2> HIDE DEF g
  <2>4. Runs(s) /\ go'[s] = g /\ last' \in {last, Other}
    BY <1>0, <2>1, <2>2, <2>3, RunsIf, WritesLine
  <2> QED
    BY <2>1, <2>4
<1>4. ASSUME DialFails(s) \/ EndMain(s)
      PROVE  Runs(s) /\ last' \in {last, Other} /\ go'[s] = Stopped("none")
  <2>1. /\ Stopped("none") \in Programs /\ go' = [go EXCEPT ![s] = Stopped("none")]
        /\ UNCHANGED <<script, said, shown, alone>>
    BY <1>4, StoppedType DEF DialFails, EndMain
  <2>2. CASE Append1(go[s].out, Other)
    BY <1>0, <2>1, <2>2, RunsIf, WritesLine
  <2>3. CASE UNCHANGED <<path, last, py>>
    BY <1>0, <2>1, <2>3, RunsIf
  <2> QED
    BY <1>4, <2>2, <2>3 DEF DialFails, EndMain
<1>5. ASSUME HeartBeatFails(s) PROVE Runs(s) /\ last' \in {last, Other} /\ go' = go
  <2>1. /\ go' = go /\ Append1(go[s].out, Other) /\ UNCHANGED <<script, said, shown, alone>>
    BY <1>5 DEF HeartBeatFails
  <2> QED
    BY <1>0, <2>1, RunsIf, WritesLine
<1> QED
  BY <1>2, <1>3, <1>4, <1>5

LEMMA QueueRuns ==
  ASSUME Types, NEW s \in Sessions
  PROVE  /\ Receive(s) => /\ Runs(s) /\ last' \in {last, Other}
                          /\ go[s].wire # <<>> /\ go[s].hand = <<>>
                          /\ go'[s].wire = Tail(go[s].wire) /\ go'[s].msg = go[s].msg
                          /\ go'[s].hand \in {<<>>, Head(go[s].wire)}
         /\ Put(s) => /\ Runs(s) /\ last' = last
                      /\ go[s].hand # <<>> /\ go'[s].hand = Tail(go[s].hand)
                      /\ go'[s].wire = go[s].wire
                      /\ \/ go'[s].msg = go[s].msg
                         \/ /\ Head(go[s].hand) \in Comments
                            /\ go'[s].msg = Append(go[s].msg, Head(go[s].hand))
         /\ Handle(s) => /\ Runs(s) /\ last' \in {last, Head(go[s].msg)}
                         /\ go[s].msg # <<>> /\ go'[s].msg = Tail(go[s].msg)
                         /\ go'[s].wire = go[s].wire /\ go'[s].hand = go[s].hand
         /\ ReadFails(s) \/ HangUp(s) \/ Welcome(s) =>
              /\ Runs(s) /\ last' = last
              /\ \/ go'[s] = Stopped("none")
                 \/ /\ go'[s].hand = go[s].hand /\ go'[s].msg = go[s].msg
                    /\ \/ go'[s].wire = go[s].wire
                       \/ go'[s].wire = <<Joined>> /\ go[s].wire = <<>>
<1>0. /\ go[s] \in Programs /\ Other \in Lines /\ path \in Paths /\ last \in Lines
      /\ go[s].wire \in Seq(Seq(Commands)) /\ go[s].hand \in Seq(Commands)
      /\ go[s].msg \in Seq(Comments) /\ go[s].uncompressed \in Nat /\ go[s].repeats \in Nat
      /\ <<>> \in Seq(Commands) /\ <<Joined>> \in Seq(Seq(Commands))
  BY DanmuAssumption DEF Types, Other, Lines, Programs, Joined
<1>2. ASSUME Receive(s)
      PROVE  /\ Runs(s) /\ last' \in {last, Other}
             /\ go[s].wire # <<>> /\ go[s].hand = <<>>
             /\ go'[s].wire = Tail(go[s].wire) /\ go'[s].msg = go[s].msg
             /\ go'[s].hand \in {<<>>, Head(go[s].wire)}
  <2>1. /\ go[s].wire # <<>> /\ go[s].hand = <<>>
        /\ Head(go[s].wire) \in Seq(Commands) /\ Tail(go[s].wire) \in Seq(Seq(Commands))
        /\ UNCHANGED <<script, said, shown, alone>>
    BY <1>0, <1>2 DEF Receive
  <2> DEFINE r == [go[s] EXCEPT !.wire = Tail(@)]
             g == [r EXCEPT !.connected = TRUE]
             h == [r EXCEPT !.hand = Head(go[s].wire)]
  <2>2. /\ g \in Programs /\ g.wire = Tail(go[s].wire) /\ g.msg = go[s].msg
        /\ g.hand = <<>>
    BY <1>0, <2>1 DEF Programs
  <2>3. /\ h \in Programs /\ h.wire = Tail(go[s].wire) /\ h.msg = go[s].msg
        /\ h.hand = Head(go[s].wire)
    BY <1>0, <2>1 DEF Programs
  <2>4. \/ go' = [go EXCEPT ![s] = g] /\ Append1(go[s].out, Other)
        \/ go' = [go EXCEPT ![s] = h] /\ UNCHANGED <<path, last, py, unread>>
    BY <1>2 DEF Receive
  <2> HIDE DEF g, h
  <2>5. CASE go' = [go EXCEPT ![s] = g] /\ Append1(go[s].out, Other)
    <3>1. Runs(s) /\ go'[s] = g /\ last' \in {last, Other}
      BY <1>0, <2>1, <2>2, <2>5, RunsIf, WritesLine
    <3> QED
      BY <2>1, <2>2, <3>1
  <2>6. CASE go' = [go EXCEPT ![s] = h] /\ UNCHANGED <<path, last, py, unread>>
    <3>1. Runs(s) /\ go'[s] = h /\ last' \in {last, Other}
      BY <1>0, <2>1, <2>3, <2>6, RunsIf
    <3> QED
      BY <2>1, <2>3, <3>1
  <2> QED
    BY <2>4, <2>5, <2>6
<1>3. ASSUME Put(s)
      PROVE  /\ Runs(s) /\ last' = last
             /\ go[s].hand # <<>> /\ go'[s].hand = Tail(go[s].hand)
             /\ go'[s].wire = go[s].wire
             /\ \/ go'[s].msg = go[s].msg
                \/ /\ Head(go[s].hand) \in Comments
                   /\ go'[s].msg = Append(go[s].msg, Head(go[s].hand))
  <2> DEFINE c == Head(go[s].hand)
             rest == [go[s] EXCEPT !.hand = Tail(@)]
             g == [rest EXCEPT !.uncompressed = @ + 1]
             h == [rest EXCEPT !.msg = Append(@, c)]
  <2>1. /\ go[s].hand # <<>> /\ c \in Commands /\ Tail(go[s].hand) \in Seq(Commands)
        /\ UNCHANGED <<script, path, last, py, said, shown, alone>>
    BY <1>0, <1>3 DEF Put
  <2>2. c \notin {Other, Plain} => c \in Comments
    BY <2>1, DanmuAssumption DEF Commands, Comments, Other, Plain
  <2>3. \/ go' = [go EXCEPT ![s] = rest]
        \/ go' = [go EXCEPT ![s] = g]
        \/ c \notin {Other, Plain} /\ go' = [go EXCEPT ![s] = h]
    BY <1>3 DEF Put
  <2>4. /\ rest \in Programs /\ rest.hand = Tail(go[s].hand)
        /\ rest.wire = go[s].wire /\ rest.msg = go[s].msg
    BY <1>0, <2>1 DEF Programs
  <2>5. /\ g \in Programs /\ g.hand = Tail(go[s].hand)
        /\ g.wire = go[s].wire /\ g.msg = go[s].msg
    <3>1. rest.uncompressed = go[s].uncompressed /\ rest.uncompressed + 1 \in Nat
      BY <1>0 DEF Programs
    <3> HIDE DEF rest
    <3> QED
      BY <2>4, <3>1 DEF Programs
  <2>6. ASSUME c \in Comments
        PROVE  /\ h \in Programs /\ h.hand = Tail(go[s].hand)
               /\ h.wire = go[s].wire /\ h.msg = Append(go[s].msg, c)
    <3>1. Append(go[s].msg, c) \in Seq(Comments)
      BY <1>0, <2>6
    <3> QED
      BY <1>0, <2>1, <3>1 DEF Programs
  <2> HIDE DEF c, rest, g, h
  <2>7. CASE go' = [go EXCEPT ![s] = rest]
    <3>1. Runs(s) /\ go'[s] = rest
      BY <1>0, <2>1, <2>4, <2>7, RunsIf
    <3> QED
      BY <2>1, <2>4, <3>1
  <2>8. CASE go' = [go EXCEPT ![s] = g]
    <3>1. Runs(s) /\ go'[s] = g
      BY <1>0, <2>1, <2>5, <2>8, RunsIf
    <3> QED
      BY <2>1, <2>5, <3>1
  <2>9. CASE c \notin {Other, Plain} /\ go' = [go EXCEPT ![s] = h]
    <3>1. Runs(s) /\ go'[s] = h
      BY <1>0, <2>1, <2>2, <2>6, <2>9, RunsIf
    <3> QED
      BY <2>1, <2>2, <2>6, <2>9, <3>1 DEF c
  <2> QED
    BY <2>3, <2>7, <2>8, <2>9
<1>4. ASSUME Handle(s)
      PROVE  /\ Runs(s) /\ last' \in {last, Head(go[s].msg)}
             /\ go[s].msg # <<>> /\ go'[s].msg = Tail(go[s].msg)
             /\ go'[s].wire = go[s].wire /\ go'[s].hand = go[s].hand
  <2> DEFINE g == [go[s] EXCEPT !.msg = Tail(@), !.printed = @ \cup {Head(go[s].msg)}]
  <2>1. /\ go[s].msg # <<>> /\ Head(go[s].msg) \in Comments /\ Tail(go[s].msg) \in Seq(Comments)
        /\ UNCHANGED <<script, said, shown, alone>>
        /\ Append1(go[s].out, Head(go[s].msg))
    BY <1>0, <1>4 DEF Handle
  <2>2. Head(go[s].msg) \in Lines
    BY <2>1, DanmuAssumption DEF Comments, Lines
  <2>3. go' = [go EXCEPT ![s] = g]
    BY <1>0, <1>4 DEF Handle, Types
  <2>4. /\ g \in Programs /\ g.msg = Tail(go[s].msg)
        /\ g.wire = go[s].wire /\ g.hand = go[s].hand
    BY <1>0, <2>1 DEF Programs
  <2> HIDE DEF g
  <2>5. Runs(s) /\ go'[s] = g /\ last' \in {last, Head(go[s].msg)}
    BY <1>0, <2>1, <2>2, <2>3, <2>4, RunsIf, WritesLine
  <2> QED
    BY <2>1, <2>4, <2>5
<1>5. ASSUME ReadFails(s) \/ HangUp(s) \/ Welcome(s)
      PROVE  /\ Runs(s) /\ last' = last
             /\ \/ go'[s] = Stopped("none")
                \/ /\ go'[s].hand = go[s].hand /\ go'[s].msg = go[s].msg
                   /\ \/ go'[s].wire = go[s].wire
                      \/ go'[s].wire = <<Joined>> /\ go[s].wire = <<>>
  <2>1. UNCHANGED <<script, path, last, py, said, shown, alone>>
    BY <1>5 DEF ReadFails, HangUp, Welcome
  <2>2. PICK g \in Programs :
           /\ go' = [go EXCEPT ![s] = g]
           /\ \/ g = Stopped("none")
              \/ /\ g.hand = go[s].hand /\ g.msg = go[s].msg
                 /\ \/ g.wire = go[s].wire
                    \/ g.wire = <<Joined>> /\ go[s].wire = <<>>
    <3>1. CASE ReadFails(s)
      <4> DEFINE g == [go[s] EXCEPT !.repeats = @ + 1]
      <4>0. go[s].repeats + 1 \in Nat
        BY <1>0
      <4>1. /\ g \in Programs /\ g.hand = go[s].hand /\ g.msg = go[s].msg
            /\ g.wire = go[s].wire
        BY <1>0, <4>0 DEF Programs
      <4>2. go' = [go EXCEPT ![s] = Stopped("none")] \/ go' = [go EXCEPT ![s] = g]
        BY <1>0, <3>1 DEF ReadFails, Types
      <4> HIDE DEF g
      <4> QED
        BY <4>1, <4>2, StoppedType
    <3>2. CASE HangUp(s)
      <4> DEFINE g == [go[s] EXCEPT !.open = FALSE]
      <4>1. /\ g \in Programs /\ g.hand = go[s].hand /\ g.msg = go[s].msg
            /\ g.wire = go[s].wire
        BY <1>0 DEF Programs
      <4>2. go' = [go EXCEPT ![s] = g]
        BY <1>0, <3>2 DEF HangUp, Types
      <4> HIDE DEF g
      <4> QED
        BY <4>1, <4>2
    <3>3. CASE Welcome(s)
      <4> DEFINE g == [go[s] EXCEPT !.wire = <<Joined>>]
      <4>1. /\ g \in Programs /\ g.hand = go[s].hand /\ g.msg = go[s].msg
            /\ g.wire = <<Joined>> /\ go[s].wire = <<>>
        BY <1>0, <3>3 DEF Programs, Welcome
      <4>2. go' = [go EXCEPT ![s] = g]
        BY <1>0, <3>3 DEF Welcome, Types
      <4> HIDE DEF g
      <4> QED
        BY <4>1, <4>2
    <3> QED
      BY <1>5, <3>1, <3>2, <3>3
  <2>3. Runs(s) /\ go'[s] = g
    BY <1>0, <2>1, <2>2, RunsIf
  <2> QED
    BY <2>1, <2>2, <2>3
<1> QED
  BY <1>2, <1>3, <1>4, <1>5

-----------------------------------------------------------------------------
(***************************************************************************)
(* The order of the comments.                                              *)
(***************************************************************************)

LEMMA Nothing == 0 \in Lines /\ 0 \in Paths
BY DanmuAssumption DEF Lines, Paths

LEMMA NoComments == Other \notin Comments /\ Plain \notin Comments
BY DanmuAssumption DEF Other, Plain, Comments

\* The queues of a session move on, and its relay does nothing.
LEMMA KeepsOrder ==
  ASSUME NEW s \in Sessions, InOrder(s), Ranged(s)', Coming(s)' \subseteq Coming(s),
         \/ last' \in {last, Other}
         \/ last' \in Coming(s) /\ Behind({last'}, Coming(s)'),
         py'[s].name = py[s].name, py'[s].text = py[s].text, py'[s].pc = py[s].pc,
         shown'[s] = shown[s], said' = said
  PROVE  InOrder(s)'
<1> DEFINE C == Coming(s)
           D == Coming(s)'
           n == py[s].name
           x == py[s].text
           h == shown[s]
<1>1. /\ Behind({last}, C) /\ Behind({x}, {last} \cup C)
      /\ Behind({n}, {x, last} \cup C) /\ Behind({h}, {x, last} \cup C)
  BY DEF InOrder, Read
<1>2. D \subseteq C /\ (last' \in {last, Other} \/ (last' \in C /\ Behind({last'}, D)))
  OBVIOUS
<1>3. \A c \in Comments : c \in C \cup {last, x, n, h} => c <= said
  BY DEF InOrder, Made
<1> HIDE DEF C, D, n, x, h
<1>4. /\ Behind({last'}, D) /\ Behind({x}, {last'} \cup D)
      /\ Behind({n}, {x, last'} \cup D) /\ Behind({h}, {x, last'} \cup D)
  BY <1>1, <1>2, NoComments DEF Behind
<1>5. \A c \in Comments : c \in D \cup {last', x, n, h} => c <= said
  BY <1>2, <1>3, NoComments
<1>6. Read(s)'
  BY <1>4 DEF D, n, x, h, Read, InOrder
<1>7. Made(s)'
  BY <1>5 DEF D, n, x, h, Made
<1> QED
  BY <1>6, <1>7 DEF InOrder

LEMMA Emptied ==
  ASSUME NEW s \in Sessions, go'[s].wire = <<>>, go'[s].hand = <<>>, go'[s].msg = <<>>
  PROVE  Ranged(s)' /\ Coming(s)' = {}
<1>1. OnWire(s)' = {} /\ InHand(s)' = {} /\ InPool(s)' = {}
  BY NoElems DEF OnWire, InHand, InPool
<1> QED
  BY <1>1, NoElems DEF Ranged, Coming, Behind

LEMMA Unmoved ==
  ASSUME NEW s \in Sessions, Ranged(s), go'[s].wire = go[s].wire, go'[s].hand = go[s].hand,
         go'[s].msg = go[s].msg
  PROVE  Ranged(s)' /\ Coming(s)' = Coming(s)
<1>1. OnWire(s)' = OnWire(s) /\ InHand(s)' = InHand(s) /\ InPool(s)' = InPool(s)
  BY DEF OnWire, InHand, InPool
<1> QED
  BY <1>1 DEF Ranged, Coming

LEMMA Welcomed ==
  ASSUME NEW s \in Sessions, Ranged(s), go'[s].wire = <<Joined>>, go[s].wire = <<>>,
         go'[s].hand = go[s].hand, go'[s].msg = go[s].msg
  PROVE  Ranged(s)' /\ Coming(s)' = Coming(s)
<1>1. /\ Elems(Joined) = {} /\ Sorted(Joined) /\ Len(<<Joined>>) = 1
      /\ <<Joined>>[1] = Joined
  BY NoElems DEF Joined
<1>2. Flat(<<Joined>>) = {} /\ Lined(<<Joined>>)
  BY <1>1 DEF Flat, Lined, Behind
<1>3. OnWire(s)' = {} /\ OnWire(s) = {} /\ InHand(s)' = InHand(s) /\ InPool(s)' = InPool(s)
  BY <1>2, NoElems DEF OnWire, InHand, InPool
<1> QED
  BY <1>2, <1>3 DEF Ranged, Coming

LEMMA Received ==
  ASSUME NEW s \in Sessions, go[s].wire \in Seq(Seq(Commands)), go[s].wire # <<>>,
         go[s].hand = <<>>, Ranged(s), go'[s].wire = Tail(go[s].wire),
         go'[s].msg = go[s].msg, go'[s].hand \in {<<>>, Head(go[s].wire)}
  PROVE  Ranged(s)' /\ Coming(s)' \subseteq Coming(s)
<1>1. OnWire(s) = Elems(Head(go[s].wire)) \cup OnWire(s)'
  BY TailFlat DEF OnWire
<1>2. /\ Lined(go'[s].wire) /\ Sorted(Head(go[s].wire))
      /\ Behind(Elems(Head(go[s].wire)), OnWire(s)')
  BY TailFlat DEF Ranged, OnWire
<1>3. /\ InHand(s) = {} /\ InPool(s)' = InPool(s)
      /\ InHand(s)' = {} \/ InHand(s)' = Elems(Head(go[s].wire))
  BY NoElems DEF InHand, InPool
<1>4. Sorted(go'[s].hand) /\ Sorted(go'[s].msg)
  BY <1>2, NoElems DEF Ranged
<1>5. Behind(InHand(s)', OnWire(s)')
  BY <1>2, <1>3 DEF Behind
<1>6. Behind(InPool(s)', InHand(s)' \cup OnWire(s)')
  BY <1>1, <1>3 DEF Ranged, Behind
<1> QED
  BY <1>1, <1>2, <1>3, <1>4, <1>5, <1>6 DEF Ranged, Coming

LEMMA Kept ==
  ASSUME NEW s \in Sessions, go[s].hand \in Seq(Commands), go[s].hand # <<>>,
         go[s].msg \in Seq(Comments), Ranged(s), go'[s].wire = go[s].wire,
         go'[s].hand = Tail(go[s].hand),
         \/ go'[s].msg = go[s].msg
         \/ /\ Head(go[s].hand) \in Comments
            /\ go'[s].msg = Append(go[s].msg, Head(go[s].hand))
  PROVE  Ranged(s)' /\ Coming(s)' \subseteq Coming(s)
<1> DEFINE c == Head(go[s].hand)
<1>1. InHand(s) = {c} \cup InHand(s)' /\ OnWire(s)' = OnWire(s)
  BY TailElems DEF InHand, OnWire
<1>2. /\ Sorted(go'[s].hand) /\ Behind({c}, InHand(s)') /\ Lined(go'[s].wire)
  BY TailElems DEF Ranged, InHand
<1>3. Behind(InHand(s), OnWire(s)) /\ Behind(InPool(s), InHand(s) \cup OnWire(s))
  BY DEF Ranged
<1>4. Behind(InHand(s)', OnWire(s)')
  BY <1>1, <1>3 DEF Behind
<1>5. CASE go'[s].msg = go[s].msg
  <2>1. InPool(s)' = InPool(s) /\ Sorted(go'[s].msg)
    BY <1>5 DEF InPool, Ranged
  <2>2. Behind(InPool(s)', InHand(s)' \cup OnWire(s)')
    BY <1>1, <1>3, <2>1 DEF Behind
  <2> QED
    BY <1>1, <1>2, <1>4, <2>1, <2>2 DEF Ranged, Coming
<1>6. CASE c \in Comments /\ go'[s].msg = Append(go[s].msg, c)
  <2>1. Behind(InPool(s), {c})
    BY <1>1, <1>3 DEF Behind
  <2>2. InPool(s)' = InPool(s) \cup {c} /\ Sorted(go'[s].msg)
    BY <1>6, <2>1, AppendElems, SMTT(30) DEF InPool, Ranged
  <2>3. Behind(InPool(s)', InHand(s)' \cup OnWire(s)')
    BY <1>1, <1>2, <1>3, <2>2 DEF Behind
  <2> QED
    BY <1>1, <1>2, <1>4, <2>2, <2>3 DEF Ranged, Coming
<1> QED
  BY <1>5, <1>6

LEMMA Handled ==
  ASSUME NEW s \in Sessions, go[s].msg \in Seq(Comments), go[s].msg # <<>>, Ranged(s),
         go'[s].wire = go[s].wire, go'[s].hand = go[s].hand, go'[s].msg = Tail(go[s].msg)
  PROVE  /\ Ranged(s)' /\ Coming(s)' \subseteq Coming(s)
         /\ Head(go[s].msg) \in Coming(s) /\ Behind({Head(go[s].msg)}, Coming(s)')
<1> DEFINE c == Head(go[s].msg)
<1>1. InPool(s) = {c} \cup InPool(s)' /\ OnWire(s)' = OnWire(s) /\ InHand(s)' = InHand(s)
  BY TailElems DEF InHand, OnWire, InPool
<1>2. Sorted(go'[s].msg) /\ Behind({c}, InPool(s)')
  BY TailElems DEF Ranged, InPool
<1>3. Behind(InPool(s), InHand(s) \cup OnWire(s))
  BY DEF Ranged
<1> HIDE DEF c
<1>4. /\ Behind(InPool(s)', InHand(s)' \cup OnWire(s)')
      /\ Behind({c}, InPool(s)' \cup InHand(s)' \cup OnWire(s)')
  BY <1>1, <1>2, <1>3 DEF Behind
<1>5. Ranged(s)'
  BY <1>1, <1>2, <1>4 DEF Ranged
<1> QED
  BY <1>1, <1>4, <1>5 DEF Coming, c

\* A step of program s, which writes to the file what it takes out of the channel.
ProgramStep(s) ==
  \/ Launch(s) \/ Dial(s) \/ DialFails(s) \/ EndMain(s) \/ HeartBeatFails(s)
  \/ Receive(s) \/ Put(s) \/ Handle(s) \/ ReadFails(s) \/ HangUp(s) \/ Welcome(s)

LEMMA ProgramSteps ==
  ASSUME Types, NEW s \in Sessions, ProgramStep(s)
  PROVE  Runs(s) /\ (InOrder(s) => InOrder(s)')
<1>0. /\ go[s].wire \in Seq(Seq(Commands)) /\ go[s].hand \in Seq(Commands)
      /\ go[s].msg \in Seq(Comments)
  BY DEF Types, Programs
<1>1. ASSUME Runs(s)
      PROVE  /\ py'[s].name = py[s].name /\ py'[s].text = py[s].text /\ py'[s].pc = py[s].pc
             /\ shown'[s] = shown[s] /\ said' = said
  BY <1>1, ModifyEffect DEF Runs
<1>2. ASSUME InOrder(s) PROVE Ranged(s)
  BY <1>2 DEF InOrder
<1>3. ASSUME NEW pc, go'[s] = Stopped(pc)
      PROVE  go'[s].wire = <<>> /\ go'[s].hand = <<>> /\ go'[s].msg = <<>>
  BY <1>3 DEF Stopped
<1>4. ASSUME NEW f, go'[s] = Started(f)
      PROVE  go'[s].wire = <<>> /\ go'[s].hand = <<>> /\ go'[s].msg = <<>>
  BY <1>4 DEF Started, Stopped
<1>5. CASE Launch(s)
  <2>1. Runs(s) /\ last' = Other
        /\ go'[s].wire = <<>> /\ go'[s].hand = <<>> /\ go'[s].msg = <<>>
    BY <1>4, <1>5, ProgramRuns
  <2>2. Ranged(s)' /\ Coming(s)' = {}
    BY <2>1, Emptied
  <2> QED
    BY <1>1, <2>1, <2>2, KeepsOrder
<1>6. CASE Dial(s) \/ HeartBeatFails(s)
  <2>1. /\ Runs(s) /\ last' \in {last, Other}
        /\ go'[s].wire = go[s].wire /\ go'[s].hand = go[s].hand /\ go'[s].msg = go[s].msg
    BY <1>6, ProgramRuns
  <2> QED
    BY <1>1, <1>2, <2>1, Unmoved, KeepsOrder
<1>7. CASE DialFails(s) \/ EndMain(s)
  <2>1. /\ Runs(s) /\ last' \in {last, Other}
        /\ go'[s].wire = <<>> /\ go'[s].hand = <<>> /\ go'[s].msg = <<>>
    BY <1>3, <1>7, ProgramRuns
  <2>2. Ranged(s)' /\ Coming(s)' = {}
    BY <2>1, Emptied
  <2> QED
    BY <1>1, <2>1, <2>2, KeepsOrder
<1>8. CASE Receive(s)
  <2>1. /\ Runs(s) /\ last' \in {last, Other} /\ go[s].wire # <<>> /\ go[s].hand = <<>>
        /\ go'[s].wire = Tail(go[s].wire) /\ go'[s].msg = go[s].msg
        /\ go'[s].hand \in {<<>>, Head(go[s].wire)}
    BY <1>8, QueueRuns
  <2>2. ASSUME InOrder(s) PROVE Ranged(s)' /\ Coming(s)' \subseteq Coming(s)
    BY <1>0, <1>2, <2>1, <2>2, Received
  <2> QED
    BY <1>1, <2>1, <2>2, KeepsOrder
<1>9. CASE Put(s)
  <2>1. /\ Runs(s) /\ last' = last
        /\ go[s].hand # <<>> /\ go'[s].hand = Tail(go[s].hand)
        /\ go'[s].wire = go[s].wire
        /\ \/ go'[s].msg = go[s].msg
           \/ /\ Head(go[s].hand) \in Comments
              /\ go'[s].msg = Append(go[s].msg, Head(go[s].hand))
    BY <1>9, QueueRuns
  <2>2. ASSUME InOrder(s) PROVE Ranged(s)' /\ Coming(s)' \subseteq Coming(s)
    BY <1>0, <1>2, <2>1, <2>2, Kept
  <2> QED
    BY <1>1, <2>1, <2>2, KeepsOrder
<1>10. CASE Handle(s)
  <2>1. /\ Runs(s) /\ last' \in {last, Head(go[s].msg)}
        /\ go[s].msg # <<>> /\ go'[s].msg = Tail(go[s].msg)
        /\ go'[s].wire = go[s].wire /\ go'[s].hand = go[s].hand
    BY <1>10, QueueRuns
  <2>2. ASSUME InOrder(s)
        PROVE  /\ Ranged(s)' /\ Coming(s)' \subseteq Coming(s)
               /\ Head(go[s].msg) \in Coming(s) /\ Behind({Head(go[s].msg)}, Coming(s)')
    BY <1>0, <1>2, <2>1, <2>2, Handled
  <2> QED
    BY <1>1, <2>1, <2>2, KeepsOrder
<1>11. CASE ReadFails(s) \/ HangUp(s) \/ Welcome(s)
  <2>1. /\ Runs(s) /\ last' = last
        /\ \/ go'[s] = Stopped("none")
           \/ /\ go'[s].hand = go[s].hand /\ go'[s].msg = go[s].msg
              /\ \/ go'[s].wire = go[s].wire
                 \/ go'[s].wire = <<Joined>> /\ go[s].wire = <<>>
    BY <1>11, QueueRuns
  <2>2. CASE go'[s] = Stopped("none")
    <3>1. Ranged(s)' /\ Coming(s)' = {}
      BY <1>3, <2>2, Emptied
    <3> QED
      BY <1>1, <2>1, <3>1, KeepsOrder
  <2>3. ASSUME InOrder(s), go'[s] # Stopped("none")
        PROVE  Ranged(s)' /\ Coming(s)' = Coming(s)
    BY <1>2, <2>1, <2>3, Unmoved, Welcomed
  <2> QED
    BY <1>1, <2>1, <2>2, <2>3, KeepsOrder
<1> QED
  BY <1>5, <1>6, <1>7, <1>8, <1>9, <1>10, <1>11 DEF ProgramStep

\* send.py reads the last line for the name, then for the text, and tells both.
LEMMA RelaySteps ==
  ASSUME Types, NEW s \in Sessions, PyStep(s)
  PROVE  /\ Types' /\ (InOrder(s) => InOrder(s)')
         /\ script[s] = "loop" \/ py[s].pc # "off"
         /\ UNCHANGED <<script, path, last, go, said, alone>>
         /\ \A t \in Sessions \ {s} : py'[t] = py[t] /\ shown'[t] = shown[t]
<1>0. /\ py[s] \in Relays /\ Other \in Lines /\ last \in Lines /\ path \in Paths
      /\ shown[s] \in Lines
  BY DanmuAssumption DEF Types, Other, Lines
<1>1. /\ UNCHANGED <<script, path, last, go, said, alone>>
      /\ script[s] = "loop" \/ py[s].pc # "off"
      /\ Ranged(s)' = Ranged(s) /\ Coming(s)' = Coming(s)
  BY DEF PyStep, RelayStart, ReadName, ReadText, Tell, TellAgain, TellHangs, Ranged, Coming, OnWire,
         InHand, InPool
<1>2. ASSUME NEW p \in Relays, py' = [py EXCEPT ![s] = p],
             shown' \in [Sessions -> Lines], \A t \in Sessions \ {s} : shown'[t] = shown[t],
             \/ /\ p.pc \in {"idle"} /\ p.name = Other /\ p.text = Other
                /\ \/ shown' = shown
                   \/ py[s].text # Other /\ shown'[s] = py[s].text
             \/ /\ py[s].pc = "idle" /\ p.pc = "text" /\ p.name = last
                /\ p.text = py[s].text /\ shown' = shown
             \/ /\ py[s].pc = "text" /\ p.pc = "tell" /\ p.name = py[s].name
                /\ p.text = last /\ shown' = shown
             \/ /\ py[s].pc = "tell" /\ p.pc \in {"tell", "hung"} /\ p.name = py[s].name
                /\ p.text = py[s].text
                /\ \/ shown' = shown
                   \/ py[s].text # Other /\ shown'[s] = py[s].text
      PROVE  /\ Types' /\ (InOrder(s) => InOrder(s)')
             /\ \A t \in Sessions \ {s} : py'[t] = py[t] /\ shown'[t] = shown[t]
  <2>1. py'[s] = p /\ py' \in [Sessions -> Relays]
        /\ \A t \in Sessions \ {s} : py'[t] = py[t] /\ shown'[t] = shown[t]
    BY <1>2 DEF Types
  <2>2. Types'
    BY <1>1, <1>2, <2>1 DEF Types
  <2> DEFINE C == Coming(s)
             n == py[s].name
             x == py[s].text
             h == shown[s]
  <2>3. ASSUME InOrder(s) PROVE InOrder(s)'
    <3>1. /\ Behind({last}, C) /\ Behind({x}, {last} \cup C)
          /\ Behind({n}, {x, last} \cup C) /\ Behind({h}, {x, last} \cup C)
          /\ py[s].pc \notin {"tell", "hung"} => x = Other
          /\ py[s].pc \notin {"text", "tell", "hung"} => n = Other
      BY <2>3 DEF InOrder, Read
    <3>2. \A c \in Comments : c \in C \cup {last, x, n, h} => c <= said
      BY <2>3 DEF InOrder, Made
    <3> DEFINE m == p.name
               y == p.text
               k == shown'[s]
    <3>3. \/ m = Other /\ y = Other /\ (k = h \/ k = x)
          \/ x = Other /\ m = last /\ y = x /\ k = h
          \/ x = Other /\ m = n /\ y = last /\ k = h
          \/ m = n /\ y = x /\ (k = h \/ k = x)
      BY <1>2, <3>1
    <3> HIDE DEF C, n, x, h, m, y, k
    <3>4. /\ Behind({last}, C) /\ Behind({y}, {last} \cup C)
          /\ Behind({m}, {y, last} \cup C) /\ Behind({k}, {y, last} \cup C)
      <4>1. \A c \in Comments : c <= c
        BY DanmuAssumption DEF Comments
      <4> QED
        BY <3>1, <3>3, <4>1, NoComments DEF Behind
    <3>5. \A c \in Comments : c \in C \cup {last, y, m, k} => c <= said
      BY <3>2, <3>3, NoComments
    <3>6. /\ p.pc \notin {"tell", "hung"} => y = Other
          /\ p.pc \notin {"text", "tell", "hung"} => m = Other
      BY <1>2, <3>1 DEF x, y, m
    <3>7. Read(s)'
      BY <1>1, <2>1, <3>4, <3>6 DEF C, m, y, k, Read
    <3>8. Made(s)'
      BY <1>1, <2>1, <3>5 DEF C, m, y, k, Made
    <3> QED
      BY <1>1, <2>3, <3>7, <3>8 DEF InOrder
  <2> QED
    BY <2>1, <2>2, <2>3
<1>3. CASE RelayStart(s)
  <2> DEFINE p == [NoRelay EXCEPT !.pc = "idle", !.watch = path]
  <2>1. p \in Relays /\ p.pc = "idle" /\ p.name = Other /\ p.text = Other
    BY <1>0, StoppedType DEF NoRelay
  <2>2. py' = [py EXCEPT ![s] = p] /\ shown' = shown
    BY <1>3 DEF RelayStart
  <2> HIDE DEF p
  <2> QED
    BY <1>1, <1>2, <2>1, <2>2 DEF Types
<1>4. CASE ReadName(s)
  <2> DEFINE p == [py[s] EXCEPT !.pc = "text", !.queued = FALSE, !.name = last]
  <2>1. p \in Relays /\ p.pc = "text" /\ p.name = last /\ p.text = py[s].text
    BY <1>0 DEF Relays
  <2>2. py' = [py EXCEPT ![s] = p] /\ shown' = shown /\ py[s].pc = "idle"
    BY <1>4 DEF ReadName
  <2> HIDE DEF p
  <2> QED
    BY <1>1, <1>2, <2>1, <2>2 DEF Types
<1>5. CASE ReadText(s)
  <2> DEFINE p == [py[s] EXCEPT !.pc = "tell", !.text = last]
  <2>1. p \in Relays /\ p.pc = "tell" /\ p.name = py[s].name /\ p.text = last
    BY <1>0 DEF Relays
  <2>2. py' = [py EXCEPT ![s] = p] /\ shown' = shown /\ py[s].pc = "text"
    BY <1>5 DEF ReadText
  <2> HIDE DEF p
  <2> QED
    BY <1>1, <1>2, <2>1, <2>2 DEF Types
<1>6. ASSUME Told(s) \/ UNCHANGED shown
      PROVE  /\ shown' \in [Sessions -> Lines]
             /\ \A t \in Sessions \ {s} : shown'[t] = shown[t]
             /\ shown' = shown \/ (py[s].text # Other /\ shown'[s] = py[s].text)
  BY <1>0, <1>6 DEF Told, Types, Relays
<1>8. ASSUME Idle(s), Told(s) \/ UNCHANGED shown
      PROVE  /\ Types' /\ (InOrder(s) => InOrder(s)')
             /\ \A t \in Sessions \ {s} : py'[t] = py[t] /\ shown'[t] = shown[t]
  <2> DEFINE p == [py[s] EXCEPT !.pc = "idle", !.name = Other, !.text = Other, !.depth = 0]
  <2>1. p \in Relays /\ p.pc = "idle" /\ p.name = Other /\ p.text = Other
    BY <1>0 DEF Relays
  <2>2. py' = [py EXCEPT ![s] = p]
    BY <1>8 DEF Idle
  <2> HIDE DEF p
  <2> QED
    BY <1>2, <1>6, <1>8, <2>1, <2>2
<1>9. CASE Tell(s)
  BY <1>1, <1>8, <1>9 DEF Tell
<1>10. CASE TellAgain(s)
  <2> DEFINE p == [py[s] EXCEPT !.depth = @ + 1]
  <2>0. py[s].depth + 1 \in Nat
    BY <1>0 DEF Relays
  <2>1. p \in Relays /\ p.pc = py[s].pc /\ p.name = py[s].name /\ p.text = py[s].text
    BY <1>0, <2>0 DEF Relays
  <2>2. /\ Idle(s) \/ py' = [py EXCEPT ![s] = p]
        /\ Told(s) \/ UNCHANGED shown
        /\ py[s].pc = "tell"
    BY <1>0, <1>10 DEF TellAgain, Types
  <2> HIDE DEF p
  <2>3. CASE py' = [py EXCEPT ![s] = p]
    BY <1>1, <1>2, <1>6, <2>1, <2>2, <2>3
  <2> QED
    BY <1>1, <1>8, <2>2, <2>3
<1>7. CASE TellHangs(s)
  <2> DEFINE p == [py[s] EXCEPT !.pc = "hung"]
  <2>1. p \in Relays /\ p.pc = "hung" /\ p.name = py[s].name /\ p.text = py[s].text
    BY <1>0 DEF Relays
  <2>2. py' = [py EXCEPT ![s] = p] /\ shown' = shown /\ py[s].pc = "tell"
    BY <1>0, <1>7 DEF TellHangs, Types
  <2> HIDE DEF p
  <2> QED
    BY <1>1, <1>2, <2>1, <2>2 DEF Types
<1> QED
  BY <1>1, <1>3, <1>4, <1>5, <1>7, <1>9, <1>10 DEF PyStep

\* A packet that the room's server sends holds comments newer than all before.
Newest(packet) ==
  /\ packet \in Seq(Commands) /\ Sorted(packet)
  /\ said' \in Lines /\ said <= said'
  /\ \A c \in Elems(packet) \cap Comments : said <= c /\ c <= said'
  /\ Broadcast(packet) /\ UNCHANGED <<script, path, last, py, shown, alone>>

LEMMA SpeakIsNewest ==
  ASSUME Types, Say \/ SendPlain
  PROVE  \E packet : Newest(packet)
<1>0. said \in Nat /\ MaxSaid \in Nat /\ said \in Lines
  BY DanmuAssumption DEF Types, Lines
<1>1. CASE SendPlain
  <2>1. /\ <<Plain>> \in Seq(Commands) /\ Len(<<Plain>>) = 1 /\ <<Plain>>[1] = Plain
    BY DanmuAssumption DEF Commands, Plain
  <2>2. Elems(<<Plain>>) \cap Comments = {} /\ Sorted(<<Plain>>)
    BY <2>1, NoComments DEF Elems, Sorted
  <2>3. Broadcast(<<Plain>>) /\ UNCHANGED <<script, path, last, py, said, shown, alone>>
    BY <1>1 DEF SendPlain
  <2>4. said' \in Lines /\ said <= said'
    BY <1>0, <2>3
  <2>5. Newest(<<Plain>>)
    BY <2>1, <2>2, <2>3, <2>4 DEF Newest
  <2> QED
    BY <2>5
<1>2. CASE Say
  <2>1. PICK packet \in {<<said + 1>>, <<said + 1, Other, said + 2>>} :
           Broadcast(packet) /\ said' = packet[Len(packet)]
    BY <1>2 DEF Say
  <2>2. said' <= MaxSaid /\ UNCHANGED <<script, path, last, py, shown, alone>>
    BY <1>2 DEF Say
  <2>3. CASE packet = <<said + 1>>
    <3> DEFINE q == <<said + 1>>
    <3>1. /\ said' = said + 1 /\ said' \in Lines /\ said <= said'
          /\ q \in Seq(Commands) /\ Len(q) = 1 /\ q[1] = said + 1
      BY <1>0, <2>1, <2>2, <2>3 DEF Lines, Commands
    <3> HIDE DEF q
    <3>2. Elems(q) = {said + 1}
      BY <3>1 DEF Elems
    <3>3. Sorted(q)
      BY <3>1 DEF Sorted
    <3>4. \A c \in Elems(q) \cap Comments : said <= c /\ c <= said'
      BY <1>0, <3>1, <3>2
    <3> QED
      BY <2>1, <2>2, <2>3, <3>1, <3>3, <3>4 DEF Newest, q
  <2>4. CASE packet = <<said + 1, Other, said + 2>>
    <3> DEFINE q == <<said + 1, Other, said + 2>>
    <3>1. /\ said' = said + 2 /\ said' \in Lines /\ said <= said'
          /\ said + 1 \in Commands /\ said + 2 \in Commands /\ Other \in Commands
      BY <1>0, <2>1, <2>2, <2>4 DEF Lines, Commands, Other
    <3>2. /\ q \in Seq(Commands) /\ Len(q) = 3
          /\ q[1] = said + 1 /\ q[2] = Other /\ q[3] = said + 2
      BY <3>1
    <3> HIDE DEF q
    <3>3. \A i \in 1..Len(q) : i = 1 \/ i = 2 \/ i = 3
      BY <3>2
    <3>4. \A c \in Elems(q) : c \in {said + 1, Other, said + 2}
      BY <3>2, <3>3 DEF Elems
    <3>5. Sorted(q)
      <4> SUFFICES ASSUME NEW i \in 1..Len(q), NEW j \in 1..Len(q), i < j
                   PROVE  Behind({q[i]}, {q[j]})
        BY DEF Sorted
      <4>1. q[i] = Other \/ q[j] = Other \/ (q[i] = said + 1 /\ q[j] = said + 2)
        BY <3>2, <3>3
      <4>2. Other \notin Comments /\ said + 1 <= said + 2
        BY <1>0, NoComments
      <4> QED
        BY <4>1, <4>2 DEF Behind
    <3>6. \A c \in Elems(q) \cap Comments : said <= c /\ c <= said'
      BY <1>0, <3>1, <3>4, NoComments
    <3> QED
      BY <2>1, <2>2, <2>4, <3>1, <3>2, <3>5, <3>6 DEF Newest, q
  <2> QED
    BY <2>1, <2>3, <2>4
<1> QED
  BY <1>1, <1>2

LEMMA SpeakSteps ==
  ASSUME Types, NEW packet, Newest(packet)
  PROVE  /\ Types'
         /\ \A s \in Sessions : (InOrder(s) => InOrder(s)') /\ go'[s].pc = go[s].pc
         /\ \A s \in Sessions : go[s].pc = "off" /\ Still(s) => Still(s)'
<1>1. \A s \in Sessions : go[s] \in Programs /\ go[s].wire \in Seq(Seq(Commands))
  BY DEF Types, Programs
<1>2. ASSUME NEW s \in Sessions
      PROVE  /\ go'[s] \in Programs
             /\ go'[s].hand = go[s].hand /\ go'[s].msg = go[s].msg
             /\ go'[s].pc = go[s].pc /\ go'[s].open = go[s].open
             /\ \/ go'[s].wire = go[s].wire
                \/ Follows(s) /\ go'[s].wire = Append(go[s].wire, packet)
  <2> DEFINE g == [go[s] EXCEPT !.wire = Append(@, packet)]
  <2>1. Append(go[s].wire, packet) \in Seq(Seq(Commands))
    BY <1>1, AppendFlat DEF Newest
  <2>2. /\ g \in Programs /\ g.hand = go[s].hand /\ g.msg = go[s].msg
        /\ g.pc = go[s].pc /\ g.open = go[s].open /\ g.wire = Append(go[s].wire, packet)
    BY <1>1, <2>1 DEF Programs
  <2>3. go'[s] = go[s] \/ (Follows(s) /\ go'[s] = g)
    BY DEF Newest, Broadcast
  <2> HIDE DEF g
  <2> QED
    BY <1>1, <2>2, <2>3
<1>3. go' \in [Sessions -> Programs]
  BY <1>2 DEF Newest, Broadcast
<1>4. Types'
  BY <1>3 DEF Types, Newest
<1>5. ASSUME NEW s \in Sessions, InOrder(s) PROVE InOrder(s)'
  <2>0. Ranged(s)
    BY <1>5 DEF InOrder
  <2>1. CASE go'[s].wire = go[s].wire
    <3>1. Ranged(s)' /\ Coming(s)' = Coming(s)
      BY <1>2, <2>0, <2>1, Unmoved
    <3>2. Read(s)'
      BY <1>5, <3>1 DEF InOrder, Read, Newest
    <3>3. \A c \in Comments : c <= said => c <= said'
      BY DanmuAssumption DEF Comments, Newest, Types, Lines
    <3>4. Made(s)'
      BY <1>5, <3>1, <3>3 DEF InOrder, Made, Newest
    <3> QED
      BY <3>1, <3>2, <3>4 DEF InOrder
  <2>2. CASE go'[s].wire = Append(go[s].wire, packet)
    <3> DEFINE P == Elems(packet)
    <3>1. /\ OnWire(s)' = OnWire(s) \cup P /\ InHand(s)' = InHand(s) /\ InPool(s)' = InPool(s)
          /\ Coming(s)' = Coming(s) \cup P
      BY <1>1, <1>2, <2>2, AppendFlat DEF OnWire, InHand, InPool, Coming, Newest
    <3>2. /\ \A c \in Comments :
               c \in Coming(s) \cup {last, py[s].text, py[s].name, shown[s]} => c <= said
          /\ \A c \in P \cap Comments : said <= c /\ c <= said'
          /\ \A c \in Comments : c <= said => c <= said'
      BY <1>5, DanmuAssumption DEF InOrder, Made, Newest, Comments, Types, Lines
    <3> HIDE DEF P
    <3>3. \A c \in (Coming(s) \cup {last, py[s].text, py[s].name, shown[s]}) \cap Comments :
            \A d \in P \cap Comments : c <= d
      <4>1. \A c, d \in Comments : c <= said /\ said <= d => c <= d
        BY DanmuAssumption DEF Comments, Types, Lines
      <4> QED
        BY <3>2, <4>1
    <3>4. Behind(OnWire(s), P) /\ Behind(InHand(s), P) /\ Behind(InPool(s), P)
      BY <3>3 DEF Behind, Coming
    <3>5. Lined(go'[s].wire)
      BY <1>1, <2>0, <2>2, <3>4, AppendFlat DEF Ranged, OnWire, Newest, P
    <3>6. Ranged(s)'
      BY <1>2, <2>0, <3>1, <3>4, <3>5 DEF Ranged, Behind
    <3>7. Read(s)'
      <4>1. UNCHANGED <<last, py, shown>>
        BY DEF Newest
      <4> QED
        BY <1>5, <3>1, <3>3, <4>1 DEF InOrder, Read, Behind
    <3>8. Made(s)'
      BY <3>1, <3>2 DEF Made, Newest
    <3> QED
      BY <3>6, <3>7, <3>8 DEF InOrder
  <2> QED
    BY <1>2, <2>1, <2>2
<1>6. ASSUME NEW s \in Sessions, Still(s) PROVE Still(s)'
  BY <1>2, <1>6 DEF Still, Follows, Newest
<1> QED
  BY <1>2, <1>4, <1>5, <1>6

\* Nothing is written, and the queues of a player stay or are emptied.
LEMMA Undisturbed ==
  ASSUME NEW t \in Sessions, InOrder(t), UNCHANGED <<py, shown, said>>,
         last' \in {last, Other}, go'[t] = go[t] \/ \E pc : go'[t] = Stopped(pc)
  PROVE  InOrder(t)'
<1>1. Ranged(t)
  BY DEF InOrder
<1>2. CASE go'[t] = go[t]
  <2>1. Ranged(t)' /\ Coming(t)' = Coming(t)
    BY <1>1, <1>2, Unmoved
  <2> QED
    BY <2>1, KeepsOrder
<1>3. CASE \E pc : go'[t] = Stopped(pc)
  <2>1. go'[t].wire = <<>> /\ go'[t].hand = <<>> /\ go'[t].msg = <<>>
    BY <1>3 DEF Stopped
  <2>2. Ranged(t)' /\ Coming(t)' = {}
    BY <2>1, Emptied
  <2> QED
    BY <2>2, KeepsOrder
<1> QED
  BY <1>2, <1>3

\* The steps of start.sh and its trap.
LEMMA ShellSteps ==
  ASSUME OrderInv, NEW s \in Sessions, ShellStep(s)
  PROVE  OrderInv'
<1>0. /\ Types /\ Sole /\ \A t \in alone : InOrder(t)
      /\ 0 \in Lines /\ 0 \in Paths /\ NoRelay \in Relays
      /\ \A pc \in {"off", "new"} : Stopped(pc) \in Programs
  BY Nothing, StoppedType, Zenon DEF OrderInv
<1>1. \A pc : /\ Stopped(pc).pc = pc /\ ~ Stopped(pc).open /\ Stopped(pc).wire = <<>>
              /\ Stopped(pc).hand = <<>> /\ Stopped(pc).msg = <<>>
  BY DEF Stopped
<1>2. CASE StartBili(s)
  <2>1. /\ script[s] = "off" /\ script' = [script EXCEPT ![s] = "quit"]
        /\ path' = 0 /\ last' = 0 /\ alone' = {} /\ UNCHANGED <<go, py, said, shown>>
    BY <1>2 DEF StartBili, RemoveFile, Other
  <2>2. Types'
    BY <1>0, <2>1 DEF Types
  <2>3. Sole'
    BY <1>0, <2>1 DEF Sole, Still, Silent, Types
  <2> QED
    BY <2>1, <2>2, <2>3 DEF OrderInv
<1>3. CASE QuitOld(s)
  <2>1. /\ script[s] = "quit" /\ script' = [script EXCEPT ![s] = "launch"]
        /\ go' = [go EXCEPT ![s] = Stopped("off")]
        /\ UNCHANGED <<path, last, py, said, shown>>
        /\ \/ alone' = {}
           \/ /\ alone' = {s} /\ last = Other
              /\ \A t \in Sessions \ {s} : ~ Busy(t)
    BY <1>3 DEF QuitOld
  <2>2. Types'
    BY <1>0, <2>1 DEF Types
  <2>3. go'[s] = Stopped("off") /\ script'[s] = "launch"
        /\ \A t \in Sessions \ {s} : go'[t] = go[t] /\ script'[t] = script[t]
    BY <1>0, <2>1 DEF Types
  <2>4. /\ \A t \in Sessions : go'[t].pc = "off" => Still(t)'
        /\ \A t \in Sessions : script'[t] # "loop" => Silent(t)'
    BY <1>0, <1>1, <2>1, <2>3 DEF Sole, Still, Silent
  <2>5. \A t \in Sessions \ {s} : Busy(t)' <=> Busy(t)
    BY <2>3 DEF Busy
  <2>6. Sole'
    BY <2>1, <2>4, <2>5 DEF Sole
  <2>7. ASSUME last = Other PROVE InOrder(s)'
    <3>1. Ranged(s)' /\ Coming(s)' = {}
      BY <1>1, <2>3, Emptied
    <3>2. /\ py'[s].pc = "off" /\ py'[s].name = 0 /\ py'[s].text = 0 /\ shown'[s] = 0
          /\ last' = 0
      BY <1>0, <2>1, <2>7 DEF Sole, Silent, Other
    <3>3. Read(s)' /\ Made(s)'
      BY <3>1, <3>2, NoComments DEF Read, Made, Behind, Other
    <3> QED
      BY <3>1, <3>3 DEF InOrder
  <2> QED
    BY <2>1, <2>2, <2>6, <2>7 DEF OrderInv
<1>4. CASE NewSession(s)
  <2>1. /\ script[s] = "launch" /\ script' = [script EXCEPT ![s] = "trap"]
        /\ go' = [go EXCEPT ![s] = Stopped("new")]
        /\ UNCHANGED <<path, last, py, said, shown, alone>>
    BY <1>4 DEF NewSession
  <2>2. Types'
    BY <1>0, <2>1 DEF Types
  <2>3. go'[s] = Stopped("new") /\ script'[s] = "trap"
        /\ \A t \in Sessions \ {s} : go'[t] = go[t] /\ script'[t] = script[t]
    BY <1>0, <2>1 DEF Types
  <2>4. /\ \A t \in Sessions : go'[t].pc = "off" => Still(t)'
        /\ \A t \in Sessions : script'[t] # "loop" => Silent(t)'
    BY <1>0, <1>1, <2>1, <2>3 DEF Sole, Still, Silent
  <2>5. Busy(s) /\ \A t \in Sessions \ {s} : Busy(t)' <=> Busy(t)
    BY <2>1, <2>3 DEF Busy
  <2>6. Sole'
    BY <1>0, <2>1, <2>4, <2>5 DEF Sole, Types
  <2>7. \A t \in alone' : InOrder(t)'
    BY <1>0, <2>1, <2>3, Undisturbed DEF Types
  <2> QED
    BY <2>2, <2>6, <2>7 DEF OrderInv
<1>5. CASE SetTrap(s)
  <2>1. /\ script[s] = "trap" /\ script' = [script EXCEPT ![s] = "loop"]
        /\ UNCHANGED <<path, last, go, py, said, shown, alone>>
    BY <1>5 DEF SetTrap
  <2>2. Types'
    BY <1>0, <2>1 DEF Types
  <2>3. \A t \in Sessions : Busy(t)' <=> Busy(t)
    BY <1>0, <2>1 DEF Busy, Types
  <2>4. Sole'
    BY <1>0, <2>1, <2>3 DEF Sole, Still, Silent, Types
  <2>5. \A t \in alone' : InOrder(t)'
    BY <1>0, <2>1, Undisturbed DEF Types
  <2> QED
    BY <2>2, <2>4, <2>5 DEF OrderInv
<1>6. CASE StopBili(s)
  <2>1. /\ script[s] # "off" /\ script' = [script EXCEPT ![s] = "off"]
        /\ py' = [py EXCEPT ![s] = NoRelay] /\ shown' = [shown EXCEPT ![s] = 0]
        /\ alone' = alone \ {s} /\ UNCHANGED <<path, last, go, said>>
    BY <1>6 DEF StopBili
  <2>2. Types'
    BY <1>0, <2>1 DEF Types
  <2>3. alone' = {}
    BY <1>0, <2>1 DEF Sole, Busy
  <2>4. /\ py'[s] = NoRelay /\ shown'[s] = 0
        /\ \A t \in Sessions \ {s} : /\ py'[t] = py[t] /\ shown'[t] = shown[t]
                                     /\ script'[t] = script[t]
    BY <1>0, <2>1 DEF Types
  <2>5. Sole'
    BY <1>0, <2>1, <2>3, <2>4 DEF Sole, Still, Silent, NoRelay
  <2> QED
    BY <2>2, <2>3, <2>5 DEF OrderInv
<1>7. CASE TrapQuits(s)
  <2>1. /\ go' = [go EXCEPT ![s] = Stopped("off")]
        /\ UNCHANGED <<script, path, last, py, said, shown, alone>>
    BY <1>7 DEF TrapQuits
  <2>2. Types'
    BY <1>0, <2>1 DEF Types
  <2>3. go'[s] = Stopped("off") /\ \A t \in Sessions \ {s} : go'[t] = go[t]
    BY <1>0, <2>1 DEF Types
  <2>4. \A t \in Sessions : Busy(t)' => Busy(t)
    BY <1>1, <2>1, <2>3 DEF Busy
  <2>5. Sole'
    BY <1>0, <1>1, <2>1, <2>3, <2>4 DEF Sole, Still, Silent
  <2>6. \A t \in alone' : InOrder(t)'
    BY <1>0, <2>1, <2>3, Undisturbed DEF Types
  <2> QED
    BY <2>2, <2>5, <2>6 DEF OrderInv
<1>8. CASE TrapRemoves(s)
  <2>1. path' = 0 /\ last' = Other /\ UNCHANGED <<script, go, py, said, shown, alone>>
    BY <1>8 DEF TrapRemoves, RemoveFile
  <2>2. Types'
    BY <1>0, <2>1 DEF Types, Other
  <2>3. Sole'
    BY <1>0, <2>1 DEF Sole, Still, Silent, Busy
  <2>4. \A t \in alone' : InOrder(t)'
    BY <1>0, <2>1, Undisturbed DEF Types
  <2> QED
    BY <2>2, <2>3, <2>4 DEF OrderInv
<1> QED
  BY <1>2, <1>3, <1>4, <1>5, <1>6, <1>7, <1>8 DEF ShellStep

\* A program without a session does nothing, and one that does something goes on
\* having its session.
LEMMA OffStays ==
  ASSUME Types, Sole, NEW s \in Sessions, ProgramStep(s)
  PROVE  go[s].pc # "off" /\ go'[s].pc # "off"
<1>1. ASSUME go[s].pc = "off" PROVE FALSE
  BY <1>1 DEF Sole, Still, ProgramStep, Launch, Dial, DialFails, EndMain, HeartBeatFails,
              Receive, Put, Handle, ReadFails, HangUp, Welcome
<1>2. go[s] \in Programs /\ \A g : go' = [go EXCEPT ![s] = g] => go'[s] = g
  BY DEF Types
<1>3. \A f : Started(f).pc = "dial" /\ Stopped("none").pc = "none"
  BY DEF Started, Stopped
<1>4. CASE Launch(s) \/ DialFails(s) \/ EndMain(s)
  BY <1>2, <1>3, <1>4 DEF Launch, DialFails, EndMain
<1>5. CASE Dial(s)
  BY <1>2, <1>5 DEF Dial, Types, Programs
<1>9. CASE HeartBeatFails(s)
  BY <1>1, <1>9 DEF HeartBeatFails
<1>10. CASE HangUp(s) \/ Welcome(s)
  BY <1>1, <1>2, <1>10 DEF HangUp, Welcome, Types, Programs
<1>11. CASE Handle(s)
  <2> DEFINE g == [go[s] EXCEPT !.msg = Tail(@), !.printed = @ \cup {Head(go[s].msg)}]
  <2>1. go' = [go EXCEPT ![s] = g]
    BY <1>2, <1>11 DEF Handle, Types
  <2>2. g.pc = go[s].pc
    BY <1>2 DEF Programs
  <2> HIDE DEF g
  <2> QED
    BY <1>1, <1>2, <2>1, <2>2
<1>6. CASE Receive(s)
  <2> DEFINE rest == [go[s] EXCEPT !.wire = Tail(@)]
             g == [rest EXCEPT !.connected = TRUE]
             h == [rest EXCEPT !.hand = Head(go[s].wire)]
  <2>1. \E p \in {g, h} : go' = [go EXCEPT ![s] = p]
    BY <1>6 DEF Receive
  <2>2. g.pc = go[s].pc /\ h.pc = go[s].pc
    BY <1>2 DEF Programs
  <2> HIDE DEF g, h
  <2> QED
    BY <1>1, <1>2, <2>1, <2>2
<1>7. CASE Put(s)
  <2> DEFINE rest == [go[s] EXCEPT !.hand = Tail(@)]
             g == [rest EXCEPT !.uncompressed = @ + 1]
             h == [rest EXCEPT !.msg = Append(@, Head(go[s].hand))]
  <2>1. \E p \in {rest, g, h} : go' = [go EXCEPT ![s] = p]
    BY <1>7 DEF Put
  <2>2. rest.pc = go[s].pc /\ g.pc = go[s].pc /\ h.pc = go[s].pc
    BY <1>2 DEF Programs
  <2> HIDE DEF rest, g, h
  <2> QED
    BY <1>1, <1>2, <2>1, <2>2
<1>8. CASE ReadFails(s)
  BY <1>1, <1>2, <1>3, <1>8 DEF ReadFails, Types, Programs
<1> QED
  BY <1>1, <1>4, <1>5, <1>6, <1>7, <1>8, <1>9, <1>10, <1>11 DEF ProgramStep

\* A step of one player's programs leaves the queues of the others alone.
LEMMA OthersStay ==
  ASSUME Types, NEW s \in Sessions, Runs(s)
  PROVE  /\ \A t \in Sessions \ {s} : go'[t] = go[t]
         /\ \A t \in Sessions : Silent(t) => Silent(t)'
<1>1. \A t \in Sessions \ {s} : go'[t] = go[t]
  BY DEF Runs, Types
<1>2. \A t \in Sessions :
        py'[t].name = py[t].name /\ py'[t].text = py[t].text /\ py'[t].pc = py[t].pc
  BY ModifyEffect DEF Runs
<1> QED
  BY <1>1, <1>2 DEF Silent, Runs

-----------------------------------------------------------------------------

LEMMA OrderInit ==
  ASSUME Init
  PROVE  OrderInv
<1>1. 0 \in Lines /\ 0 \in Paths /\ Stopped("off") \in Programs /\ NoRelay \in Relays
  BY Nothing, StoppedType, Zenon
<1>2. Types
  BY <1>1 DEF Init, Types, Other
<1>3. \A s \in Sessions : go[s] = Stopped("off") /\ py[s] = NoRelay /\ shown[s] = 0
  BY DEF Init
<1>4. Sole
  BY <1>3 DEF Init, Sole, Still, Silent, Stopped, NoRelay
<1> QED
  BY <1>2, <1>4 DEF OrderInv, Init

LEMMA OrderStep ==
  ASSUME OrderInv, [Next]_vars
  PROVE  OrderInv'
<1>0. Types /\ Sole /\ alone \subseteq Sessions
  BY DEF OrderInv, Types
<1>1. ASSUME NEW s \in Sessions, ProgramStep(s) PROVE OrderInv'
  <2>1. Runs(s) /\ (InOrder(s) => InOrder(s)') /\ Types'
    BY <1>0, <1>1, ProgramSteps, RunsTypes
  <2>2. go[s].pc # "off" /\ go'[s].pc # "off"
    BY <1>0, <1>1, OffStays
  <2>3. script' = script /\ alone' = alone
    BY <2>1 DEF Runs
  <2>4. /\ \A t \in Sessions \ {s} : go'[t] = go[t]
        /\ \A t \in Sessions : Silent(t) => Silent(t)'
    BY <1>0, <2>1, OthersStay
  <2>5. \A t \in Sessions : Busy(t)' <=> Busy(t)
    BY <2>2, <2>3, <2>4 DEF Busy
  <2>6. Sole'
    BY <1>0, <2>2, <2>3, <2>4, <2>5 DEF Sole, Still
  <2>7. \A t \in alone' : t = s
    BY <1>0, <2>2, <2>3 DEF Sole, Busy
  <2> QED
    BY <2>1, <2>3, <2>6, <2>7 DEF OrderInv
<1>2. ASSUME NEW s \in Sessions, PyStep(s) PROVE OrderInv'
  <2>1. /\ Types' /\ (InOrder(s) => InOrder(s)')
        /\ script[s] = "loop" \/ py[s].pc # "off"
        /\ UNCHANGED <<script, path, last, go, said, alone>>
        /\ \A t \in Sessions \ {s} : py'[t] = py[t] /\ shown'[t] = shown[t]
    BY <1>0, <1>2, RelaySteps
  <2>2. script[s] = "loop"
    BY <1>0, <2>1 DEF Sole, Silent
  <2>3. Sole'
    BY <1>0, <2>1, <2>2 DEF Sole, Still, Silent, Busy
  <2>4. \A t \in alone' : t = s
    BY <1>0, <2>1, <2>2 DEF Sole, Busy
  <2> QED
    BY <2>1, <2>3, <2>4 DEF OrderInv
<1>3. ASSUME NEW s \in Sessions, ShellStep(s) PROVE OrderInv'
  BY <1>3, ShellSteps
<1>5. ASSUME Say \/ SendPlain PROVE OrderInv'
  <2>1. PICK packet : Newest(packet)
    BY <1>0, <1>5, SpeakIsNewest
  <2>2. /\ Types'
        /\ \A s \in Sessions : (InOrder(s) => InOrder(s)') /\ go'[s].pc = go[s].pc
        /\ \A s \in Sessions : go[s].pc = "off" /\ Still(s) => Still(s)'
    BY <1>0, <2>1, SpeakSteps
  <2>3. UNCHANGED <<script, py, shown, alone>>
    BY <2>1 DEF Newest
  <2>4. Sole'
    BY <1>0, <2>2, <2>3 DEF Sole, Silent, Busy
  <2> QED
    BY <1>0, <2>2, <2>3, <2>4 DEF OrderInv
<1>6. ASSUME UNCHANGED vars PROVE OrderInv'
  BY <1>6 DEF OrderInv, vars, Types, Sole, Still, Silent, Busy, InOrder, Ranged, Read, Made,
              Coming, OnWire, InHand, InPool
<1>7. CASE \E s \in Sessions : ProgramStep(s) \/ PyStep(s) \/ ShellStep(s)
  BY <1>1, <1>2, <1>3, <1>7
<1> QED
  BY <1>5, <1>6, <1>7 DEF Next, GoStep, ProgramStep

\* The comments on the wire, in the receiver's hand, in the channel, in the last
\* line of the file and in send.py are in order, in every reachable state.
THEOREM CommentsAreInOrder == Spec => []OrderInv
<1>1. Init => OrderInv
  BY OrderInit
<1>2. OrderInv /\ [Next]_vars => OrderInv'
  BY OrderStep
<1> QED
  BY <1>1, <1>2, PTL DEF Spec

\* A player who has the file of the room for itself is told its comments in the
\* order they were made, and never the name of a later comment than the text,
\* however often the Go program is started again (send.py:128-133, pool.go:35-38).
THEOREM ToldInTheirOrder == Spec => []ToldInOrder
<1>1. OrderInv => ToldInOrder
  <2> SUFFICES ASSUME OrderInv, NEW s \in alone, py[s].pc = "tell"
               PROVE  /\ py[s].text # Other => shown[s] <= py[s].text
                      /\ py[s].name # Other /\ py[s].text # Other => py[s].name <= py[s].text
    BY DEF ToldInOrder
  <2>1. /\ Behind({py[s].name}, {py[s].text}) /\ Behind({shown[s]}, {py[s].text})
        /\ py[s].name \in Lines /\ py[s].text \in Lines /\ shown[s] \in Lines
    BY DEF OrderInv, InOrder, Read, Behind, Types, Relays
  <2>2. \A c \in Lines : c = Other \/ c \in Comments
    BY DanmuAssumption DEF Lines, Other, Comments
  <2>3. \A c \in Lines : Other <= c
    BY DanmuAssumption DEF Lines, Other
  <2> QED
    BY <2>1, <2>2, <2>3 DEF Behind
<1> QED
  BY <1>1, CommentsAreInOrder, PTL

================================================================================
