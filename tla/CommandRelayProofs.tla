-------------------------- MODULE CommandRelayProofs --------------------------
(***************************************************************************)
(* Proofs about CommandRelay, for any sets of senders and relays, with and *)
(* without the tests in front of the call, with and without faults.        *)
(***************************************************************************)
EXTENDS CommandRelay, TLAPS

LEMMA InitTypeOK == Init => TypeOK
<1> USE DEF TypeOK, Lines, Answers, SenderStates, RelayStates
<1> SUFFICES ASSUME Init PROVE TypeOK
  OBVIOUS
<1>1. handled \in [Relays -> [Senders -> Nat]]
  BY DEF Init
<1>2. clean \in [Senders -> BOOLEAN] /\ queued \in [Relays -> BOOLEAN]
  BY DEF Init
<1> QED
  BY <1>1, <1>2 DEF Init

LEMMA NextTypeOK == TypeOK /\ [Next]_vars => TypeOK'
<1> USE DEF TypeOK, Lines, Answers, SenderStates, RelayStates
<1> SUFFICES ASSUME TypeOK, [Next]_vars PROVE TypeOK'
  OBVIOUS
<1>1. ASSUME NEW s \in Senders, Start(s) PROVE TypeOK'
  BY <1>1 DEF Start, Goto, Launch, fileVars, relayVars, Quiet, Active
<1>2. ASSUME NEW s \in Senders, SenderStep(s) PROVE TypeOK'
  <2>1. CASE TestScreen(s)
    BY <2>1 DEF TestScreen, Goto, fileVars, relayVars
  <2>2. CASE TestFlag(s)
    BY <2>2 DEF TestFlag, Goto, fileVars, relayVars
  <2>3. CASE Spin(s) \/ Arm(s)
    BY <2>3 DEF Spin, Arm, Goto, fileVars, relayVars
  <2>4. CASE Touch(s)
    BY <2>4 DEF Touch, Launch, Goto, relayVars
  <2>5. CASE GiveUp(s)
    BY <2>5 DEF GiveUp, Goto, fileVars, relayVars
  <2>6. CASE ReadOut(s)
    BY <2>6 DEF ReadOut, Goto, fileVars, relayVars
  <2>7. CASE Remove(s)
    BY <2>7 DEF Remove, Goto, relayVars
  <2> QED
    BY <1>2, <2>1, <2>2, <2>3, <2>4, <2>5, <2>6, <2>7 DEF SenderStep
<1>3. ASSUME NEW s \in Senders, KillSender(s) PROVE TypeOK'
  BY <1>3 DEF KillSender, Goto, fileVars, relayVars
<1>4. ASSUME NEW s \in Senders, EchoStep(s) PROVE TypeOK'
  BY <1>4 DEF EchoStep, EchoOpen, EchoWrite, NotifyRelays
<1>5. ASSUME NEW r \in Relays, RelayStart(r) PROVE TypeOK'
  BY <1>5 DEF RelayStart, fileVars, senderVars
<1>6. ASSUME NEW r \in Relays, RelayStep(r) PROVE TypeOK'
  <2>1. CASE RelayReady(r) \/ Take(r) \/ Answer(r)
    BY <2>1 DEF RelayReady, Take, Answer, fileVars, senderVars
  <2>2. CASE ReadLine(r)
    BY <2>2 DEF ReadLine, fileVars, senderVars
  <2>3. CASE OutOpen(r) \/ OutWrite(r)
    BY <2>3 DEF OutOpen, OutWrite, NotifySenders
  <2> QED
    BY <1>6, <2>1, <2>2, <2>3 DEF RelayStep
<1>7. ASSUME NEW r \in Relays, RelayDies(r) \/ RelayHangs(r) PROVE TypeOK'
  BY <1>7 DEF RelayDies, RelayHangs, fileVars, senderVars
<1>8. CASE UNCHANGED vars
  BY <1>8 DEF vars
<1> QED
  BY <1>1, <1>2, <1>3, <1>4, <1>5, <1>6, <1>7, <1>8 DEF Next

\* Every variable keeps its type: the states of the scripts and relays are
\* those of the code, and the two files hold a line or nothing.
THEOREM TypeCorrect == Spec => []TypeOK
BY InitTypeOK, NextTypeOK, PTL DEF Spec

------------------------------------------------------------------------------
(* What a line can be handed to RCON for. *)

\* Inductive: an echo belongs to a call, the line in input.txt can be read
\* again only for the events that its echo raised, and before the write never.
DeliveryInv == TypeOK /\ CallOrder /\ InputBound /\ HandledAtMostTwice

\* The scripts' own steps touch neither input.txt nor what the relays hold.
LEMMA SenderStepFrame ==
  ASSUME NEW s \in Senders, SenderStep(s) \/ KillSender(s)
  PROVE  UNCHANGED <<input, rpc, queued, request, handled, clean>>
BY DEF SenderStep, KillSender, TestScreen, TestFlag, Spin, Touch, Arm, GiveUp,
       ReadOut, Remove, fileVars, relayVars

\* A script's own step launches its echo or leaves it alone.
LEMMA SenderStepEcho ==
  ASSUME NEW s \in Senders, SenderStep(s) \/ KillSender(s)
  PROVE  Touch(s) \/ UNCHANGED echo
BY DEF SenderStep, KillSender, TestScreen, TestFlag, Spin, Arm, GiveUp,
       ReadOut, Remove

\* No script comes back to the states before its launch or its answer.
LEMMA CallOrderStep ==
  ASSUME TypeOK, CallOrder, [Next]_vars
  PROVE  CallOrder'
<1> USE DEF CallOrder, TypeOK
<1>1. ASSUME NEW s \in Senders, Start(s) PROVE CallOrder'
  BY <1>1 DEF Start, Goto, Launch
<1>2. ASSUME NEW s \in Senders, SenderStep(s) PROVE CallOrder'
  BY <1>2 DEF SenderStep, TestScreen, TestFlag, Spin, Touch, Arm, GiveUp,
     ReadOut, Remove, Goto, Launch
<1>3. ASSUME NEW s \in Senders, KillSender(s) PROVE CallOrder'
  BY <1>3 DEF KillSender, Goto
<1>4. ASSUME NEW s \in Senders, EchoStep(s) PROVE CallOrder'
  BY <1>4 DEF EchoStep, EchoOpen, EchoWrite
<1>5. ASSUME NEW r \in Relays, OutOpen(r) \/ OutWrite(r) PROVE CallOrder'
  BY <1>5 DEF OutOpen, OutWrite, NotifySenders
<1>6. ASSUME NEW r \in Relays,
             \/ RelayStart(r) \/ RelayReady(r) \/ Take(r) \/ ReadLine(r)
             \/ Answer(r) \/ RelayDies(r) \/ RelayHangs(r)
      PROVE  CallOrder'
  BY <1>6 DEF RelayStart, RelayReady, Take, ReadLine, Answer, RelayDies,
     RelayHangs, senderVars
<1>7. CASE UNCHANGED vars
  BY <1>7 DEF vars
<1> QED
  BY <1>1, <1>2, <1>3, <1>4, <1>5, <1>6, <1>7 DEF Next, RelayStep

LEMMA DeliveryStep ==
  ASSUME DeliveryInv, [Next]_vars
  PROVE  InputBound' /\ HandledAtMostTwice'
<1> USE DEF DeliveryInv, InputBound, HandledAtMostTwice, ReadsLeft
<1>1. ASSUME NEW s \in Senders, Start(s) PROVE InputBound' /\ HandledAtMostTwice'
  BY <1>1 DEF Start, Goto, Launch, TypeOK, CallOrder, fileVars, relayVars
<1>2. ASSUME NEW s \in Senders, SenderStep(s) \/ KillSender(s)
      PROVE  InputBound' /\ HandledAtMostTwice'
  <2>1. UNCHANGED <<input, rpc, queued, request, handled>>
    BY <1>2, SenderStepFrame
  <2>2. CASE UNCHANGED echo
    BY <2>1, <2>2
  <2>3. CASE Touch(s)
    BY <2>1, <2>3 DEF Touch, Launch, TypeOK, CallOrder
  <2> QED
    BY <1>2, <2>2, <2>3, SenderStepEcho
<1>3. ASSUME NEW s \in Senders, EchoOpen(s)
      PROVE  InputBound' /\ HandledAtMostTwice'
  BY <1>3, ConstantsAssumption DEF EchoOpen, TypeOK, Marks
<1>4. ASSUME NEW s \in Senders, EchoWrite(s)
      PROVE  InputBound' /\ HandledAtMostTwice'
  <2>1. \A r \in Relays : handled[r][s] = 0
    BY <1>4 DEF EchoWrite
  <2> QED
    BY <1>4, <2>1 DEF EchoWrite, NotifyRelays, TypeOK
<1>5. ASSUME NEW r \in Relays, Take(r) PROVE InputBound' /\ HandledAtMostTwice'
  BY <1>5 DEF Take, TypeOK, fileVars, senderVars
<1>6. ASSUME NEW r \in Relays, ReadLine(r) PROVE InputBound' /\ HandledAtMostTwice'
  <2>1. \A q \in Relays, s \in Senders :
          handled'[q][s] = IF q = r /\ s = input THEN handled[q][s] + 1
                                                ELSE handled[q][s]
    BY <1>5, <1>6 DEF ReadLine, TypeOK
  <2> QED
    BY <1>6, <2>1 DEF ReadLine, TypeOK, fileVars, senderVars
<1>7. ASSUME NEW r \in Relays,
             \/ RelayStart(r) \/ RelayReady(r) \/ Answer(r)
             \/ RelayDies(r) \/ RelayHangs(r) \/ OutOpen(r) \/ OutWrite(r)
      PROVE  InputBound' /\ HandledAtMostTwice'
  <2>1. UNCHANGED <<input, handled, echo>>
    BY <1>7 DEF RelayStart, RelayReady, Answer, RelayDies, RelayHangs, OutOpen,
       OutWrite, fileVars, senderVars
  <2>2. \A q \in Relays : ReadsLeft(q)' <= ReadsLeft(q)
    BY <1>7 DEF RelayStart, RelayReady, Answer, RelayDies, RelayHangs, OutOpen,
       OutWrite, TypeOK
  <2> QED
    BY <2>1, <2>2 DEF TypeOK
<1>8. CASE UNCHANGED vars
  BY <1>8 DEF vars
<1> QED
  BY <1>1, <1>2, <1>3, <1>4, <1>5, <1>6, <1>7, <1>8 DEF Next, RelayStep, EchoStep

LEMMA DeliveryInvariant == Spec => []DeliveryInv
<1>1. Init => DeliveryInv
  <2> SUFFICES ASSUME Init
               PROVE  CallOrder /\ InputBound /\ HandledAtMostTwice
    BY InitTypeOK DEF DeliveryInv
  <2> QED
    BY ConstantsAssumption DEF Init, CallOrder, InputBound, HandledAtMostTwice,
       ReadsLeft, Marks
<1>2. DeliveryInv /\ [Next]_vars => DeliveryInv'
  BY NextTypeOK, CallOrderStep, DeliveryStep DEF DeliveryInv
<1> QED
  BY <1>1, <1>2, PTL DEF Spec

\* One call of `send` gives a relay its line at most twice, however calls,
\* late events, kills and relays interleave.
THEOREM DeliveryBound == Spec => []HandledAtMostTwice
<1>1. DeliveryInv => HandledAtMostTwice
  BY DEF DeliveryInv
<1> QED
  BY <1>1, DeliveryInvariant, PTL

------------------------------------------------------------------------------
(* Whose answer a call prints. *)

\* Inductive: a call that began on a quiet channel keeps it to itself.
IntegrityInv == TypeOK /\ CallOrder /\ ChannelIsOwn /\ AnswerIntegrity

LEMMA StartKeepsIntegrity ==
  ASSUME IntegrityInv, NEW s \in Senders, Start(s)
  PROVE  ChannelIsOwn' /\ AnswerIntegrity'
<1> USE DEF IntegrityInv
<1>1. UNCHANGED <<input, output, result, rpc, queued, request>>
  BY DEF Start, fileVars, relayVars
<1>2. spc[s] = "idle" /\ spc'[s] \in {"screen", "arm"}
  BY DEF Start, Goto, Launch, TypeOK
<1>3. \A t \in Senders \ {s} : spc'[t] = spc[t] /\ echo'[t] = echo[t]
  BY DEF Start, Goto, Launch, TypeOK
<1>4. /\ clean'[s] = Quiet
      /\ \A t \in Senders \ {s} : clean'[t] = (clean[t] /\ t \notin Active)
  BY DEF Start, TypeOK
<1>5. Active' = Active \cup {s}
  BY <1>2, <1>3 DEF Active
<1>6. AnswerIntegrity'
  BY <1>1, <1>2, <1>4 DEF AnswerIntegrity, CallOrder
<1>7. ASSUME NEW u \in Active', clean'[u] PROVE u = s /\ Quiet
  BY <1>4, <1>5, <1>7 DEF Active
<1>8. Quiet => /\ \A t \in Senders \ {s} : t \notin Active' /\ echo'[t] \in {"none", "done"}
               /\ \A r \in Relays :
                    ~queued'[r] /\ rpc'[r] \notin {"read", "exec", "open", "write"}
  BY <1>1, <1>3, <1>5 DEF Quiet
<1> QED
  BY <1>1, <1>2, <1>6, <1>7, <1>8 DEF ChannelIsOwn

LEMMA SenderKeepsIntegrity ==
  ASSUME IntegrityInv, NEW s \in Senders, SenderStep(s) \/ KillSender(s)
  PROVE  ChannelIsOwn' /\ AnswerIntegrity'
<1> USE DEF IntegrityInv
<1>1. UNCHANGED <<input, rpc, queued, request, handled, clean>>
  BY SenderStepFrame
<1>2. output' = output
  BY DEF SenderStep, KillSender, TestScreen, TestFlag, Spin, Touch, Arm, GiveUp,
     ReadOut, Remove, fileVars
<1>3. \A t \in Senders \ {s} :
        spc'[t] = spc[t] /\ echo'[t] = echo[t] /\ result'[t] = result[t]
  BY DEF SenderStep, KillSender, TestScreen, TestFlag, Spin, Touch, Arm, GiveUp,
     ReadOut, Remove, Goto, Launch, TypeOK
<1>4. s \in Active /\ spc'[s] # "read"
  BY DEF SenderStep, KillSender, TestScreen, TestFlag, Spin, Touch, Arm, GiveUp,
     ReadOut, Remove, Goto, Launch, TypeOK, Active
<1>5. Active' \subseteq Active
  BY <1>3, <1>4 DEF Active
<1>6. ChannelIsOwn'
  BY <1>1, <1>2, <1>3, <1>4, <1>5 DEF ChannelIsOwn
<1>7. ReadOut(s) \/ result'[s] \in {result[s], Error1, Error3}
  BY DEF SenderStep, KillSender, TestScreen, TestFlag, Spin, Touch, Arm, GiveUp,
     Remove, TypeOK
<1>8. ReadOut(s) /\ clean[s] => result'[s] \in {s, NoLine, Blank}
  BY <1>4 DEF ReadOut, ChannelIsOwn, TypeOK
<1>9. AnswerIntegrity'
  BY <1>1, <1>3, <1>7, <1>8 DEF AnswerIntegrity
<1> QED
  BY <1>6, <1>9

LEMMA EchoKeepsIntegrity ==
  ASSUME IntegrityInv, NEW s \in Senders, EchoStep(s)
  PROVE  ChannelIsOwn' /\ AnswerIntegrity'
<1> USE DEF IntegrityInv
<1>1. UNCHANGED <<output, spc, result, rpc, request, clean>>
  BY DEF EchoStep, EchoOpen, EchoWrite
<1>2. input' \in {s, NoLine}
  BY DEF EchoStep, EchoOpen, EchoWrite
<1>3. \A t \in Senders \ {s} : echo'[t] = echo[t]
  BY DEF EchoStep, EchoOpen, EchoWrite, TypeOK
<1>4. echo[s] \in {"open", "write"}
  BY DEF EchoStep, EchoOpen, EchoWrite
<1>5. \A u \in Active : clean[u] => u = s
  BY <1>4 DEF ChannelIsOwn
<1> QED
  BY <1>1, <1>2, <1>3, <1>5 DEF ChannelIsOwn, AnswerIntegrity, Active

LEMMA RelayKeepsIntegrity ==
  ASSUME IntegrityInv, NEW r \in Relays,
         RelayStart(r) \/ RelayStep(r) \/ RelayDies(r) \/ RelayHangs(r)
  PROVE  ChannelIsOwn' /\ AnswerIntegrity'
<1> USE DEF IntegrityInv
<1>1. UNCHANGED <<input, echo, result, clean>>
  BY DEF RelayStart, RelayStep, RelayReady, Take, ReadLine, Answer, OutOpen,
     OutWrite, RelayDies, RelayHangs, fileVars, senderVars
<1>2. Active' = Active
  BY DEF RelayStart, RelayStep, RelayReady, Take, ReadLine, Answer, OutOpen,
     OutWrite, RelayDies, RelayHangs, senderVars, NotifySenders, Active
<1>3. CASE OutOpen(r) \/ OutWrite(r)
  <2>1. /\ rpc[r] \in {"open", "write"}
        /\ output' \in {Blank, request[r]}
        /\ UNCHANGED <<queued, request>>
    BY <1>3 DEF OutOpen, OutWrite
  <2>2. \A q \in Relays : q # r => rpc'[q] = rpc[q]
    BY <1>3 DEF OutOpen, OutWrite, TypeOK
  <2>3. rpc'[r] \in {"idle", "write"}
    BY <1>3 DEF OutOpen, OutWrite, TypeOK
  <2> QED
    BY <1>1, <1>2, <2>1, <2>2, <2>3 DEF ChannelIsOwn, AnswerIntegrity
<1>4. CASE ReadLine(r)
  <2>1. /\ rpc[r] = "read" /\ request'[r] = input
        /\ \A q \in Relays \ {r} : rpc'[q] = rpc[q] /\ request'[q] = request[q]
        /\ rpc'[r] = "exec"
        /\ UNCHANGED <<output, spc, queued>>
    BY <1>4 DEF ReadLine, TypeOK, fileVars, senderVars
  <2> QED
    BY <1>1, <1>2, <2>1 DEF ChannelIsOwn, AnswerIntegrity
<1>5. CASE \/ RelayStart(r) \/ RelayReady(r) \/ Take(r) \/ Answer(r)
           \/ RelayDies(r) \/ RelayHangs(r)
  <2>1. UNCHANGED <<output, spc, request>>
    BY <1>5 DEF RelayStart, RelayReady, Take, Answer, RelayDies, RelayHangs,
       fileVars, senderVars
  <2>2. \A q \in Relays : queued'[q] \/ rpc'[q] = "read" => queued[q] \/ rpc[q] = "read"
    BY <1>5 DEF RelayStart, RelayReady, Take, Answer, RelayDies, RelayHangs, TypeOK
  <2>3. \A q \in Relays : rpc'[q] \in {"exec", "open", "write"} =>
                             rpc[q] \in {"exec", "open", "write"}
    BY <1>5 DEF RelayStart, RelayReady, Take, Answer, RelayDies, RelayHangs, TypeOK
  <2> QED
    BY <1>1, <1>2, <2>1, <2>2, <2>3 DEF ChannelIsOwn, AnswerIntegrity
<1> QED
  BY <1>3, <1>4, <1>5 DEF RelayStep

LEMMA IntegrityInvariant == Spec => []IntegrityInv
<1>1. Init => IntegrityInv
  BY InitTypeOK DEF Init, IntegrityInv, CallOrder, ChannelIsOwn, AnswerIntegrity, Active
<1>2. IntegrityInv /\ [Next]_vars => IntegrityInv'
  <2> SUFFICES ASSUME IntegrityInv, [Next]_vars
               PROVE  ChannelIsOwn' /\ AnswerIntegrity'
    BY NextTypeOK, CallOrderStep DEF IntegrityInv
  <2>1. CASE UNCHANGED vars
    BY <2>1 DEF vars, IntegrityInv, ChannelIsOwn, AnswerIntegrity, Active
  <2> QED
    BY <2>1, StartKeepsIntegrity, SenderKeepsIntegrity, EchoKeepsIntegrity,
       RelayKeepsIntegrity DEF Next
<1> QED
  BY <1>1, <1>2, PTL DEF Spec

\* A call that began on a quiet channel and met no other call never prints
\* the answer to somebody else's line, whatever relays are started, killed or
\* hung meanwhile and however stale the two files were.
THEOREM Integrity == Spec => []AnswerIntegrity
<1>1. IntegrityInv => AnswerIntegrity
  BY DEF IntegrityInv
<1> QED
  BY <1>1, IntegrityInvariant, PTL

\* Without the tests in front nobody makes the flag.
FlagInv ==
  /\ FlagHasOwner
  /\ ~Guarded => ~sending /\ \A s \in Senders : spc[s] \notin {"screen", "flag", "spin", "touch"}

LEMMA FlagNext == DeliveryInv /\ FlagInv /\ [Next]_vars => FlagInv'
<1> SUFFICES ASSUME DeliveryInv, FlagInv, [Next]_vars PROVE FlagInv'
  OBVIOUS
<1> USE DEF DeliveryInv, TypeOK
<1> DEFINE Owns(s) == echo[s] # "none" /\ spc[s] # "done"
           Tests == {"screen", "flag", "spin", "touch"}
           NewTests == \E s \in Senders : spc'[s] \in Tests /\ spc[s] \notin Tests
           Kept == /\ sending' = sending
                   /\ \A s \in Senders : Owns(s) => Owns(s)'
                   /\ ~Guarded => ~NewTests
<1>1. Kept => FlagInv'
  BY DEF FlagInv, FlagHasOwner
<1>2. ASSUME NEW s \in Senders, Touch(s) PROVE FlagInv'
  <2>1. Owns(s)' /\ spc[s] = "touch"
    BY <1>2 DEF Touch, Launch, Goto
  <2>2. Guarded
    BY <2>1 DEF FlagInv
  <2> QED
    BY <2>1, <2>2 DEF FlagInv, FlagHasOwner
<1>3. ASSUME NEW s \in Senders, Remove(s) PROVE FlagInv'
  BY <1>3 DEF Remove, Goto, FlagInv, FlagHasOwner
<1>4. ASSUME NEW s \in Senders, Start(s) PROVE Kept
  <2>1. echo[s] = "none"
    BY <1>4 DEF Start, CallOrder
  <2> QED
    BY <1>4, <2>1 DEF Start, Launch, Goto, fileVars
<1>5. ASSUME NEW s \in Senders, TestScreen(s) PROVE Kept
  <2>1. echo[s] = "none" /\ Guarded
    BY <1>5 DEF TestScreen, CallOrder, FlagInv
  <2> QED
    BY <1>5, <2>1 DEF TestScreen, Goto, fileVars
<1>6. ASSUME NEW s \in Senders, TestFlag(s) \/ Spin(s) PROVE Kept
  <2>1. Guarded
    BY <1>6 DEF TestFlag, Spin, FlagInv
  <2> QED
    BY <1>6, <2>1 DEF TestFlag, Spin, Goto, fileVars
<1>7. ASSUME NEW s \in Senders, Arm(s) \/ KillSender(s) PROVE Kept
  BY <1>7 DEF Arm, KillSender, Goto, fileVars
<1>8. ASSUME NEW s \in Senders, GiveUp(s) \/ ReadOut(s) PROVE FlagInv'
  <2>1. /\ sending' = sending /\ echo' = echo
        /\ spc' = [spc EXCEPT ![s] = IF Guarded THEN "remove" ELSE "done"]
    BY <1>8 DEF GiveUp, ReadOut, Goto, fileVars
  <2>2. CASE Guarded
    BY <1>1, <2>1, <2>2
  <2>3. CASE ~Guarded
    BY <2>1, <2>3 DEF FlagInv, FlagHasOwner
  <2> QED
    BY <2>2, <2>3
<1>9. ASSUME NEW s \in Senders, EchoStep(s) PROVE Kept
  BY <1>9 DEF EchoStep, EchoOpen, EchoWrite
<1>10. ASSUME NEW r \in Relays, OutOpen(r) \/ OutWrite(r) PROVE Kept
  BY <1>10 DEF OutOpen, OutWrite, NotifySenders
<1>11. ASSUME NEW r \in Relays,
              \/ RelayStart(r) \/ RelayReady(r) \/ Take(r) \/ ReadLine(r)
              \/ Answer(r) \/ RelayDies(r) \/ RelayHangs(r)
       PROVE  Kept
  BY <1>11 DEF RelayStart, RelayReady, Take, ReadLine, Answer, RelayDies,
     RelayHangs, fileVars, senderVars
<1>12. UNCHANGED vars => Kept
  BY DEF vars
<1> QED
  BY <1>1, <1>2, <1>3, <1>4, <1>5, <1>6, <1>7, <1>8, <1>9, <1>10, <1>11, <1>12
     DEF Next, SenderStep, RelayStep

\* No call that ends by itself leaves SENDING behind: the flag is there only
\* while some call is between touching and removing it, or was killed there,
\* for any number of overlapping calls that remove the flags of each other.
THEOREM FlagsAreOwned == Spec => []FlagHasOwner
<1>1. Init => FlagInv
  BY DEF Init, FlagInv, FlagHasOwner
<1>2. FlagInv => FlagHasOwner
  BY DEF FlagInv
<1> QED
  BY <1>1, <1>2, FlagNext, DeliveryInvariant, PTL DEF Spec

------------------------------------------------------------------------------
(* The channel implements CommandChannel. *)

\* A step of the scripts moves one phase forward or leaves all of them alone.
LEMMA SenderMaps ==
  ASSUME TypeOK, NEW s \in Senders, Start(s) \/ SenderStep(s) \/ KillSender(s)
  PROVE  [Abstract!Next]_(Abstract!vars)
<1>1. UNCHANGED handled
  BY SenderStepFrame DEF Start, relayVars
<1>2. \A t \in Senders \ {s} : spc'[t] = spc[t]
  BY DEF Start, SenderStep, KillSender, TestScreen, TestFlag, Spin, Touch, Arm,
     GiveUp, ReadOut, Remove, Goto, Launch, TypeOK
<1>3. phaseBar' = [phaseBar EXCEPT ![s] = phaseBar'[s]]
  BY <1>2 DEF phaseBar
<1>4. CASE Start(s)
  <2>1. phaseBar[s] = "new" /\ phaseBar'[s] = "called"
    BY <1>4 DEF Start, Goto, Launch, phaseBar, TypeOK
  <2>2. Abstract!Call(s)
    BY <1>1, <1>3, <2>1 DEF Abstract!Call
  <2> QED
    BY <2>2 DEF Abstract!Next
<1>5. CASE SenderStep(s) \/ KillSender(s)
  <2>1. phaseBar[s] = "called" /\ phaseBar'[s] \in {"called", "returned"}
    BY <1>5 DEF SenderStep, KillSender, TestScreen, TestFlag, Spin, Touch, Arm,
       GiveUp, ReadOut, Remove, Goto, Launch, phaseBar, TypeOK, Active
  <2>2. CASE phaseBar'[s] = "returned"
    BY <1>1, <1>3, <2>1, <2>2 DEF Abstract!Return, Abstract!Next
  <2>3. CASE phaseBar'[s] = "called"
    <3>1. phaseBar' = phaseBar
      BY <1>3, <2>1, <2>3 DEF phaseBar
    <3> QED
      BY <1>1, <3>1 DEF Abstract!vars
  <2> QED
    BY <2>1, <2>2, <2>3
<1> QED
  BY <1>4, <1>5

\* A relay reading a line is a delivery of it; reading the empty line is none.
LEMMA ReadLineMaps ==
  ASSUME DeliveryInv, NEW r \in Relays, ReadLine(r)
  PROVE  [Abstract!Next]_(Abstract!vars)
<1> USE DEF DeliveryInv
<1>1. phaseBar' = phaseBar
  BY DEF ReadLine, senderVars, phaseBar
<1>2. handled' = [handled EXCEPT ![r] =
                    [s \in Senders |-> @[s] + IF s = input THEN 1 ELSE 0]]
  BY DEF ReadLine
<1>3. CASE input = NoLine
  <2>1. \A s \in Senders : s # input
    BY <1>3, ConstantsAssumption DEF Marks
  <2>2. handled' = handled
    BY <1>2, <2>1 DEF TypeOK
  <2> QED
    BY <1>1, <2>2 DEF Abstract!vars
<1>4. ASSUME NEW s \in Senders, input = s PROVE Abstract!Deliver(r, s)
  <2>1. echo[s] = "done"
    BY <1>4 DEF InputBound
  <2>2. phaseBar[s] # "new"
    BY <2>1 DEF CallOrder, phaseBar
  <2>3. handled[r][s] < 2
    BY <1>4 DEF ReadLine, InputBound, ReadsLeft, TypeOK
  <2>4. [t \in Senders |-> handled[r][t] + IF t = input THEN 1 ELSE 0]
          = [handled[r] EXCEPT ![s] = @ + 1]
    BY <1>4 DEF TypeOK
  <2>5. handled' = [handled EXCEPT ![r][s] = @ + 1]
    BY <1>2, <2>4 DEF TypeOK
  <2> QED
    BY <1>1, <2>2, <2>3, <2>5 DEF Abstract!Deliver
<1> QED
  BY <1>3, <1>4 DEF TypeOK, Lines, Abstract!Next

LEMMA OtherStepsMap ==
  ASSUME TypeOK,
         \/ \E s \in Senders : EchoStep(s)
         \/ \E r \in Relays : \/ RelayStart(r) \/ RelayReady(r) \/ Take(r)
                             \/ Answer(r) \/ OutOpen(r) \/ OutWrite(r)
                             \/ RelayDies(r) \/ RelayHangs(r)
         \/ UNCHANGED vars
  PROVE  UNCHANGED Abstract!vars
<1>1. UNCHANGED handled
  BY DEF EchoStep, EchoOpen, EchoWrite, RelayStart, RelayReady, Take, Answer,
     OutOpen, OutWrite, RelayDies, RelayHangs, vars
<1>2. UNCHANGED phaseBar
  BY DEF EchoStep, EchoOpen, EchoWrite, RelayStart, RelayReady, Take, Answer,
     OutOpen, OutWrite, NotifySenders, RelayDies, RelayHangs, senderVars, vars,
     phaseBar, TypeOK
<1> QED
  BY <1>1, <1>2 DEF Abstract!vars

\* The file channel is an implementation of the abstract channel: a line
\* reaches RCON only after its script was called, and at most twice per relay.
THEOREM Implements == Spec => ImplementsChannel
<1>1. Init => Abstract!Init
  BY DEF Init, Abstract!Init, phaseBar
<1>2. DeliveryInv /\ [Next]_vars => [Abstract!Next]_(Abstract!vars)
  BY SenderMaps, ReadLineMaps, OtherStepsMap
     DEF DeliveryInv, Next, RelayStep
<1> QED
  BY <1>1, <1>2, DeliveryInvariant, PTL DEF Spec, ImplementsChannel, Abstract!Spec

===============================================================================
