----------------------------- MODULE MobSwitchProofs -----------------------------
(***************************************************************************)
(* Proofs about MobSwitch, for any numbers of votes, measurements and      *)
(* watchdogs.                                                              *)
(***************************************************************************)
EXTENDS MobSwitch, TLAPS

\* What a step does to the places when it moves one process.
LEMMA GoType ==
  ASSUME TypeOK, NEW p \in Walkers, NEW from, NEW to \in Places, Go(p, from, to)
  PROVE  pc' \in [Walkers -> Places]
BY DEF TypeOK, Go

LEMMA EndPlace == \A p : End(p) \in Places
BY DEF End, Places

LEMMA InitType == Init => TypeOK
<1> SUFFICES ASSUME Init PROVE TypeOK
  OBVIOUS
<1>1. pc \in [Walkers -> Places]
  BY DEF Init, Places
<1>2. tests \in 0..MaxTests /\ losses \in 0..MaxLoss
  BY SwitchAssumption DEF Init
<1>3. want \in [Votes -> {"ON", "OFF"}] /\ was \in [Testers -> {"ON", "OFF"}]
  BY DEF Init
<1> QED
  BY <1>1, <1>2, <1>3 DEF Init, TypeOK

LEMMA VoteType ==
  ASSUME TypeOK,
         \/ \E arg \in {"ON", "OFF"} : AskVote(arg)
         \/ ChatStep \/ Veto
         \/ \E v \in Votes : Apply(v)
  PROVE  TypeOK'
<1> USE DEF TypeOK, botVars, bounds
<1>1. ASSUME NEW arg \in {"ON", "OFF"}, AskVote(arg) PROVE TypeOK'
  BY <1>1 DEF AskVote
<1>2. ASSUME NEW v \in Votes, ChatOpens(v) PROVE TypeOK'
  <2>1. pc' \in [Walkers -> Places]
    BY <1>2 DEF ChatOpens, Walkers, Places
  <2> QED
    BY <1>2, <2>1 DEF ChatOpens, Opened
<1>3. CASE Veto
  <2>1. pc' \in [Walkers -> Places]
    BY <1>3 DEF Veto, Quit, Places
  <2> QED
    BY <1>3, <2>1 DEF Veto
<1>4. ASSUME NEW v \in Votes, Apply(v) PROVE TypeOK'
  <2>1. pc' \in [Walkers -> Places]
    BY <1>4, GoType DEF Apply, Walkers, Places
  <2> QED
    BY <1>4, <2>1 DEF Apply
<1> QED
  BY <1>1, <1>2, <1>3, <1>4 DEF ChatStep

LEMMA TestType ==
  ASSUME TypeOK, NEW t \in Testers, Test(t) \/ TestStep(t)
  PROVE  TypeOK'
<1> USE DEF TypeOK, botVars, bounds
<1>0. t \in Walkers
  BY DEF Walkers
<1>1. CASE Test(t)
  <2>1. pc' \in [Walkers -> Places]
    BY <1>0, <1>1, GoType DEF Test, Places
  <2> QED
    BY <1>1, <2>1, SwitchAssumption DEF Test
<1>2. CASE First(t) \/ Second(t)
  <2> DEFINE Next2 == {"idle", "pass2", "whp2", "res2", "0OFF", "quit", "sed"}
  <2>1. \E to \in Next2 : pc' = [pc EXCEPT ![t] = to]
    <3>1. CASE First(t)
      BY <3>1, Zenon DEF First, Go
    <3>2. CASE Second(t)
      <4>1. PICK level \in Levels :
              \/ pc' = [pc EXCEPT ![t] = IF level = "pass" THEN "0OFF" ELSE "idle"]
              \/ pc' = [pc EXCEPT ![t] = IF level = "whp" THEN "quit" ELSE "idle"]
              \/ pc' = [pc EXCEPT ![t] = IF level = "restart" THEN "sed"
                          ELSE IF level = "whp" /\ was[t] = "OFF" THEN "quit" ELSE "idle"]
        BY <3>2, Zenon DEF Second, Go
      <4> QED
        BY <4>1
    <3> QED
      BY <1>2, <3>1, <3>2
  <2>2. pc' \in [Walkers -> Places]
    BY <1>0, <2>1 DEF Places
  <2> QED
    BY <1>2, <2>2 DEF First, Second
<1>3. CASE QuitVote(t)
  <2>1. pc' \in [Walkers -> Places]
    BY <1>3 DEF QuitVote, Quit, Places
  <2> QED
    BY <1>3, <2>1 DEF QuitVote
<1>4. ASSUME NEW v \in Votes, TestOpens(t, v) PROVE TypeOK'
  <2>1. pc' \in [Walkers -> Places]
    BY <1>4 DEF TestOpens, Walkers, Places
  <2> QED
    BY <1>4, <2>1 DEF TestOpens, Opened
<1>5. CASE SwitchNow(t)
  <2>1. pc' \in [Walkers -> Places]
    <3>1. \E to \in {"enter", "idle"} : pc' = [pc EXCEPT ![t] = to]
      BY <1>5, Zenon DEF SwitchNow, Go
    <3> QED
      BY <1>0, <3>1 DEF Places
  <2> QED
    BY <1>5, <2>1 DEF SwitchNow
<1>6. CASE RestartSed(t) \/ RestartDown(t)
  <2>1. pc' \in [Walkers -> Places]
    BY <1>0, <1>6 DEF RestartSed, RestartDown, Go, Places
  <2>2. CASE RestartSed(t)
    BY <2>1, <2>2 DEF RestartSed
  <2>3. CASE RestartDown(t)
    BY <2>1, <2>3 DEF RestartDown
  <2> QED
    BY <1>6, <2>2, <2>3
<1> QED
  BY <1>1, <1>2, <1>3, <1>4, <1>5, <1>6 DEF TestStep

LEMMA DogType ==
  ASSUME TypeOK, NEW p \in Walkers, DogStep(p)
  PROVE  TypeOK'
<1> USE DEF TypeOK, botVars, bounds
<1>1. pc' \in [Walkers -> Places]
  <2>1. \E to \in Places : pc' = [pc EXCEPT ![p] = to]
    <3>1. CASE Enter(p)
      BY <3>1, EndPlace DEF Enter, Go, Places
    <3>2. CASE Look(p)
      BY <3>2, EndPlace DEF Look, Go, Places
    <3>3. CASE Write(p) \/ Kill(p) \/ StartBot(p)
      BY <3>3, EndPlace DEF Write, Kill, StartBot, Go, Places
    <3> QED
      BY <3>1, <3>2, <3>3 DEF DogStep
  <2> QED
    BY <2>1
<1>2. CASE Enter(p) \/ Look(p)
  BY <1>1, <1>2 DEF Enter, Look
<1>3. CASE Write(p)
  BY <1>1, <1>3 DEF Write
<1>4. CASE Kill(p)
  BY <1>1, <1>4 DEF Kill
<1>5. CASE StartBot(p)
  BY <1>1, <1>5 DEF StartBot
<1> QED
  BY <1>2, <1>3, <1>4, <1>5 DEF DogStep

LEMMA NextType == TypeOK /\ [Next]_vars => TypeOK'
<1> SUFFICES ASSUME TypeOK, [Next]_vars PROVE TypeOK'
  OBVIOUS
<1>1. ASSUME NEW c \in Crons, CronStart(c) PROVE TypeOK'
  BY <1>1, GoType DEF CronStart, TypeOK, Walkers, Places, botVars, bounds
<1>2. CASE Join
  BY <1>2 DEF Join, TypeOK, bounds
<1>4. CASE Loss
  <2>1. losses' \in 0..MaxLoss
    <3>1. losses < MaxLoss /\ losses' = losses + 1
      BY <1>4, Zenon DEF Loss
    <3> QED
      BY <3>1, SwitchAssumption DEF TypeOK
  <2> QED
    BY <1>4, <2>1 DEF Loss, TypeOK
<1>3. CASE UNCHANGED vars
  BY <1>3 DEF vars, TypeOK, botVars, bounds
<1> QED
  BY <1>1, <1>2, <1>3, <1>4, VoteType, TestType, DogType DEF Next

\* Every variable of the mob switch keeps its type; no bot session joins twice.
THEOREM TypeCorrect == Spec => []TypeOK
BY InitType, NextType, PTL DEF Spec

------------------------------------------------------------------------------
(* ON only by a vote, in manual mode *)

IInv == TypeOK /\ OnOnlyByVote /\ ReadOnlyByVote

LEMMA InitInv == Init => IInv
BY InitType DEF Init, IInv, OnOnlyByVote, ReadOnlyByVote

\* A vote that was written stays written, and its argument with it.
LEMMA ByVoteKept ==
  ASSUME TypeOK, ReadOnlyByVote, [Next]_vars
  PROVE  /\ mode' = mode
         /\ ByVote => ByVote'
<1>1. /\ mode' = mode
      /\ applied \subseteq applied'
      /\ \A v \in Votes : pc[v] # "free" => want'[v] = want[v]
  <2> DEFINE Same == UNCHANGED <<mode, want, applied>>
  <2>1. ASSUME NEW arg \in {"ON", "OFF"}, AskVote(arg) PROVE Same
    BY <2>1 DEF AskVote
  <2>2. ASSUME NEW v \in Votes, ChatOpens(v)
        PROVE  UNCHANGED <<mode, applied>> /\ \A u \in Votes : pc[u] # "free" => want'[u] = want[u]
    BY <2>2 DEF ChatOpens, Opened, TypeOK
  <2>3. CASE Veto \/ Join \/ Loss
    BY <2>3 DEF Veto, Join, Loss
  <2>4. ASSUME NEW v \in Votes, Apply(v)
        PROVE  UNCHANGED <<mode, want>> /\ applied \subseteq applied'
    BY <2>4 DEF Apply
  <2>5. ASSUME NEW t \in Testers, NEW v \in Votes, TestOpens(t, v)
        PROVE  UNCHANGED <<mode, applied>> /\ \A u \in Votes : pc[u] # "free" => want'[u] = want[u]
    BY <2>5 DEF TestOpens, Opened, TypeOK
  <2>6. ASSUME NEW t \in Testers,
               Test(t) \/ First(t) \/ Second(t) \/ QuitVote(t) \/ SwitchNow(t)
                 \/ RestartSed(t) \/ RestartDown(t)
        PROVE  Same
    BY <2>6 DEF Test, First, Second, QuitVote, SwitchNow, RestartSed, RestartDown
  <2>7. ASSUME NEW c \in Crons, CronStart(c) PROVE Same
    BY <2>7 DEF CronStart
  <2>8. ASSUME NEW p \in Walkers, DogStep(p) PROVE Same
    BY <2>8 DEF DogStep, Enter, Look, Write, Kill, StartBot
  <2>9. CASE UNCHANGED vars
    BY <2>9 DEF vars
  <2> QED
    BY <2>1, <2>2, <2>3, <2>4, <2>5, <2>6, <2>7, <2>8, <2>9 DEF Next, ChatStep, TestStep
<1> QED
  BY <1>1 DEF ByVote, ReadOnlyByVote, TypeOK

\* Written votes are not free, before and after.
LEMMA WrittenNotFree ==
  ASSUME TypeOK, ReadOnlyByVote, [Next]_vars
  PROVE  \A v \in applied' : pc'[v] # "free"
<1> USE DEF TypeOK, ReadOnlyByVote, Walkers
<1>1. ASSUME NEW v \in Votes, ChatOpens(v) PROVE \A u \in applied' : pc'[u] # "free"
  BY <1>1 DEF ChatOpens
<1>2. CASE Veto
  BY <1>2 DEF Veto, Quit
<1>3. ASSUME NEW v \in Votes, Apply(v) PROVE \A u \in applied' : pc'[u] # "free"
  BY <1>3 DEF Apply, Go
<1>4. ASSUME NEW t \in Testers, NEW v \in Votes, TestOpens(t, v)
      PROVE  \A u \in applied' : pc'[u] # "free"
  BY <1>4 DEF TestOpens
<1>5. ASSUME NEW t \in Testers, QuitVote(t) PROVE \A u \in applied' : pc'[u] # "free"
  BY <1>5 DEF QuitVote, Quit
<1>6. ASSUME NEW t \in Testers,
             Test(t) \/ First(t) \/ Second(t) \/ SwitchNow(t) \/ RestartSed(t) \/ RestartDown(t)
      PROVE  applied' = applied /\ \A u \in Votes : pc'[u] = pc[u]
  <2>1. applied' = applied /\ \E to : pc' = [pc EXCEPT ![t] = to]
    BY <1>6, Zenon DEF Test, First, Second, SwitchNow, RestartSed, RestartDown, Go
  <2> QED
    BY <2>1, SwitchAssumption
<1>7. ASSUME NEW c \in Crons, CronStart(c)
      PROVE  applied' = applied /\ \A u \in Votes : pc'[u] = pc[u]
  BY <1>7, SwitchAssumption DEF CronStart, Go
<1>8. ASSUME NEW p \in Walkers, DogStep(p)
      PROVE  applied' = applied /\ \E to : pc' = [pc EXCEPT ![p] = to] /\ to # "free"
  BY <1>8 DEF DogStep, Enter, Look, Write, Kill, StartBot, Go, End
<1>9. (\E arg \in {"ON", "OFF"} : AskVote(arg)) \/ Join \/ Loss \/ UNCHANGED vars
        => UNCHANGED <<pc, applied>>
  BY DEF AskVote, Join, Loss, vars
<1> QED
  BY <1>1, <1>2, <1>3, <1>4, <1>5, <1>6, <1>7, <1>8, <1>9 DEF Next, ChatStep, TestStep

\* Who reads or writes ON can name a vote for it.
LEMMA OnNeedsVote ==
  ASSUME IInv, [Next]_vars, mode = "MANUAL"
  PROVE  /\ status' = "ON" => ByVote'
         /\ \A p \in Walkers :
              pc'[p] # "0ON" /\ (pc'[p] \in {"look", "again", "on"} => ByVote')
<1> USE DEF IInv, TypeOK, ReadOnlyByVote, OnOnlyByVote, Walkers
<1> DEFINE Reading == {"look", "again", "on"}
           Quiet == /\ status' \in {status, "OFF"}
                    /\ \A p \in Walkers : \/ pc'[p] = pc[p]
                                          \/ pc'[p] \notin Reading \cup {"0ON"}
           Backed == /\ status' = "ON" => ByVote'
                     /\ \A p \in Walkers : pc'[p] # "0ON" /\ (pc'[p] \in Reading => ByVote')
<1>1. ByVote => ByVote'
  BY ByVoteKept
<1>2. Quiet => Backed
  BY <1>1
<1>3. ASSUME NEW v \in Votes, ChatOpens(v) PROVE Quiet
  <2>1. UNCHANGED status /\ pc' = [pc EXCEPT ![v] = "wait"]
    BY <1>3, Zenon DEF ChatOpens
  <2> QED
    BY <2>1
<1>4. CASE Veto
  <2>1. UNCHANGED status /\ pc' = Quit(pc)
    BY <1>4, Zenon DEF Veto
  <2>2. ASSUME NEW p \in Walkers PROVE pc'[p] \in {pc[p], "gone"}
    BY <2>1 DEF Quit
  <2>3. Quiet
    BY <2>1, <2>2
  <2> QED
    BY <1>2, <2>3
<1>5. ASSUME NEW v \in Votes, Apply(v) PROVE Backed
  <2>1. want[v] = "ON" => ByVote'
    BY <1>5 DEF Apply, ByVote
  <2>2. status' = "ON" => ByVote'
    BY <1>5, <2>1 DEF Apply
  <2>3. \A p \in Walkers : pc'[p] = pc[p] \/ pc'[p] = "enter"
    BY <1>5 DEF Apply, Go
  <2> QED
    BY <1>1, <2>2, <2>3
<1>6. ASSUME NEW t \in Testers, NEW v \in Votes, TestOpens(t, v) PROVE Quiet
  BY <1>6 DEF TestOpens
<1>7. ASSUME NEW t \in Testers, QuitVote(t) PROVE Quiet
  BY <1>7 DEF QuitVote, Quit
<1>8. ASSUME NEW t \in Testers, SwitchNow(t) PROVE Quiet
  <2>1. pc[t] # "0ON"
    OBVIOUS
  <2>2. status' = "OFF" /\ \E to \in {"enter", "idle"} : pc' = [pc EXCEPT ![t] = to]
    BY <1>8, <2>1, Zenon DEF SwitchNow, Go
  <2> QED
    BY <2>2
<1>9. ASSUME NEW t \in Testers,
             Test(t) \/ First(t) \/ Second(t) \/ RestartSed(t) \/ RestartDown(t)
      PROVE  Quiet
  <2>1. status' \in {status, "OFF"}
    BY <1>9 DEF Test, First, Second, RestartSed, RestartDown
  <2>2. \E to : pc' = [pc EXCEPT ![t] = to] /\ to \notin Reading \cup {"0ON"}
    BY <1>9 DEF Test, First, Second, RestartSed, RestartDown, Go
  <2> QED
    BY <2>1, <2>2
<1>10. ASSUME NEW c \in Crons, CronStart(c) PROVE Quiet
  BY <1>10 DEF CronStart, Go
<1>11. ASSUME NEW p \in Walkers, Enter(p) PROVE Backed
  <2>1. UNCHANGED status /\ \E to \in {End(p), "look", "lookoff"} :
          pc' = [pc EXCEPT ![p] = to] /\ (to = "look" => status = "ON")
    BY <1>11 DEF Enter, Go, End
  <2> QED
    BY <1>1, <2>1 DEF End
<1>12. ASSUME NEW p \in Walkers, Look(p) PROVE Backed
  <2>1. UNCHANGED status /\ \E to \in {End(p), "again", "on", "count", "off"} :
          pc' = [pc EXCEPT ![p] = to] /\ (to \in {"again", "on"} => pc[p] \in Reading)
    BY <1>12 DEF Look, Go, End
  <2> QED
    BY <1>1, <2>1 DEF End
<1>13. ASSUME NEW p \in Walkers, Write(p) PROVE Backed
  <2>1. status' = "ON" => pc[p] = "on"
    BY <1>13 DEF Write, Go
  <2>2. \E to \in {"killon", "killoff"} : pc' = [pc EXCEPT ![p] = to]
    BY <1>13 DEF Write, Go
  <2> QED
    BY <1>1, <2>1, <2>2
<1>14. ASSUME NEW p \in Walkers, Kill(p) \/ StartBot(p) PROVE Quiet
  BY <1>14 DEF Kill, StartBot, Go, End
<1>15. (\E arg \in {"ON", "OFF"} : AskVote(arg)) \/ Join \/ Loss \/ UNCHANGED vars => Quiet
  BY DEF AskVote, Join, Loss, vars
<1> QED
  BY <1>2, <1>3, <1>4, <1>5, <1>6, <1>7, <1>8, <1>9, <1>10, <1>11, <1>12, <1>13,
     <1>14, <1>15 DEF Next, ChatStep, TestStep, DogStep

\* In manual mode MBS_STATUS is ON only when a vote for it has waited out its
\* 30 seconds, however watchdogs, measurements and restarts interleave.
THEOREM OnByVote == Spec => []OnOnlyByVote
<1>1. IInv /\ [Next]_vars => IInv'
  <2> SUFFICES ASSUME IInv, [Next]_vars PROVE IInv'
    OBVIOUS
  <2>1. TypeOK' /\ mode' = mode
    BY NextType, ByVoteKept DEF IInv
  <2>2. \A v \in applied' : pc'[v] # "free"
    BY WrittenNotFree DEF IInv
  <2> QED
    BY <2>1, <2>2, OnNeedsVote DEF IInv, OnOnlyByVote, ReadOnlyByVote
<1>2. IInv => OnOnlyByVote
  BY DEF IInv
<1> QED
  BY <1>1, <1>2, InitInv, PTL DEF Spec

===============================================================================
