------------------------- MODULE ServerLifecycleProofs -------------------------
(***************************************************************************)
(* Proofs about ServerLifecycle, for any sets of loops and scripts, any    *)
(* finite set of watchdogs and any order of helpers.                       *)
(***************************************************************************)
EXTENDS ServerLifecycle, FiniteSetTheorems, TLAPS

LEMMA HelperFacts ==
  /\ RCON \in Helpers
  /\ Len(HelperOrder) \in Nat \ {0}
  /\ \A i \in 1..Len(HelperOrder) : HelperOrder[i] \in Helpers
BY LifecycleAssumption DEF Helpers, RCON

LEMMA InitType == Init => TypeOK
<1> SUFFICES ASSUME Init PROVE TypeOK
  OBVIOUS
<1>1. count \in [Helpers -> Nat] /\ crashes \in 0..MaxCrash /\ wrote \in 0..Fixes
  BY LifecycleAssumption DEF Init
<1> QED
  BY <1>1 DEF Init, TypeOK

LEMMA LoopType ==
  ASSUME TypeOK, NEW l \in Loops, StartServer(l) \/ LoopStep(l) \/ JavaExits(l)
  PROVE  TypeOK'
<1> USE DEF TypeOK, Loop
<1>1. CASE StartServer(l) \/ RmStop(l)
  BY <1>1 DEF StartServer, RmStop, scriptVars, dogVars
<1>2. CASE Boot(l)
  BY <1>2 DEF Boot, scriptVars, dogVars
<1>3. CASE JavaExits(l)
  <2>1. crashes' \in 0..MaxCrash
    <3>1. crashes' = crashes \/ (crashes < MaxCrash /\ crashes' = crashes + 1)
      BY <1>3, Zenon DEF JavaExits
    <3> QED
      BY <3>1, LifecycleAssumption
  <2>2. /\ lpc' = [lpc EXCEPT ![l] = "event"] /\ jvm' = NoLoop /\ ordered' = FALSE
        /\ UNCHANGED <<stop, event, ran, wrote, kind, opc, count, dpc, snap>>
    BY <1>3, Zenon DEF JavaExits, scriptVars, dogVars
  <2> QED
    BY <2>1, <2>2
<1>4. CASE RunEvent(l)
  <2>1. ran' \in [Loops -> Nat]
    <3>1. ran' = ran \/ ran' = [ran EXCEPT ![l] = @ + 1]
      BY <1>4, Zenon DEF RunEvent
    <3> QED
      BY <3>1
  <2>2. /\ lpc' = [lpc EXCEPT ![l] = "clear"]
        /\ UNCHANGED <<stop, jvm, ordered, event, wrote, kind, opc, count, dpc,
                       snap, crashes>>
    BY <1>4, Zenon DEF RunEvent, scriptVars, dogVars
  <2> QED
    BY <2>1, <2>2
<1>6. CASE ClearEvent(l)
  BY <1>6 DEF ClearEvent, scriptVars, dogVars
<1>5. CASE TestStop(l) \/ Countdown(l)
  BY <1>5 DEF TestStop, Countdown, scriptVars, dogVars
<1> QED
  BY <1>1, <1>2, <1>3, <1>4, <1>5, <1>6 DEF LoopStep

LEMMA ScriptType ==
  ASSUME TypeOK, NEW o \in Scripts, Begin(o) \/ ScriptStep(o) \/ SendHangs(o)
  PROVE  TypeOK'
<1> USE DEF TypeOK, Step, loopVars, dogVars
<1>1. CASE Begin(o) \/ Announce(o) \/ Touch(o) \/ SendHangs(o)
  BY <1>1 DEF Begin, Announce, Touch, SendHangs
<1>2. CASE SendStop(o)
  <2>1. RCON \in Helpers
    BY HelperFacts
  <2>2. \/ UNCHANGED count
        \/ count[RCON] > 0 /\ count' = [count EXCEPT ![RCON] = @ - 1]
    BY <1>2 DEF SendStop, Present
  <2>3. count' \in [Helpers -> Nat]
    BY <2>1, <2>2
  <2> QED
    BY <1>2, <2>3 DEF SendStop
<1>3. CASE QuitRcon(o)
  BY <1>3 DEF QuitRcon
<1> QED
  BY <1>1, <1>2, <1>3 DEF ScriptStep

LEMMA DogType ==
  ASSUME TypeOK, NEW d \in Dogs, DogStart(d) \/ DogStep(d)
  PROVE  TypeOK'
<1> USE HelperFacts DEF TypeOK, loopVars, scriptVars
<1>1. CASE DogStart(d)
  BY <1>1 DEF DogStart
<1>2. CASE Snapshot(d)
  <2>1. Present \in SUBSET Helpers /\ HelperOrder[1] \in Helpers
    BY DEF Present
  <2> QED
    BY <1>2, <2>1 DEF Snapshot
<1>3. CASE KillAll(d)
  BY <1>3 DEF KillAll, EndLoops
<1>4. CASE StartHelper(d)
  <2>1. PICK i \in 1..Len(HelperOrder) :
          /\ count' = IF HelperOrder[i] \in snap[d] THEN count
                      ELSE [count EXCEPT ![HelperOrder[i]] = @ + 1]
          /\ dpc' = [dpc EXCEPT ![d] =
                       IF i < Len(HelperOrder) THEN HelperOrder[i + 1]
                       ELSE IF RCON \in snap[d] THEN "relays" ELSE "off"]
          /\ snap' = IF i < Len(HelperOrder) THEN snap ELSE [snap EXCEPT ![d] = {}]
          /\ UNCHANGED <<stop, loopVars, scriptVars, crashes>>
    BY <1>4 DEF StartHelper
  <2>2. count' \in [Helpers -> Nat]
    BY <2>1
  <2>3. i < Len(HelperOrder) => HelperOrder[i + 1] \in Helpers
    OBVIOUS
  <2> QED
    BY <2>1, <2>2, <2>3
<1>5. CASE CountRelays(d)
  BY <1>5 DEF CountRelays
<1> QED
  BY <1>1, <1>2, <1>3, <1>4, <1>5 DEF DogStep

LEMMA NextType == TypeOK /\ [Next]_vars => TypeOK'
<1> SUFFICES ASSUME TypeOK, [Next]_vars PROVE TypeOK'
  OBVIOUS
<1>1. ASSUME NEW h \in Helpers, HelperDies(h) PROVE TypeOK'
  BY <1>1, LifecycleAssumption DEF HelperDies, TypeOK, loopVars, scriptVars, dogVars
<1>2. CASE WriteFix
  BY <1>2, LifecycleAssumption DEF WriteFix, TypeOK, scriptVars, dogVars
<1>3. CASE KillServer
  BY <1>3 DEF KillServer, EndLoops, TypeOK, scriptVars, dogVars
<1>4. CASE UNCHANGED vars
  BY <1>4 DEF vars, TypeOK
<1>5. CASE OrphanExits
  BY <1>5 DEF OrphanExits, TypeOK, scriptVars, dogVars
<1> QED
  BY <1>1, <1>2, <1>3, <1>4, <1>5, LoopType, ScriptType, DogType DEF Next

\* Every variable of the lifecycle keeps its type; no helper has a negative
\* number of sessions.
THEOREM TypeCorrect == Spec => []TypeOK
BY InitType, NextType, PTL DEF Spec

------------------------------------------------------------------------------
(* What a watchdog has still to start, by the place it stands at *)

LEMMA NothingRemains ==
  ASSUME NEW at \in {"off", "list", "kill", "relays"}
  PROVE  Remaining(at) = {}
BY LifecycleAssumption, HelperFacts DEF Remaining

LEMMA RemainsFrom ==
  ASSUME NEW i \in 1..Len(HelperOrder)
  PROVE  Remaining(HelperOrder[i]) = {HelperOrder[j] : j \in i..Len(HelperOrder)}
BY LifecycleAssumption, HelperFacts DEF Remaining

------------------------------------------------------------------------------
(* The inductive invariant *)

IInv == TypeOK /\ LifecycleInv

LEMMA WillStartFinite ==
  ASSUME NEW h \in Helpers
  PROVE  /\ IsFiniteSet(WillStart(h)) /\ Cardinality(WillStart(h)) \in Nat
         /\ Cardinality(Dogs) \in Nat /\ Cardinality(WillStart(h)) <= Cardinality(Dogs)
<1>1. WillStart(h) \subseteq Dogs /\ IsFiniteSet(Dogs)
  BY LifecycleAssumption DEF WillStart
<1> QED
  BY <1>1, FS_Subset, FS_CardinalityType

LEMMA InitInv == Init => IInv
<1> SUFFICES ASSUME Init PROVE LifecycleInv
  BY InitType DEF IInv
<1>1. OneServer
  BY LifecycleAssumption DEF Init, OneServer
<1>2. ASSUME NEW h \in Helpers
      PROVE  count[h] + Cardinality(WillStart(h)) <= Cardinality(Dogs)
  BY WillStartFinite DEF Init
<1> QED
  BY <1>1, <1>2 DEF LifecycleInv, StartsBounded

\* Steps that leave the loops alone, or end some of them, keep the process
\* with the loop that waits for it.
LEMMA ServerKept ==
  ASSUME TypeOK, OneServer, [Next]_vars
  PROVE  OneServer'
<1> USE DEF OneServer
<1> DEFINE Same == UNCHANGED <<lpc, jvm>>
<1>1. ASSUME NEW l \in Loops, Boot(l) PROVE OneServer'
  BY <1>1, LifecycleAssumption DEF Boot, Loop, TypeOK
<1>2. ASSUME NEW l \in Loops, JavaExits(l) PROVE OneServer'
  BY <1>2, LifecycleAssumption DEF JavaExits, Loop, TypeOK
<1>3. ASSUME NEW l \in Loops,
             StartServer(l) \/ RmStop(l) \/ RunEvent(l) \/ ClearEvent(l)
               \/ TestStop(l) \/ Countdown(l)
      PROVE  OneServer'
  BY <1>3 DEF StartServer, RmStop, RunEvent, ClearEvent, TestStop, Countdown,
              Loop, TypeOK
<1>4. ASSUME NEW S \in SUBSET Loops, EndLoops(S) PROVE OneServer'
  BY <1>4 DEF EndLoops, TypeOK
<1>5. ASSUME NEW d \in Dogs, KillAll(d) PROVE OneServer'
  BY <1>4, <1>5 DEF KillAll
<1>6. CASE KillServer
  BY <1>4, <1>6 DEF KillServer
<1>7. ASSUME NEW o \in Scripts, Begin(o) \/ ScriptStep(o) \/ SendHangs(o) PROVE Same
  BY <1>7 DEF ScriptStep, Begin, Announce, Touch, SendStop, SendHangs, QuitRcon,
              loopVars
<1>8. ASSUME NEW d \in Dogs, DogStart(d) \/ Snapshot(d) \/ StartHelper(d) \/ CountRelays(d)
      PROVE  Same
  BY <1>8 DEF DogStart, Snapshot, StartHelper, CountRelays, loopVars
<1>9. ASSUME NEW h \in Helpers, HelperDies(h) PROVE Same
  BY <1>9 DEF HelperDies, loopVars
<1>10. CASE WriteFix \/ UNCHANGED vars
  BY <1>10 DEF WriteFix, vars
<1>11. CASE OrphanExits
  BY <1>11, LifecycleAssumption DEF OrphanExits, TypeOK
<1>12. Same => OneServer'
  OBVIOUS
<1> QED
  BY <1>1, <1>2, <1>3, <1>5, <1>6, <1>7, <1>8, <1>9, <1>10, <1>11, <1>12
     DEF Next, LoopStep, DogStep

\* For one helper: its sessions do not grow, and no watchdog takes up its start.
LEMMA NoMoreStarts ==
  ASSUME TypeOK, TypeOK', StartsBounded, NEW h \in Helpers,
         count'[h] <= count[h], WillStart(h)' \subseteq WillStart(h)
  PROVE  count'[h] + Cardinality(WillStart(h)') <= Cardinality(Dogs)
<1>1. /\ IsFiniteSet(WillStart(h)) /\ Cardinality(WillStart(h)) \in Nat
      /\ Cardinality(Dogs) \in Nat
  BY WillStartFinite
<1>2. /\ Cardinality(WillStart(h)') \in Nat
      /\ Cardinality(WillStart(h)') <= Cardinality(WillStart(h))
  BY <1>1, FS_Subset, FS_CardinalityType
<1>3. count[h] \in Nat /\ count'[h] \in Nat
  BY DEF TypeOK
<1>4. count[h] + Cardinality(WillStart(h)) <= Cardinality(Dogs)
  BY DEF StartsBounded
<1> QED
  BY <1>1, <1>2, <1>3, <1>4

\* Steps that start no helper and in which no watchdog comes to its helpers.
LEMMA FewerHelpers ==
  ASSUME TypeOK, TypeOK', StartsBounded,
         \A h \in Helpers : count'[h] <= count[h],
         \A d \in Dogs : \/ dpc'[d] = dpc[d] /\ snap'[d] = snap[d]
                         \/ dpc'[d] \in {"off", "list", "kill", "relays"}
  PROVE  StartsBounded'
<1>1. ASSUME NEW h \in Helpers PROVE WillStart(h)' \subseteq WillStart(h)
  BY NothingRemains DEF WillStart
<1> QED
  BY <1>1, NoMoreStarts DEF StartsBounded

\* A helper that the listing lacks has no session, so that not even every
\* watchdog's start of it is one too many.
LEMMA SnapshotInv ==
  ASSUME TypeOK, TypeOK', StartsBounded, NEW d \in Dogs, Snapshot(d)
  PROVE  StartsBounded'
<1>1. UNCHANGED count /\ snap' = [snap EXCEPT ![d] = Present]
  BY Zenon DEF Snapshot
<1>2. \E at : dpc' = [dpc EXCEPT ![d] = at]
  BY Zenon DEF Snapshot
<1>3. ASSUME NEW h \in Helpers
      PROVE  count'[h] + Cardinality(WillStart(h)') <= Cardinality(Dogs)
  <2>1. CASE h \in Present
    <3>1. WillStart(h)' \subseteq WillStart(h)
      BY <1>1, <1>2, <2>1 DEF WillStart, TypeOK
    <3>2. count'[h] <= count[h]
      BY <1>1 DEF TypeOK
    <3> QED
      BY <3>1, <3>2, NoMoreStarts
  <2>2. CASE h \notin Present
    <3>1. count'[h] = 0
      BY <1>1, <2>2 DEF Present, TypeOK
    <3>2. WillStart(h)' \subseteq Dogs /\ IsFiniteSet(Dogs)
      BY LifecycleAssumption DEF WillStart
    <3>3. /\ Cardinality(WillStart(h)') <= Cardinality(Dogs)
          /\ Cardinality(WillStart(h)') \in Nat /\ Cardinality(Dogs) \in Nat
      BY <3>2, FS_Subset, FS_CardinalityType
    <3> QED
      BY <3>1, <3>3
  <2> QED
    BY <2>1, <2>2
<1> QED
  BY <1>3 DEF StartsBounded

\* A session started is a start that was counted before.
LEMMA StartHelperInv ==
  ASSUME TypeOK, TypeOK', StartsBounded, NEW d \in Dogs, StartHelper(d)
  PROVE  StartsBounded'
<1> USE HelperFacts
<1>1. PICK i \in 1..Len(HelperOrder) :
        /\ dpc[d] = HelperOrder[i]
        /\ count' = IF HelperOrder[i] \in snap[d] THEN count
                    ELSE [count EXCEPT ![HelperOrder[i]] = @ + 1]
        /\ dpc' = [dpc EXCEPT ![d] =
                     IF i < Len(HelperOrder) THEN HelperOrder[i + 1]
                     ELSE IF RCON \in snap[d] THEN "relays" ELSE "off"]
        /\ snap' = IF i < Len(HelperOrder) THEN snap ELSE [snap EXCEPT ![d] = {}]
  BY Zenon DEF StartHelper
<1>2. Remaining(dpc[d]) = {HelperOrder[j] : j \in i..Len(HelperOrder)}
  BY <1>1, RemainsFrom
<1>3. ASSUME NEW e \in Dogs, e # d PROVE dpc'[e] = dpc[e] /\ snap'[e] = snap[e]
  BY <1>1, <1>3 DEF TypeOK
<1>4. ASSUME NEW h \in Remaining(dpc'[d])
      PROVE  h \in Remaining(dpc[d]) /\ snap'[d] = snap[d] /\ h # HelperOrder[i]
  <2>1. CASE i < Len(HelperOrder)
    <3>1. dpc'[d] = HelperOrder[i + 1]
      BY <1>1, <2>1 DEF TypeOK
    <3>2. i + 1 \in 1..Len(HelperOrder)
      BY <2>1
    <3>3. Remaining(dpc'[d]) = {HelperOrder[j] : j \in (i + 1)..Len(HelperOrder)}
      BY <3>1, <3>2, RemainsFrom
    <3>4. PICK j \in (i + 1)..Len(HelperOrder) : h = HelperOrder[j]
      BY <1>4, <3>3
    <3> QED
      BY <1>1, <1>2, <2>1, <3>4, LifecycleAssumption
  <2>2. CASE ~(i < Len(HelperOrder))
    <3>1. dpc'[d] \in {"relays", "off"}
      BY <1>1, <2>2 DEF TypeOK
    <3> QED
      BY <1>4, <3>1, NothingRemains
  <2> QED
    BY <2>1, <2>2
<1>5. ASSUME NEW h \in Helpers PROVE WillStart(h)' \subseteq WillStart(h)
  BY <1>3, <1>4 DEF WillStart
<1>6. ASSUME NEW h \in Helpers
      PROVE  count'[h] + Cardinality(WillStart(h)') <= Cardinality(Dogs)
  <2>1. CASE h # HelperOrder[i] \/ HelperOrder[i] \in snap[d]
    <3>1. count'[h] <= count[h]
      BY <1>1, <2>1 DEF TypeOK
    <3> QED
      BY <1>5, <3>1, NoMoreStarts
  <2>2. CASE h = HelperOrder[i] /\ HelperOrder[i] \notin snap[d]
    <3>1. count'[h] = count[h] + 1 /\ count[h] \in Nat
      BY <1>1, <2>2 DEF TypeOK
    <3>2. h \in Remaining(dpc[d])
      BY <1>2, <2>2
    <3>3. d \in WillStart(h)
      BY <2>2, <3>2 DEF WillStart
    <3>4. d \notin WillStart(h)'
      BY <1>4, <2>2 DEF WillStart
    <3>5. WillStart(h)' \subseteq WillStart(h) \ {d}
      BY <1>5, <3>4
    <3>6. /\ IsFiniteSet(WillStart(h) \ {d})
          /\ Cardinality(WillStart(h) \ {d}) = Cardinality(WillStart(h)) - 1
      BY <3>3, WillStartFinite, FS_RemoveElement
    <3>7. /\ Cardinality(WillStart(h)') <= Cardinality(WillStart(h) \ {d})
          /\ Cardinality(WillStart(h)') \in Nat
      BY <3>5, <3>6, FS_Subset, FS_CardinalityType
    <3>8. count[h] + Cardinality(WillStart(h)) <= Cardinality(Dogs)
      BY DEF StartsBounded
    <3> QED
      BY <3>1, <3>6, <3>7, <3>8, WillStartFinite
  <2> QED
    BY <2>1, <2>2
<1> QED
  BY <1>6 DEF StartsBounded

LEMMA NextInv == IInv /\ [Next]_vars => IInv'
<1> SUFFICES ASSUME IInv, [Next]_vars PROVE IInv'
  OBVIOUS
<1> USE DEF IInv, LifecycleInv
<1>1. TypeOK' /\ OneServer'
  BY NextType, ServerKept
<1> DEFINE Fewer == /\ \A h \in Helpers : count'[h] <= count[h]
                    /\ \A d \in Dogs : \/ dpc'[d] = dpc[d] /\ snap'[d] = snap[d]
                                       \/ dpc'[d] \in {"off", "list", "kill", "relays"}
<1>2. UNCHANGED <<count, dpc, snap>> => Fewer
  BY DEF TypeOK
<1>3. ASSUME NEW l \in Loops, StartServer(l) \/ LoopStep(l) \/ JavaExits(l)
      PROVE  UNCHANGED <<count, dpc, snap>>
  BY <1>3 DEF LoopStep, StartServer, RmStop, Boot, JavaExits, RunEvent, ClearEvent,
              TestStop, Countdown, dogVars
<1>4. ASSUME NEW o \in Scripts,
             Begin(o) \/ Announce(o) \/ Touch(o) \/ SendHangs(o)
      PROVE  UNCHANGED <<count, dpc, snap>>
  BY <1>4 DEF Begin, Announce, Touch, SendHangs, dogVars
<1>5. ASSUME NEW o \in Scripts, SendStop(o) \/ QuitRcon(o) PROVE Fewer
  <2>1. UNCHANGED <<dpc, snap>>
    BY <1>5 DEF SendStop, QuitRcon, dogVars
  <2>2. \/ UNCHANGED count
        \/ count' = [count EXCEPT ![RCON] = count[RCON] - 1]
        \/ count[RCON] = 1 /\ count' = [count EXCEPT ![RCON] = 0]
    BY <1>5 DEF SendStop, QuitRcon
  <2>3. RCON \in Helpers /\ count \in [Helpers -> Nat]
    BY HelperFacts DEF TypeOK
  <2>4. \A h \in Helpers : count'[h] <= count[h]
    BY <2>2, <2>3
  <2> QED
    BY <2>1, <2>4
<1>6. ASSUME NEW h \in Helpers, HelperDies(h) PROVE Fewer
  <2>1. UNCHANGED <<dpc, snap>> /\ count' = [count EXCEPT ![h] = @ - 1]
    BY <1>6 DEF HelperDies, dogVars
  <2> QED
    BY <2>1 DEF TypeOK
<1>7. ASSUME NEW d \in Dogs, DogStart(d) \/ KillAll(d) \/ CountRelays(d) PROVE Fewer
  <2>1. \E at \in {"off", "list"} : dpc' = [dpc EXCEPT ![d] = at]
    BY <1>7 DEF DogStart, KillAll, CountRelays
  <2>2. \A e \in Dogs : e # d => snap'[e] = snap[e]
    BY <1>7 DEF DogStart, KillAll, CountRelays, TypeOK
  <2>3. \/ UNCHANGED count
        \/ count' = [h \in Helpers |-> 0]
        \/ count' = [count EXCEPT ![RCON] = 0]
    BY <1>7 DEF DogStart, KillAll, CountRelays
  <2>4. RCON \in Helpers /\ count \in [Helpers -> Nat]
    BY HelperFacts DEF TypeOK
  <2>5. \A h \in Helpers : count'[h] <= count[h]
    BY <2>3, <2>4
  <2> QED
    BY <2>1, <2>2, <2>5 DEF TypeOK
<1>8. ASSUME NEW d \in Dogs, Snapshot(d) \/ StartHelper(d) PROVE StartsBounded'
  BY <1>1, <1>8, SnapshotInv, StartHelperInv
<1>9. WriteFix \/ KillServer \/ OrphanExits \/ UNCHANGED vars => UNCHANGED <<count, dpc, snap>>
  BY DEF WriteFix, KillServer, OrphanExits, vars, dogVars
<1>10. Fewer => StartsBounded'
  BY <1>1, FewerHelpers
<1>11. Fewer \/ StartsBounded'
  BY <1>2, <1>3, <1>4, <1>5, <1>6, <1>7, <1>8, <1>9 DEF Next, ScriptStep, DogStep
<1> QED
  BY <1>1, <1>10, <1>11

\* A server process belongs to the loop that waits for it, or to a session that
\* was ended, and what watchdogs have started and will start is bounded.
THEOREM LifecycleSafe == Spec => []LifecycleInv
<1>1. IInv => LifecycleInv
  BY DEF IInv
<1> QED
  BY <1>1, InitInv, NextInv, PTL DEF Spec

\* No helper ever has more sessions than watchdogs that can overlap, whatever
\* crashes, is killed or is quit between a watchdog's listing and its starting
\* of what the listing lacks.  With one watchdog at a time none runs twice.
THEOREM SessionsBounded == Spec => []HelpersBounded
<1>1. IInv => HelpersBounded
  <2> SUFFICES ASSUME IInv, NEW h \in Helpers PROVE count[h] <= Cardinality(Dogs)
    BY DEF HelpersBounded
  <2>1. count[h] + Cardinality(WillStart(h)) <= Cardinality(Dogs) /\ count[h] \in Nat
    BY DEF IInv, LifecycleInv, StartsBounded, TypeOK
  <2> QED
    BY <2>1, WillStartFinite
<1> QED
  BY <1>1, InitInv, NextInv, PTL DEF Spec

------------------------------------------------------------------------------
(* A fix and the loops that run it *)

\* While a loop has not run what is in stopevent.sh, a fix there is one that it
\* has not counted; between its run and the clearing, or when the loop has been
\* ended there, this no longer holds.
FixInv ==
  \A l \in Loops : /\ ran[l] <= wrote
                   /\ event /\ lpc[l] \notin {"clear", "gone"} => ran[l] < wrote

\* Steps that run nothing, write nothing and, at the most, end loops.
LEMMA FixKept ==
  ASSUME FixInv, ran' = ran, wrote' = wrote, event' \in {event, FALSE},
         \A l \in Loops : lpc[l] \in {"clear", "gone"} => \/ lpc'[l] \in {"clear", "gone"}
                                                          \/ event' = FALSE
  PROVE  FixInv'
<1>1. ASSUME NEW l \in Loops PROVE ran'[l] <= wrote'
  BY DEF FixInv
<1>2. ASSUME NEW l \in Loops, event', lpc'[l] \notin {"clear", "gone"}
      PROVE  ran'[l] < wrote'
  BY <1>2, Zenon DEF FixInv
<1> QED
  BY <1>1, <1>2 DEF FixInv

LEMMA FixNext ==
  ASSUME TypeOK, FixInv, [Next]_vars
  PROVE  FixInv'
<1> DEFINE Runs == ran' = ran /\ wrote' = wrote /\ event' = event
           Ends == \A l \in Loops : lpc[l] \in {"clear", "gone"} =>
                                      lpc'[l] \in {"clear", "gone"}
<1>1. ASSUME NEW l \in Loops, RunEvent(l) PROVE FixInv'
  <2>1. /\ lpc[l] = "event" /\ lpc' = [lpc EXCEPT ![l] = "clear"] /\ wrote' = wrote
        /\ event' = event /\ ran' = (IF event THEN [ran EXCEPT ![l] = @ + 1] ELSE ran)
    BY <1>1 DEF RunEvent, Loop
  <2>2. event => ran[l] < wrote
    BY <2>1 DEF FixInv
  <2>3. ran'[l] <= wrote' /\ lpc'[l] = "clear"
    BY <2>1, <2>2 DEF FixInv, TypeOK
  <2>4. ASSUME NEW m \in Loops, m # l PROVE ran'[m] = ran[m] /\ lpc'[m] = lpc[m]
    BY <2>1, <2>4 DEF TypeOK
  <2> QED
    BY <2>1, <2>3, <2>4 DEF FixInv
<1>2. ASSUME NEW l \in Loops, ClearEvent(l) PROVE FixInv'
  BY <1>2, FixKept DEF ClearEvent
<1>3. ASSUME NEW l \in Loops,
             StartServer(l) \/ RmStop(l) \/ Boot(l) \/ JavaExits(l) \/ TestStop(l)
               \/ Countdown(l)
      PROVE  Runs /\ Ends
  <2>1. Runs
    BY <1>3 DEF StartServer, RmStop, Boot, JavaExits, TestStop, Countdown
  <2>2. /\ lpc[l] \notin {"clear", "gone"}
        /\ \E to : lpc' = [lpc EXCEPT ![l] = to]
    BY <1>3 DEF StartServer, RmStop, Boot, JavaExits, TestStop, Countdown, Loop
  <2> QED
    BY <2>1, <2>2 DEF TypeOK
<1>4. ASSUME NEW S \in SUBSET Loops, EndLoops(S) PROVE Ends
  BY <1>4 DEF EndLoops
<1>5. ASSUME NEW d \in Dogs, KillAll(d) PROVE Runs /\ Ends
  BY <1>4, <1>5 DEF KillAll
<1>6. ASSUME KillServer PROVE Runs /\ Ends
  <2> DEFINE live == {l \in Loops : Live(l)}
  <2>1. Runs /\ EndLoops(IF Cardinality(live) = 1 THEN live ELSE {})
    BY <1>6 DEF KillServer
  <2>2. (IF Cardinality(live) = 1 THEN live ELSE {}) \in SUBSET Loops
    OBVIOUS
  <2> QED
    BY <1>4, <2>1, <2>2
<1>7. ASSUME NEW o \in Scripts, Begin(o) \/ ScriptStep(o) \/ SendHangs(o) PROVE Runs /\ Ends
  BY <1>7 DEF ScriptStep, Begin, Announce, Touch, SendStop, SendHangs, QuitRcon, loopVars
<1>8. ASSUME NEW d \in Dogs, DogStart(d) \/ Snapshot(d) \/ StartHelper(d) \/ CountRelays(d)
      PROVE  Runs /\ Ends
  BY <1>8 DEF DogStart, Snapshot, StartHelper, CountRelays, loopVars
<1>9. ASSUME NEW h \in Helpers, HelperDies(h) PROVE Runs /\ Ends
  BY <1>9 DEF HelperDies, loopVars
<1>10. CASE WriteFix
  <2>1. ran' = ran /\ wrote' = wrote + 1 /\ ran \in [Loops -> Nat] /\ wrote \in Nat
    BY <1>10 DEF WriteFix, TypeOK
  <2>2. \A l \in Loops : ran'[l] < wrote' /\ ran'[l] <= wrote'
    BY <2>1 DEF FixInv
  <2> QED
    BY <2>2 DEF FixInv
<1>11. OrphanExits \/ UNCHANGED vars => Runs /\ Ends
  BY DEF OrphanExits, vars
<1>12. Runs /\ Ends => FixInv'
  BY FixKept
<1> QED
  BY <1>1, <1>2, <1>3, <1>5, <1>6, <1>7, <1>8, <1>9, <1>10, <1>11, <1>12
     DEF Next, LoopStep, DogStep

\* One run of serverloop.sh never runs a fix twice, whatever is written to
\* stopevent.sh meanwhile, also beside other runs of the loop and after one
\* that a kill ended between the run of the fix and its clearing.
THEOREM EachLoopRunsFixOnce == Spec => []FixesRunOnce
<1>1. Init => FixInv
  BY DEF Init, FixInv
<1>2. TypeOK /\ FixInv /\ [Next]_vars => FixInv'
  BY FixNext
<1>3. FixInv => FixesRunOnce
  BY DEF FixInv, FixesRunOnce
<1> QED
  BY <1>1, <1>2, <1>3, TypeCorrect, PTL DEF Spec

===============================================================================
