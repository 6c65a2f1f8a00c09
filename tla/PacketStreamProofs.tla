-------------------------- MODULE PacketStreamProofs --------------------------
(***************************************************************************)
(* Proofs about PacketStream: a client that plays speaks its server's      *)
(* version, for any servers, offers of versions, widths and bounds.        *)
(***************************************************************************)
EXTENDS PacketStream, WellFoundedInduction, FiniteSetTheorems, TLAPS

-----------------------------------------------------------------------------
(***************************************************************************)
(* Sets of versions.                                                       *)
(***************************************************************************)
LEMMA VersionsBounded == SupportedVersions \subseteq 0..600
BY SMT DEF SupportedVersions

LEMMA MaxOf ==
  ASSUME NEW n \in Nat, NEW S, S # {}, \A v \in S : v \in 0..n
  PROVE  Max(S) \in S
<1> DEFINE T == {n - v : v \in S}
<1>1. \A v \in S : v \in 0..n
  OBVIOUS
<1>2. T \subseteq Nat /\ T # {}
  <2>1. \A v \in S : n - v \in Nat
    BY <1>1
  <2> QED BY <2>1
<1>3. PICK t \in T : \A u \in T : ~ (<<u, t>> \in OpToRel(<, Nat))
  BY <1>2, WFMin, NatLessThanWellFounded
<1>4. \A u \in T : ~ (u < t)
  BY <1>2, <1>3 DEF OpToRel
<1>5. PICK v \in S : t = n - v
  BY <1>3
<1>6. \A w \in S : v >= w
  <2> SUFFICES ASSUME NEW w \in S PROVE v >= w
    OBVIOUS
  <2>1. n - w \in T /\ ~ (n - w < n - v)
    BY <1>4, <1>5
  <2>2. v \in 0..n /\ w \in 0..n
    BY <1>1, <1>5
  <2> HIDE DEF T
  <2> QED BY <2>1, <2>2, SMT
<1> QED BY <1>6 DEF Max

\* Programs may name any set of versions, Max picks one of them.
LEMMA MaxIsOne ==
  ASSUME NEW S \in SUBSET SupportedVersions, S # {}
  PROVE  Max(S) \in S
<1>1. PICK n \in Nat : n = 600
  OBVIOUS
<1>2. \A v \in S : v \in 0..n
  BY <1>1, VersionsBounded
<1> QED BY <1>2, MaxOf

\* One allowed version is the one that the client speaks.
LEMMA OneVersion ==
  ASSUME NEW S \in SUBSET SupportedVersions, Cardinality(S) = 1
  PROVE  Max(S) \in S
<1>1. S \in SUBSET Nat /\ \A v \in S : v <= 600
  BY VersionsBounded, SMT
<1>2. 600 \in Nat
  OBVIOUS
<1>3. IsFiniteSet(S)
  BY <1>1, <1>2, FS_BoundedSetOfNaturals
<1>4. \E v : S = {v}
  BY <1>3, FS_Singleton, Zenon
<1> QED BY <1>4, MaxIsOne, Zenon

-----------------------------------------------------------------------------
(***************************************************************************)
(* SpokenVersion is not inductive: a client could be about to read that it *)
(* has logged in to a server of another version.  What is on the wire says *)
(* so only if the versions agree, and versions change only when nobody     *)
(* logs in or plays.                                                       *)
(***************************************************************************)
Offered ==
  /\ original \subseteq SupportedVersions /\ default \in SupportedVersions
  /\ allowed \subseteq original \cup {default}

Welcomes(item) == item.state = "login" /\ item.kind = "LoginSuccess"

WelcomeIsEqual ==
  phase = "login" =>
    \A i \in 1..Len(wire) : Welcomes(wire[i]) => context = server

VersionInv ==
  /\ Offered
  /\ \E S : wire \in Seq(S)
  /\ WelcomeIsEqual
  /\ phase \in {"login", "play"} => context \in original \cup {default}
  /\ phase = "play" => context = server

\* The server says something to a client that stays as it is.
Told ==
  /\ UNCHANGED <<clientVars, server>>
  /\ \E item : wire' = Append(wire, item) /\ (Welcomes(item) => context = server)

LEMMA TellTold ==
  ASSUME NEW state, NEW k, NEW body, Tell(state, k, body),
         state = "play" \/ k # "LoginSuccess" \/ context = server
  PROVE  Told
<1> DEFINE item == Item(state, k,
      IF state = "login" THEN LoginIds[server][k] ELSE InIds[server][k], body)
<1>1. wire' = Append(wire, item) /\ UNCHANGED <<clientVars, server>>
  BY DEF Tell
<1>2. item.state = state /\ item.kind = k
  BY DEF Item
<1>3. Welcomes(item) => context = server
  BY <1>2 DEF Welcomes
<1> QED BY <1>1, <1>3 DEF Told

LEMMA ToldInv == ASSUME VersionInv, Told PROVE VersionInv'
<1>1. UNCHANGED <<phase, original, allowed, default, context, server>>
  BY DEF Told, clientVars
<1>2. PICK item : wire' = Append(wire, item) /\ (Welcomes(item) => context = server)
  BY DEF Told
<1>3. PICK S : wire \in Seq(S)
  BY DEF VersionInv
<1>4. wire \in Seq(S \cup {item}) /\ item \in S \cup {item}
  BY <1>3
<1>5. wire' \in Seq(S \cup {item})
  BY <1>2, <1>4
<1>6. \A i \in 1..Len(wire') :
        IF i \in 1..Len(wire) THEN wire'[i] = wire[i] ELSE wire'[i] = item
  BY <1>2, <1>4
<1>7. WelcomeIsEqual'
  BY <1>1, <1>2, <1>6 DEF VersionInv, WelcomeIsEqual, Welcomes
<1> QED BY <1>1, <1>5, <1>7 DEF VersionInv, Offered

LEMMA ServeLoginTold == ServeLogin => Told
<1> SUFFICES ASSUME ServeLogin PROVE Told
  OBVIOUS
<1>1. PICK k : Tell("login", k, IF k = "SetCompression" THEN <<Cell("VarInt", Threshold)>>
                                ELSE Cells(Login!Fields[k]))
  BY DEF ServeLogin
<1>2. context = server
  BY DEF ServeLogin
<1> QED BY <1>1, <1>2, TellTold

LEMMA ServePlayTold == ServePlay => Told
<1>1. TellPlain => \E k, body : Tell("play", k, body)
  BY DEF TellPlain
<1>2. AskAlive => \E k, body : Tell("play", k, body)
  BY DEF AskAlive
<1>3. Move => \E k, body : Tell("play", k, body)
  BY DEF Move
<1>4. List => \E k, body : Tell("play", k, body)
  BY DEF List
<1>5. Paint => \E k, body : Tell("play", k, body)
  BY ZenonT(60) DEF Paint
<1>6. Change => \E k, body : Tell("play", k, body)
  BY DEF Change
<1>7. ServePlay => \E k, body : Tell("play", k, body)
  BY <1>1, <1>2, <1>3, <1>4, <1>5, <1>6 DEF ServePlay
<1> QED BY <1>7, TellTold

-----------------------------------------------------------------------------
(* The client connects, reads, and ends. *)

LEMMA ConnectInv ==
  ASSUME VersionInv, NEW versions \in SUBSET (original \cup {default}),
         Connect(versions)
  PROVE  VersionInv'
<1>1. UNCHANGED <<original, default, server>> /\ allowed' = versions
      /\ context' = Max(versions) /\ wire' = <<>>
  BY DEF Connect
<1>2. versions \in SUBSET SupportedVersions
  BY DEF VersionInv, Offered
<1>3. \/ phase' = "login" /\ Cardinality(versions) = 1
      \/ phase' = "status"
  BY DEF Connect
<1>4. phase' = "login" => context' \in original \cup {default}
  BY <1>1, <1>2, <1>3, OneVersion
<1>5. wire' \in Seq({}) /\ Len(wire') = 0
  BY <1>1
<1>6. WelcomeIsEqual'
  BY <1>5, SMT DEF WelcomeIsEqual
<1>7. phase' \in {"login", "status"}
  BY <1>3
<1> QED BY <1>1, <1>4, <1>5, <1>6, <1>7 DEF VersionInv, Offered

\* Nobody logs in or plays after this step, and the versions are as they were.
LEMMA LeaveInv ==
  ASSUME VersionInv, UNCHANGED <<original, allowed, default, wire>>,
         phase' \notin {"login", "play"}
  PROVE  VersionInv'
BY DEF VersionInv, Offered, WelcomeIsEqual

\* Nothing that the invariant is about changes.
LEMMA IdleInv ==
  ASSUME VersionInv,
         UNCHANGED <<phase, original, allowed, default, context, server, wire>>
  PROVE  VersionInv'
BY DEF VersionInv, Offered, WelcomeIsEqual, Welcomes

LEMMA StatusInv == ASSUME VersionInv, Status PROVE VersionInv'
<1>1. CASE End
  BY <1>1, LeaveInv DEF End, Over
<1>2. ASSUME NEW v, v \in original \cup {default}, Connect({v}) PROVE VersionInv'
  BY <1>2, ConnectInv
<1>3. CASE Answered(server)
  <2>1. (server \in allowed /\ Connect({server})) \/ End
    BY <1>3 DEF Answered
  <2>2. server \in allowed => server \in original \cup {default}
    BY DEF VersionInv, Offered
  <2> QED BY <1>1, <1>2, <2>1, <2>2
<1>4. CASE Unanswered
  BY <1>2, <1>4 DEF Unanswered
<1> QED BY <1>1, <1>3, <1>4 DEF Status

LEMMA ReceiveInv == ASSUME VersionInv, Receive PROVE VersionInv'
<1>1. /\ UNCHANGED <<original, allowed, default, context, server>>
      /\ wire' = Tail(wire) /\ wire # <<>> /\ phase \in {"login", "play"}
  BY DEF Receive
<1>2. PICK S : wire \in Seq(S)
  BY DEF VersionInv
<1>3. /\ wire' \in Seq(S) /\ Head(wire) = wire[1] /\ 1 \in 1..Len(wire)
      /\ \A i \in 1..Len(wire') : i + 1 \in 1..Len(wire) /\ wire'[i] = wire[i + 1]
  BY <1>1, <1>2
<1>4. ASSUME phase = "login", ReactLogin(Head(wire)), Head(wire).state = "login"
      PROVE  \/ phase' \in {"login", "over"}
             \/ phase' = "play" /\ Welcomes(Head(wire))
  BY <1>4 DEF ReactLogin, Over, Welcomes
<1>5. ASSUME ReactPlay(Head(wire)) PROVE phase' \in {phase, "over"}
  BY <1>5 DEF ReactPlay, Over
<1>6. \/ phase' \in {phase, "over"}
      \/ phase = "login" /\ phase' = "play" /\ Welcomes(Head(wire))
  <2>1. CASE Head(wire).state = phase /\ Reads(Head(wire)) /\ phase = "login"
    BY <1>4, <2>1 DEF Receive
  <2>2. CASE Head(wire).state = phase /\ Reads(Head(wire)) /\ phase # "login"
    BY <1>5, <2>2 DEF Receive
  <2>3. CASE ~ (Head(wire).state = phase /\ Reads(Head(wire)))
    BY <2>3 DEF Receive
  <2> QED BY <2>1, <2>2, <2>3
<1>7. phase' = "play" => context = server
  BY <1>3, <1>6 DEF VersionInv, WelcomeIsEqual
<1>8. WelcomeIsEqual'
  <2>1. phase' = "login" => phase = "login"
    BY <1>1, <1>6
  <2> QED BY <1>1, <1>3, <2>1 DEF VersionInv, WelcomeIsEqual, Welcomes
<1>9. phase' \in {"login", "play"} => context' \in original' \cup {default'}
  BY <1>1, <1>6 DEF VersionInv
<1> QED BY <1>1, <1>3, <1>7, <1>8, <1>9 DEF VersionInv, Offered

-----------------------------------------------------------------------------
LEMMA VersionInvInit == Init => VersionInv
<1> SUFFICES ASSUME Init PROVE VersionInv
  OBVIOUS
<1>1. original \in SUBSET SupportedVersions /\ original # {}
  BY VersionAssumption DEF Init
<1>2. Max(original) \in SupportedVersions
  BY <1>1, MaxIsOne
<1>3. default \in SupportedVersions
  BY <1>2, VersionAssumption DEF Init
<1>4. phase = "idle" /\ wire = <<>> /\ allowed = original
  BY DEF Init
<1>5. wire \in Seq({})
  BY <1>4
<1> QED BY <1>1, <1>3, <1>4, <1>5 DEF VersionInv, Offered, WelcomeIsEqual

LEMMA VersionInvStep == VersionInv /\ [Next]_vars => VersionInv'
<1> SUFFICES ASSUME VersionInv, [Next]_vars PROVE VersionInv'
  OBVIOUS
<1>1. CASE Dial
  BY <1>1, ConnectInv DEF Dial, VersionInv, Offered
<1>2. CASE Upgrade
  BY <1>2, LeaveInv DEF Upgrade, clientVars
<1>3. CASE Status
  BY <1>3, StatusInv
<1>4. CASE Outdated
  <2>1. Tell("login", "Disconnect", Cells(Login!Fields["Disconnect"]))
    BY <1>4 DEF Outdated
  <2> QED BY <2>1, TellTold, ToldInv
<1>5. CASE HangUp
  BY <1>5, LeaveInv DEF HangUp, End, Over
<1>6. CASE ServeLogin
  BY <1>6, ServeLoginTold, ToldInv
<1>7. CASE ServePlay
  BY <1>7, ServePlayTold, ToldInv
<1>8. CASE Hear
  BY <1>8, IdleInv DEF Hear, clientVars
<1>9. CASE Receive
  BY <1>9, ReceiveInv
<1>10. CASE Speak
  BY <1>10, IdleInv DEF Speak, clientVars, serverVars
<1>11. CASE UNCHANGED vars
  BY <1>11, IdleInv DEF vars, clientVars, serverVars
<1> QED BY <1>1, <1>2, <1>3, <1>4, <1>5, <1>6, <1>7, <1>8, <1>9, <1>10, <1>11 DEF Next

\* Whatever a program allows and whichever versions the servers have, a client
\* plays only in its server's version, and in one that was allowed, or the
\* default; also after the server has been upgraded (connection.py:352-387).
THEOREM Spoken == Spec => []SpokenVersion
<1>1. VersionInv => SpokenVersion
  BY DEF VersionInv, SpokenVersion
<1> QED BY <1>1, VersionInvInit, VersionInvStep, PTL DEF Spec

-----------------------------------------------------------------------------
(***************************************************************************)
(* The tables of ids: an id is given by the versions at which it changes,  *)
(* the first of which is 0, and is a byte of 7 bits.                       *)
(***************************************************************************)
Changes(S) ==
  /\ \A c \in S : c[1] \in Nat /\ c[2] \in 0..127
  /\ \E c \in S : c[1] = 0

LEMMA SinceIsAnId ==
  ASSUME NEW S, Changes(S), NEW v \in Nat
  PROVE  Since(S, v) \in 0..127
<1> DEFINE T == {c[1] : c \in {d \in S : d[1] <= v}}
<1>1. (\A t \in T : t \in 0..v) /\ T # {}
  BY DEF Changes
<1>2. Max(T) \in T
  BY <1>1, MaxOf
<1>3. \E c \in S : c[1] = Max(T)
  BY <1>2
<1>4. (CHOOSE c \in S : c[1] = Max(T)) \in S
  BY <1>3
<1> QED
  BY <1>4 DEF Since, Changes

LEMMA PlayIds == \A k \in DOMAIN In!Ids : Changes(In!Ids[k])
<1>1. Changes(In!KeepAlive)
  BY DEF Changes, In!KeepAlive
<1>2. Changes(In!JoinGame)
  BY DEF Changes, In!JoinGame
<1>3. Changes(In!ServerDifficulty)
  BY DEF Changes, In!ServerDifficulty
<1>4. Changes(In!ChatMessage)
  BY DEF Changes, In!ChatMessage
<1>5. Changes(In!Disconnect)
  BY DEF Changes, In!Disconnect
<1>6. Changes(In!SetCompression)
  BY DEF Changes, In!SetCompression
<1>7. Changes(In!SpawnPlayer)
  BY DEF Changes, In!SpawnPlayer
<1>8. Changes(In!EntityVelocity)
  BY DEF Changes, In!EntityVelocity
<1>9. Changes(In!UpdateHealth)
  BY DEF Changes, In!UpdateHealth
<1>10. Changes(In!Respawn)
  BY DEF Changes, In!Respawn
<1>11. Changes(In!PluginMessage)
  BY DEF Changes, In!PluginMessage
<1>12. Changes(In!PlayerListHeaderAndFooter)
  BY DEF Changes, In!PlayerListHeaderAndFooter
<1>13. Changes(In!EntityLook)
  BY DEF Changes, In!EntityLook
<1>14. Changes(In!BlockChange)
  BY DEF Changes, In!BlockChange
<1>15. Changes(In!MultiBlockChange)
  BY DEF Changes, In!MultiBlockChange
<1>16. Changes(In!CombatEvent)
  BY DEF Changes, In!CombatEvent
<1>17. Changes(In!Explosion)
  BY DEF Changes, In!Explosion
<1>18. Changes(In!FacePlayer)
  BY DEF Changes, In!FacePlayer
<1>19. Changes(In!Map)
  BY DEF Changes, In!Map
<1>20. Changes(In!PlayerListItem)
  BY DEF Changes, In!PlayerListItem
<1>21. Changes(In!PlayerPositionAndLook)
  BY DEF Changes, In!PlayerPositionAndLook
<1>22. Changes(In!SoundEffect)
  BY DEF Changes, In!SoundEffect
<1>23. Changes(In!SpawnObject)
  BY DEF Changes, In!SpawnObject
<1> QED
  BY <1>1, <1>2, <1>3, <1>4, <1>5, <1>6, <1>7, <1>8, <1>9, <1>10, <1>11, <1>12, <1>13, <1>14, <1>15, <1>16, <1>17, <1>18, <1>19, <1>20, <1>21, <1>22, <1>23 DEF In!Ids

LEMMA LoginChanges == \A k \in DOMAIN Login!Ids : Changes(Login!Ids[k])
<1>1. Changes(Login!Disconnect)
  BY DEF Changes, Login!Disconnect
<1>2. Changes(Login!EncryptionRequest)
  BY DEF Changes, Login!EncryptionRequest
<1>3. Changes(Login!LoginSuccess)
  BY DEF Changes, Login!LoginSuccess
<1>4. Changes(Login!SetCompression)
  BY DEF Changes, Login!SetCompression
<1>5. Changes(Login!PluginRequest)
  BY DEF Changes, Login!PluginRequest
<1> QED
  BY <1>1, <1>2, <1>3, <1>4, <1>5 DEF Login!Ids

\* Of a table built from ids in 0..127, and from kinds that are in K.
LEMMA TablesType ==
  ASSUME NEW ids, NEW K, DOMAIN ids \subseteq K, \A k \in DOMAIN ids : ids[k] \in 0..127,
         NEW tab \in Tables(ids)
  PROVE  \A i \in DOMAIN tab : i \in 0..127 /\ tab[i] \in K
<1>1. PICK first \in DOMAIN ids :
        tab = [i \in Range(ids) |->
                 IF ids[first] = i THEN first ELSE CHOOSE k \in DOMAIN ids : ids[k] = i]
  BY DEF Tables
<1>2. ASSUME NEW i \in Range(ids)
      PROVE  i \in 0..127 /\ (CHOOSE k \in DOMAIN ids : ids[k] = i) \in K
  BY <1>2 DEF Range
<1> QED
  BY <1>1, <1>2

LEMMA NewTableType ==
  ASSUME NEW reactor, NEW v \in SupportedVersions, NewTable(reactor, v)
  PROVE  \A i \in DOMAIN table' :
           i \in 0..127 /\ table'[i] \in DOMAIN In!Ids \cup DOMAIN Login!Ids
<1>1. v \in Nat
  BY VersionsBounded
<1>2. /\ DOMAIN InIds[v] \subseteq DOMAIN In!Ids
      /\ \A k \in DOMAIN InIds[v] : InIds[v][k] \in 0..127
  <2>1. InIds[v] = [k \in In!Packets(v) |-> Since(In!Ids[k], v)]
    BY DEF InIds
  <2>2. In!Packets(v) \subseteq DOMAIN In!Ids
    BY DEF In!Packets
  <2>3. \A k \in In!Packets(v) : Since(In!Ids[k], v) \in 0..127
    BY <1>1, <2>2, PlayIds, SinceIsAnId
  <2> QED
    BY <2>1, <2>2, <2>3
<1>3. /\ DOMAIN LoginIds[v] \subseteq DOMAIN Login!Ids
      /\ \A k \in DOMAIN LoginIds[v] : LoginIds[v][k] \in 0..127
  <2>1. LoginIds[v] = [k \in Login!Packets(v) |-> Since(Login!Ids[k], v)]
    BY DEF LoginIds
  <2>2. Login!Packets(v) \subseteq DOMAIN Login!Ids
    BY DEF Login!Packets
  <2>3. \A k \in Login!Packets(v) : Since(Login!Ids[k], v) \in 0..127
    BY <1>1, <2>2, LoginChanges, SinceIsAnId
  <2> QED
    BY <2>1, <2>2, <2>3
<1> DEFINE K == DOMAIN In!Ids \cup DOMAIN Login!Ids
<1>4. table' \in Tables(LoginIds[v]) \/ table' \in Tables(InIds[v])
  BY DEF NewTable
<1>5. DOMAIN InIds[v] \subseteq K /\ DOMAIN LoginIds[v] \subseteq K
  BY <1>2, <1>3
<1> HIDE DEF K
<1>6. \A i \in DOMAIN table' : i \in 0..127 /\ table'[i] \in K
  BY <1>2, <1>3, <1>4, <1>5, TablesType
<1> QED
  BY <1>6 DEF K

-----------------------------------------------------------------------------
(***************************************************************************)
(* Types.  Beside TypeOK: some version is allowed; both ways are sequences;*)
(* and a packet that sets the compression carries the servers' threshold,  *)
(* which is what enabled and threshold are read from.                      *)
(***************************************************************************)
Thresholds(item) == item.kind = "SetCompression" => Value(item.body, 1) = Threshold

StreamInv ==
  /\ TypeOK
  /\ allowed # {}
  /\ \E S : back \in Seq(S)
  /\ \E S : wire \in Seq(S)
  /\ \A i \in 1..Len(wire) : Thresholds(wire[i])

Servings == {"idle", "status", "login", "play", "gone"}

LEMMA StreamInvInit == Init => StreamInv
<1> SUFFICES ASSUME Init PROVE StreamInv
  OBVIOUS
<1>1. original \in SUBSET SupportedVersions /\ original # {}
  BY VersionAssumption DEF Init
<1>2. Max(original) \in SupportedVersions
  BY <1>1, MaxIsOne
<1>3. default \in SupportedVersions
  BY <1>2, VersionAssumption DEF Init
<1>4. server \in Servers \cup SupportedVersions /\ topic \in Topics
  BY DEF Init, Topics
<1>5. wire = <<>> /\ back = <<>> /\ Len(wire) = 0 /\ Len(back) = 0
  BY DEF Init
<1>6. wire \in Seq({}) /\ back \in Seq({})
  BY <1>5
<1>7. DOMAIN table = {}
  BY DEF Init, NoTable
<1>8. dials \in 0..MaxDials /\ sent \in 0..MaxPackets /\ Len(wire) <= MaxWire
      /\ Len(back) <= MaxWire
  <2>1. dials = 0 /\ sent = 0
    BY DEF Init
  <2> QED
    BY <1>5, <2>1, VersionAssumption
<1>9. \A v \in allowed \cup {default, context} : v \in SupportedVersions
  BY <1>1, <1>2, <1>3 DEF Init
<1>10. TypeOK
  BY <1>1, <1>4, <1>7, <1>8, <1>9 DEF TypeOK, Init
<1>11. allowed # {}
  BY <1>1 DEF Init
<1> QED
  BY <1>5, <1>6, <1>10, <1>11 DEF StreamInv

\* The server tells something.
LEMMA TellType ==
  ASSUME StreamInv, NEW state, NEW k, NEW body, Tell(state, k, body),
         k = "SetCompression" => body = <<Cell("VarInt", Threshold)>>,
         zipping' \in BOOLEAN, serving' \in Servings
  PROVE  StreamInv'
<1>1. PICK item : /\ wire' = Append(wire, item)
                  /\ item.kind = k /\ item.body = body
  BY DEF Tell, Item
<1>2. PICK S : wire \in Seq(S)
  BY DEF StreamInv
<1>3. wire \in Seq(S \cup {item}) /\ item \in S \cup {item}
  BY <1>2
<1>4. wire' \in Seq(S \cup {item}) /\ Len(wire') = Len(wire) + 1 /\ Len(wire) \in Nat
  BY <1>1, <1>3
<1>5. \A i \in 1..Len(wire') :
        IF i \in 1..Len(wire) THEN wire'[i] = wire[i] ELSE wire'[i] = item
  BY <1>1, <1>3
<1>6. Thresholds(item)
  BY <1>1 DEF Thresholds, Value, Cell
<1>7. \A i \in 1..Len(wire') : Thresholds(wire'[i])
  BY <1>5, <1>6 DEF StreamInv
<1>8. Len(wire') <= MaxWire /\ sent' \in 0..MaxPackets
  BY <1>4, VersionAssumption DEF Tell, StreamInv, TypeOK
<1>9. UNCHANGED <<clientVars, server, topic, back, replica, dials>>
  BY DEF Tell
<1>10. TypeOK'
  BY <1>8, <1>9 DEF StreamInv, TypeOK, clientVars, Servings
<1> QED
  BY <1>4, <1>7, <1>9, <1>10 DEF StreamInv, clientVars, Thresholds

LEMMA ServeLoginType == ASSUME StreamInv, ServeLogin PROVE StreamInv'
<1>1. PICK k \in Login!Packets(server) :
        /\ Tell("login", k, IF k = "SetCompression" THEN <<Cell("VarInt", Threshold)>>
                            ELSE Cells(Login!Fields[k]))
        /\ zipping' = (zipping \/ k = "SetCompression")
        /\ serving' = CASE k = "LoginSuccess" -> "play"
                        [] k = "Disconnect" -> "gone"
                        [] OTHER -> "login"
  BY DEF ServeLogin
<1>2. zipping' \in BOOLEAN
  BY <1>1
<1>3. serving' \in Servings
  BY <1>1 DEF Servings
<1> QED
  BY <1>1, <1>2, <1>3, TellType

LEMMA OutdatedType == ASSUME StreamInv, Outdated PROVE StreamInv'
<1>1. /\ Tell("login", "Disconnect", Cells(Login!Fields["Disconnect"]))
      /\ serving' = "gone" /\ zipping' = zipping
  BY DEF Outdated
<1>2. zipping' \in BOOLEAN /\ serving' \in Servings
  BY <1>1 DEF StreamInv, TypeOK, Servings
<1> QED
  BY <1>1, <1>2, TellType

LEMMA ServePlayType == ASSUME StreamInv, ServePlay PROVE StreamInv'
<1>1. zipping \in BOOLEAN /\ serving \in Servings
  BY DEF StreamInv, TypeOK, Servings
<1>2. ASSUME TellPlain PROVE StreamInv'
  <2>0. PICK k \in In!Packets(server) \ Special :
          \E body \in Bodies(k, server) :
            /\ Tell("play", k, body)
            /\ zipping' = (zipping \/ k = "SetCompression")
            /\ serving' = IF k = "Disconnect" THEN "gone" ELSE serving
    BY <1>2 DEF TellPlain
  <2>1. PICK body \in Bodies(k, server) :
          /\ Tell("play", k, body)
          /\ zipping' = (zipping \/ k = "SetCompression")
          /\ serving' = IF k = "Disconnect" THEN "gone" ELSE serving
    BY <2>0
  <2>2. k = "SetCompression" => body = <<Cell("VarInt", Threshold)>>
    BY DEF Bodies
  <2>3. zipping' \in BOOLEAN
    BY <2>1
  <2>4. serving' \in Servings
    BY <1>1, <2>1 DEF Servings
  <2> QED
    BY <2>1, <2>2, <2>3, <2>4, TellType
<1> DEFINE Quiet == UNCHANGED <<zipping, serving>>
<1>3. ASSUME AskAlive PROVE Quiet /\ \E body : Tell("play", "KeepAlive", body)
  BY <1>3 DEF AskAlive
<1>4. ASSUME Move PROVE Quiet /\ \E body : Tell("play", "PlayerPositionAndLook", body)
  BY <1>4 DEF Move
<1>5. ASSUME List PROVE Quiet /\ \E body : Tell("play", "PlayerListItem", body)
  BY <1>5 DEF List
<1>6. ASSUME Paint PROVE Quiet /\ \E body : Tell("play", "Map", body)
  BY <1>6, ZenonT(60) DEF Paint
<1>7. ASSUME Change
      PROVE  Quiet /\ \E k, body : k # "SetCompression" /\ Tell("play", k, body)
  BY <1>7 DEF Change
<1>8. ASSUME Quiet, NEW k, k # "SetCompression", NEW body, Tell("play", k, body)
      PROVE  StreamInv'
  BY <1>1, <1>8, TellType
<1> QED
  BY <1>2, <1>3, <1>4, <1>5, <1>6, <1>7, <1>8 DEF ServePlay

-----------------------------------------------------------------------------
LEMMA ConnectType ==
  ASSUME StreamInv, NEW versions \in SUBSET SupportedVersions, versions # {},
         Connect(versions)
  PROVE  StreamInv'
<1>1. Max(versions) \in SupportedVersions
  BY MaxIsOne
<1>2. /\ dials < (IF topic = "versions" THEN MaxDials ELSE 1) /\ dials' = dials + 1
      /\ allowed' = versions /\ context' = Max(versions)
      /\ enabled' = FALSE /\ threshold' = -1
      /\ zipping' = FALSE /\ wire' = <<>> /\ sent' = 0
      /\ serving' = phase'
      /\ UNCHANGED <<original, default, server, topic>>
  BY DEF Connect, Uncompressed
<1>3. dials' \in 0..MaxDials
  BY <1>2, VersionAssumption DEF StreamInv, TypeOK
<1>4. /\ phase' \in {"login", "status"}
      /\ \A i \in DOMAIN table' :
           i \in 0..127 /\ table'[i] \in DOMAIN In!Ids \cup DOMAIN Login!Ids
      /\ \E S : back' \in Seq(S)
      /\ Len(back') <= 1
  <2>1. CASE phase' = "login" /\ NewTable("login", context') /\ back' = <<LoginStart(context')>>
    <3>1. \A i \in DOMAIN table' :
            i \in 0..127 /\ table'[i] \in DOMAIN In!Ids \cup DOMAIN Login!Ids
      <4>1. PICK v : v = context'
        OBVIOUS
      <4>2. v \in SupportedVersions /\ NewTable("login", v)
        BY <1>1, <1>2, <2>1, <4>1 DEF NewTable
      <4> QED
        BY <4>2, NewTableType
    <3>2. back' \in Seq({LoginStart(context')}) /\ Len(back') = 1
      BY <2>1
    <3>3. (\E S : back' \in Seq(S)) /\ Len(back') <= 1
      BY <3>2
    <3> QED
      BY <2>1, <3>1, <3>3, Zenon
  <2>2. CASE phase' = "status" /\ table' = NoTable /\ back' = <<>>
    <3>1. DOMAIN table' = {}
      BY <2>2 DEF NoTable
    <3>2. back' \in Seq({}) /\ Len(back') = 0
      BY <2>2
    <3> QED
      BY <2>2, <3>1, <3>2
  <2> QED
    BY <2>1, <2>2 DEF Connect
<1>5. wire' \in Seq({}) /\ Len(wire') = 0
  BY <1>2
<1>6. Len(back') \in Nat
  BY <1>4
<1>7. Len(wire') <= MaxWire /\ Len(back') <= MaxWire /\ sent' \in 0..MaxPackets
  BY <1>2, <1>4, <1>5, <1>6, VersionAssumption
<1>8. \A v \in allowed' \cup {default', context'} : v \in SupportedVersions
  BY <1>1, <1>2 DEF StreamInv, TypeOK
<1>9. TypeOK'
  BY <1>2, <1>3, <1>4, <1>7, <1>8 DEF StreamInv, TypeOK
<1>10. \A i \in 1..Len(wire') : Thresholds(wire'[i])
  BY <1>5
<1> QED
  BY <1>2, <1>4, <1>5, <1>9, <1>10 DEF StreamInv

\* Nothing that the types are about changes, but the client or the server
\* goes, the versions of servers, and the answers.
LEMMA QuietType ==
  ASSUME StreamInv,
         UNCHANGED <<original, allowed, default, context, table, enabled, threshold,
                     topic, zipping, sent, wire, dials>>,
         phase' \in {phase, "over"}, serving' \in Servings,
         server' \in Servers \cup SupportedVersions,
         Len(back') <= MaxWire, \E S : back' \in Seq(S)
  PROVE  StreamInv'
<1>1. TypeOK'
  BY DEF StreamInv, TypeOK, Servings
<1> QED
  BY <1>1 DEF StreamInv, Thresholds

LEMMA EndType == ASSUME StreamInv, End PROVE StreamInv'
BY QuietType DEF End, Over, StreamInv, TypeOK, Servings

LEMMA StatusType == ASSUME StreamInv, Status PROVE StreamInv'
<1>1. ASSUME NEW v \in SupportedVersions, Connect({v}) PROVE StreamInv'
  BY <1>1, ConnectType
<1>2. default \in SupportedVersions /\ (server \in allowed => server \in SupportedVersions)
  BY DEF StreamInv, TypeOK
<1>3. \/ server \in allowed /\ Connect({server})
      \/ Connect({default})
      \/ End
  BY DEF Status, Answered, Unanswered
<1> QED
  BY <1>1, <1>2, <1>3, EndType

LEMMA WriteType ==
  ASSUME StreamInv, NEW k, NEW body, NEW answer, Write(k, body, answer)
  PROVE  Len(back') <= MaxWire /\ \E S : back' \in Seq(S)
<1>1. Len(back) < MaxWire /\ \E b : back' = Append(back, b)
  BY DEF Write
<1>2. PICK b : back' = Append(back, b)
  BY <1>1
<1>3. PICK S : back \in Seq(S)
  BY DEF StreamInv
<1>4. back \in Seq(S \cup {b}) /\ b \in S \cup {b}
  BY <1>3
<1>5. back' \in Seq(S \cup {b}) /\ Len(back') = Len(back) + 1 /\ Len(back) \in Nat
  BY <1>2, <1>4
<1> QED
  BY <1>1, <1>5, VersionAssumption

LEMMA HearType == ASSUME StreamInv, Hear PROVE StreamInv'
<1>1. PICK S : back \in Seq(S)
  BY DEF StreamInv
<1>2. back' \in Seq(S) /\ Len(back') <= MaxWire
  BY <1>1, VersionAssumption DEF Hear, StreamInv, TypeOK
<1> QED
  BY <1>2, QuietType DEF Hear, StreamInv, TypeOK, clientVars, Servings

\* What a reactor does to the client, the answers and the server.
Reaction ==
  /\ phase' \in {phase, "play", "over"} /\ serving' \in Servings
  /\ \/ UNCHANGED <<enabled, threshold>>
     \/ enabled' = TRUE /\ threshold' = Threshold
  /\ Len(back') <= MaxWire /\ \E S : back' \in Seq(S)

LEMMA ReactPlayType ==
  ASSUME StreamInv, NEW item, Thresholds(item), ReactPlay(item)
  PROVE  Reaction
<1>1. serving \in Servings /\ "idle" \in Servings
  BY DEF StreamInv, TypeOK, Servings
<1>2. Len(back) <= MaxWire /\ \E S : back \in Seq(S)
  BY DEF StreamInv, TypeOK
<1>3. CASE /\ item.kind = "SetCompression"
           /\ enabled' = TRUE /\ threshold' = Value(item.body, 1)
           /\ UNCHANGED <<back, phase, serving>>
  BY <1>1, <1>2, <1>3 DEF Reaction, Thresholds
<1>4. CASE item.kind = "Disconnect" /\ Over /\ UNCHANGED <<back, enabled, threshold>>
  BY <1>1, <1>2, <1>4 DEF Reaction, Over
<1>5. CASE /\ Write("KeepAlive", item.body, <<"alive", Value(item.body, 1)>>)
           /\ UNCHANGED <<phase, serving, enabled, threshold>>
  BY <1>1, <1>5, WriteType DEF Reaction
<1>6. CASE /\ AnswerPosition(In!PositionFields(context, item.body))
           /\ UNCHANGED <<phase, serving, enabled, threshold>>
  <2>1. \E k, body, answer : Write(k, body, answer)
    BY <1>6 DEF AnswerPosition
  <2> QED
    BY <1>1, <1>6, <2>1, WriteType DEF Reaction
<1>7. CASE UNCHANGED <<back, phase, serving, enabled, threshold>>
  BY <1>1, <1>2, <1>7 DEF Reaction
<1> QED
  BY <1>3, <1>4, <1>5, <1>6, <1>7 DEF ReactPlay

LEMMA ReactLoginType ==
  ASSUME StreamInv, NEW item, Thresholds(item), ReactLogin(item)
  PROVE  Reaction /\ (UNCHANGED table \/ NewTable("play", context))
<1>1. serving \in Servings /\ "idle" \in Servings
  BY DEF StreamInv, TypeOK, Servings
<1>2. Len(back) <= MaxWire /\ \E S : back \in Seq(S)
  BY DEF StreamInv, TypeOK
<1>3. CASE item.kind = "Disconnect" /\ Over /\ UNCHANGED <<back, table, enabled, threshold>>
  BY <1>1, <1>2, <1>3 DEF Reaction, Over
<1>4. CASE /\ phase' = "play" /\ NewTable("play", context)
           /\ UNCHANGED <<back, serving, enabled, threshold>>
  BY <1>1, <1>2, <1>4 DEF Reaction
<1>5. CASE /\ item.kind = "SetCompression"
           /\ enabled' = TRUE /\ threshold' = Value(item.body, 1)
           /\ UNCHANGED <<back, phase, serving, table>>
  BY <1>1, <1>2, <1>5 DEF Reaction, Thresholds
<1>6. CASE /\ \E k, body : Write(k, body, NoAnswer)
           /\ UNCHANGED <<phase, serving, table, enabled, threshold>>
  BY <1>1, <1>6, WriteType DEF Reaction
<1> QED
  BY <1>3, <1>4, <1>5, <1>6 DEF ReactLogin

LEMMA ReceiveType == ASSUME StreamInv, Receive PROVE StreamInv'
<1> DEFINE item == Head(wire)
<1>1. /\ wire' = Tail(wire) /\ wire # <<>>
      /\ UNCHANGED <<original, allowed, default, context, server, topic, zipping, sent, dials>>
  BY DEF Receive
<1>2. PICK S : wire \in Seq(S)
  BY DEF StreamInv
<1>3. /\ wire' \in Seq(S) /\ item = wire[1] /\ 1 \in 1..Len(wire)
      /\ \A i \in 1..Len(wire') : i + 1 \in 1..Len(wire) /\ wire'[i] = wire[i + 1]
      /\ Len(wire') = Len(wire) - 1 /\ Len(wire) \in Nat
  BY <1>1, <1>2
<1>4. Thresholds(item)
  BY <1>3 DEF StreamInv
<1>5. \A i \in 1..Len(wire') : Thresholds(wire'[i])
  BY <1>3 DEF StreamInv
<1>6. Len(wire') <= MaxWire
  BY <1>3, VersionAssumption DEF StreamInv, TypeOK
<1>7. Reaction /\ (UNCHANGED table \/ NewTable("play", context))
  <2>1. CASE item.state = phase /\ Reads(item) /\ phase = "login"
    BY <1>4, <2>1, ReactLoginType DEF Receive
  <2>2. CASE item.state = phase /\ Reads(item) /\ phase # "login"
    <3>1. ReactPlay(item) /\ UNCHANGED table
      BY <2>2 DEF Receive
    <3> QED
      BY <1>4, <3>1, ReactPlayType
  <2>3. CASE ~ (item.state = phase /\ Reads(item))
    <3>1. /\ phase' \in {phase, "over"}
          /\ serving' = IF phase' = "over" THEN "idle" ELSE serving
          /\ UNCHANGED back /\ UNCHANGED <<table, enabled, threshold, replica>>
      BY <2>3 DEF Receive
    <3> QED
      BY <3>1 DEF Reaction, StreamInv, TypeOK, Servings
  <2> QED
    BY <2>1, <2>2, <2>3
<1>8. \A i \in DOMAIN table' :
        i \in 0..127 /\ table'[i] \in DOMAIN In!Ids \cup DOMAIN Login!Ids
  <2>1. context \in SupportedVersions
    BY DEF StreamInv, TypeOK
  <2> QED
    BY <1>7, <2>1, NewTableType DEF StreamInv, TypeOK
<1>9. enabled' \in BOOLEAN /\ threshold' = IF enabled' THEN Threshold ELSE -1
  <2>1. enabled \in BOOLEAN /\ threshold = IF enabled THEN Threshold ELSE -1
    BY DEF StreamInv, TypeOK
  <2>2. CASE UNCHANGED <<enabled, threshold>>
    BY <2>1, <2>2
  <2>3. CASE enabled' = TRUE /\ threshold' = Threshold
    BY <2>3
  <2> QED
    BY <1>7, <2>2, <2>3 DEF Reaction
<1>10. /\ phase' \in {"idle", "status", "login", "play", "over"}
       /\ serving' \in {"idle", "status", "login", "play", "gone"}
       /\ Len(back') <= MaxWire
  BY <1>7 DEF Reaction, StreamInv, TypeOK, Servings
<1>11. TypeOK'
  BY <1>1, <1>6, <1>8, <1>9, <1>10 DEF StreamInv, TypeOK
<1> QED
  BY <1>1, <1>3, <1>5, <1>7, <1>11 DEF StreamInv, Reaction

LEMMA StreamInvStep == StreamInv /\ [Next]_vars => StreamInv'
<1> SUFFICES ASSUME StreamInv, [Next]_vars PROVE StreamInv'
  OBVIOUS
<1> DEFINE Same == UNCHANGED <<original, allowed, default, context, table, enabled, threshold,
                               topic, zipping, sent, wire, dials, phase, serving>>
<1>1. CASE Dial
  <2>1. Connect(allowed)
    BY <1>1 DEF Dial
  <2>2. allowed \in SUBSET SupportedVersions /\ allowed # {}
    BY DEF StreamInv, TypeOK
  <2> QED
    BY <2>1, <2>2, ConnectType
<1>2. ASSUME Same, server' \in Servers \cup SupportedVersions,
             Len(back') <= MaxWire, \E S : back' \in Seq(S)
      PROVE  StreamInv'
  BY <1>2, QuietType DEF StreamInv, TypeOK, Servings
<1>3. CASE Upgrade
  <2>1. Same /\ server' \in Servers /\ UNCHANGED back
    BY <1>3, VersionAssumption DEF Upgrade, clientVars
  <2> QED
    BY <1>2, <2>1 DEF StreamInv, TypeOK
<1>4. CASE Speak
  <2>1. Same /\ UNCHANGED server /\ \E k, body : Write(k, body, NoAnswer)
    BY <1>4 DEF Speak, clientVars, serverVars
  <2> QED
    BY <1>2, <2>1, WriteType DEF StreamInv, TypeOK
<1>5. CASE UNCHANGED vars
  <2>1. Same /\ UNCHANGED <<server, back>>
    BY <1>5 DEF vars, clientVars, serverVars
  <2> QED
    BY <1>2, <2>1 DEF StreamInv, TypeOK
<1>6. CASE HangUp
  BY <1>6, EndType DEF HangUp
<1> QED
  BY <1>1, <1>3, <1>4, <1>5, <1>6, StatusType, OutdatedType, ServeLoginType, ServePlayType,
     HearType, ReceiveType
     DEF Next

\* Every variable of a client and its server keeps its type: a reactor's table
\* has ids of one byte and kinds of the library, in every supported version,
\* and the client's threshold is the one that its server has set, as long as
\* compression is on.
THEOREM TypeCorrect == Spec => []TypeOK
<1>1. StreamInv => TypeOK
  BY DEF StreamInv
<1> QED BY <1>1, StreamInvInit, StreamInvStep, PTL DEF Spec
=============================================================================
