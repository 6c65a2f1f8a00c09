---------------------------- MODULE PacketStream ----------------------------
(***************************************************************************)
(* What a Connection and a server tell each other: the choice of the       *)
(* protocol version (connection.py, connect and PlayingStatusReactor), the *)
(* tables of ids of the reactors, the frames with and without compression, *)
(* and what a program that applies the packets has at their end.  The      *)
(* server is one that is built with the library, as tests/fake_server.py   *)
(* is: it writes with the library's classes, and has a world of its own.   *)
(* Threads, sockets and failures are in PacketConnection.                  *)
(***************************************************************************)
EXTENDS PacketTypes, FiniteSets, SequencesExt

CONSTANTS
  MapWidth, FullTurn,
  Offers,      \* the sets of versions that programs allow
  Defaults,    \* the versions that programs give as initial_version
  Servers,     \* the servers' versions
  Upgrades,    \* versions that a server may be restarted with
  Codecs,      \* what servers of a version talk about: pairs <<version, topic>>
  Players,     \* bound: players of the topic "players"
  Spots,       \* bound: positions of the topic "blocks"
  Threshold,   \* bound: the servers' compression threshold
  Relative,    \* servers before 107 send relative positions
  MaxDials, MaxPackets, MaxWire  \* bounds

In == INSTANCE ClientboundPlay
Out == INSTANCE ServerboundPlay
Login == INSTANCE LoginPackets

\* SUPPORTED_PROTOCOL_VERSIONS
SupportedVersions ==
  {47, 210} \cup 107..110 \cup 301..404 \cup 441..498 \cup 550..567 \cup 569..578

ASSUME VersionAssumption ==
  /\ Offers \subseteq SUBSET SupportedVersions /\ {} \notin Offers
  /\ Defaults \subseteq SupportedVersions
  /\ Upgrades \subseteq Servers /\ Servers \subseteq Nat
  /\ {MaxPackets, MapWidth, FullTurn} \subseteq Nat
  /\ {MaxDials, MaxWire} \subseteq Nat \ {0}
  /\ Relative \in BOOLEAN /\ Threshold \in Int

\* In the topic "versions" the choice of the version is all there is.
Topics == {"versions", "all kinds", "players", "map", "place", "blocks"}

\* Pre-release versions in which two classes of the library have one id:
\* ChatMessage and MultiBlockChange in 317, SoundEffect and
\* PlayerListHeaderAndFooter in the others.
SharedIds == {317, 336, 337, 343, 344}

VARIABLES
  phase,       \* of the client: "idle", its reactor, or "over"
  original,    \* the allowed versions that the program has given
  allowed,     \* allowed_proto_versions
  default,     \* default_proto_version
  context,     \* the protocol version of the ConnectionContext
  table,       \* clientbound_packets of the reactor
  enabled,     \* compression_enabled of the client
  threshold,   \* its compression_threshold
  server,      \* the server's version
  topic,       \* bound: what this server talks about
  serving,     \* what the server does
  zipping,     \* the server compresses
  wire,        \* packets from the server to the client
  back,        \* packets from the client to the server
  asked,       \* what the server wants answered
  world,       \* what the server has told
  replica,     \* what a program has that applies what it is told
  dials, sent

clientVars == <<phase, original, allowed, default, context, table, enabled, threshold>>
serverVars == <<server, topic, serving, zipping, asked, world, sent>>
vars == <<clientVars, serverVars, wire, back, replica, dials>>

\* A new PlayerList, a new Map, and no position and no blocks yet.
Blank ==
  [players |-> [u \in {} |-> 0],
   map |-> [icons |-> <<>>, pixels |-> [i \in 0..(MapWidth * MapWidth - 1) |-> 0]],
   place |-> [x |-> 0, yaw |-> 0],
   blocks |-> [p \in {} |-> 0]]

NoTable == [i \in {} |-> "none"]

Init ==
  /\ phase = "idle" /\ serving = "idle"
  /\ server \in Servers
  /\ \/ topic = "versions" /\ original \in Offers /\ default \in Defaults \cup {Max(original)}
     \/ /\ server \in SupportedVersions /\ original = {server} /\ default = server
        /\ \/ topic = "all kinds"
           \/ topic \in Topics /\ <<server, topic>> \in Codecs
  /\ allowed = original /\ context = Max(original)
  /\ table = NoTable /\ enabled = FALSE /\ threshold = -1
  /\ zipping = FALSE /\ wire = <<>> /\ back = <<>> /\ asked = <<>>
  /\ world = Blank /\ replica = Blank /\ dials = 0 /\ sent = 0

-----------------------------------------------------------------------------
(***************************************************************************)
(* Tables of ids.  A reactor's table is built from a set of classes, in any*)
(* order: of two classes with one id, either may be in it.                 *)
(***************************************************************************)
InIds == [v \in SupportedVersions |-> [k \in In!Packets(v) |-> Since(In!Ids[k], v)]]
OutIds == [v \in SupportedVersions |-> [k \in Out!Packets(v) |-> Since(Out!Ids[k], v)]]
LoginIds ==
  [v \in SupportedVersions |-> [k \in Login!Packets(v) |-> Since(Login!Ids[k], v)]]
AnswerIds ==
  [v \in SupportedVersions |-> [k \in Login!Answers(v) |-> Since(Login!AnswerIds[k], v)]]

Tables(ids) ==
  { [i \in Range(ids) |->
       IF ids[first] = i THEN first ELSE CHOOSE k \in DOMAIN ids : ids[k] = i] :
    first \in DOMAIN ids }

\* PacketReactor.__init__
NewTable(reactor, v) ==
  table' \in Tables(IF reactor = "login" THEN LoginIds[v] ELSE InIds[v])

-----------------------------------------------------------------------------
(***************************************************************************)
(* connect: with one allowed version it logs in with it; with several it   *)
(* asks for the server's version first.                                    *)
(***************************************************************************)
\* Mutant: the threshold of the connection before stays.
KeepsThreshold == enabled' = FALSE /\ threshold' = threshold

\* _connect, options
Uncompressed == enabled' = FALSE /\ threshold' = -1

NoAnswer == <<"none", 0>>

LoginStart(v) ==
  [kind |-> "LoginStart", body |-> Cells(Login!AnswerFields["LoginStart"]),
   answer |-> NoAnswer, id |-> AnswerIds[v]["LoginStart"]]

Connect(versions) ==
  /\ dials < (IF topic = "versions" THEN MaxDials ELSE 1) /\ dials' = dials + 1
  /\ allowed' = versions /\ context' = Max(versions)
  /\ Uncompressed
  /\ IF Cardinality(versions) = 1
     THEN phase' = "login" /\ NewTable("login", context') /\ back' = <<LoginStart(context')>>
     ELSE phase' = "status" /\ table' = NoTable /\ back' = <<>>
  /\ serving' = phase' /\ zipping' = FALSE
  /\ wire' = <<>> /\ asked' = <<>>
  /\ world' = Blank /\ replica' = Blank /\ sent' = 0
  /\ UNCHANGED <<original, default, server, topic>>

Dial == phase \in {"idle", "over"} /\ Connect(allowed)

Over == phase' = "over" /\ serving' = "idle"

\* Over, and nothing else.
End ==
  /\ Over
  /\ UNCHANGED <<original, allowed, default, context, table, enabled, threshold,
       server, topic, zipping, asked, world, sent, wire, back, replica, dials>>

\* The server is restarted with another version while nobody is connected.
Upgrade ==
  /\ phase = "over" /\ topic = "versions" /\ server' \in Upgrades \ {server}
  /\ UNCHANGED <<clientVars, topic, serving, zipping, asked, world, sent,
                 wire, back, replica, dials>>

\* Mutant: any version that the library supports.
AnsweredAny(version) == IF version \in SupportedVersions THEN Connect({version}) ELSE End

\* PlayingStatusReactor.handle_status: the server names its version.
Answered(version) == IF version \in allowed THEN Connect({version}) ELSE End

\* handle_failure, from handle_status without a version and from
\* handle_exception at an end of file.
Unanswered == Connect({default})

\* A server that is still starting answers {}, which is an error.
Status ==
  /\ phase = "status"
  /\ \/ Answered(server)
     \/ Unanswered
     \/ End

-----------------------------------------------------------------------------
(***************************************************************************)
(* The server: FakeClientHandler of tests/fake_server.py, with whatever a  *)
(* subclass of it tells a player.                                          *)
(***************************************************************************)
Item(state, k, id, body) ==
  [state |-> state, kind |-> k, body |-> body,
   frame |-> Frame(Payload(id, body), zipping, Threshold)]

\* Topics with all versions: one packet at a time, and one packet less.
Broad == {"all kinds", "versions"}

Tell(state, k, body) ==
  /\ Len(wire) < MaxWire /\ sent < MaxPackets /\ sent' = sent + 1
  /\ topic \in Broad => wire = <<>> /\ sent < MaxPackets - 1
  /\ wire' = Append(wire, Item(state, k,
       IF state = "login" THEN LoginIds[server][k] ELSE InIds[server][k], body))
  /\ UNCHANGED <<clientVars, server, topic, back, replica, dials>>

\* A server of another version than the client's says so.
Outdated ==
  /\ serving = "login" /\ context # server /\ server \in SupportedVersions
  /\ Tell("login", "Disconnect", Cells(Login!Fields["Disconnect"]))
  /\ serving' = "gone" /\ UNCHANGED <<zipping, asked, world>>

HangUp ==
  /\ \/ serving \in {"login", "play"} /\ context # server
     \/ serving = "gone"
  /\ wire = <<>> /\ End

\* Once it has read who logs in.
ServeLogin ==
  /\ serving = "login" /\ (\A i \in DOMAIN back : back[i].kind # "LoginStart")
  /\ context = server /\ server \in SupportedVersions
  /\ \E k \in Login!Packets(server) :
       /\ k = "SetCompression" => ~ zipping
       /\ topic \in Broad \/ k = "LoginSuccess"
       /\ Tell("login", k, IF k = "SetCompression" THEN <<Cell("VarInt", Threshold)>>
                           ELSE Cells(Login!Fields[k]))
       /\ zipping' = (zipping \/ k = "SetCompression")
       /\ serving' = CASE k = "LoginSuccess" -> "play"
                       [] k = "Disconnect" -> "gone"
                       [] OTHER -> "login"
  /\ UNCHANGED <<asked, world>>

\* Packets that change nothing that a program keeps, in all their forms.
Bodies(k, v) ==
  CASE k = "CombatEvent" -> {In!CombatEventWrite(e) : e \in {"enter", "end", "dead"}}
    [] k = "Explosion" -> {In!ExplosionWrite(n) : n \in 0..2}
    [] k = "FacePlayer" -> {In!FacePlayerWrite(v, e) : e \in BOOLEAN}
    [] k = "SpawnObject" -> {In!SpawnObjectWrite(v, d) : d \in 0..1}
    [] k = "SetCompression" -> {<<Cell("VarInt", Threshold)>>}
    [] OTHER -> {Cells(In!Fields(v)[k])}

Special == {"KeepAlive", "PlayerPositionAndLook", "PlayerListItem", "Map",
            "BlockChange", "MultiBlockChange"}

TellPlain ==
  /\ topic \in Broad
  /\ \E k \in In!Packets(server) \ Special : \E body \in Bodies(k, server) :
       /\ topic = "versions" => k = "Disconnect"
       /\ k = "SetCompression" => ~ zipping
       /\ Tell("play", k, body)
       /\ zipping' = (zipping \/ k = "SetCompression")
       /\ serving' = IF k = "Disconnect" THEN "gone" ELSE serving
  /\ UNCHANGED <<asked, world>>

AskAlive ==
  /\ topic \in {"all kinds", "place"}
  /\ Tell("play", "KeepAlive", <<Cell(In!Fields(server)["KeepAlive"][1], sent)>>)
  /\ asked' = Append(asked, <<"alive", sent>>)
  /\ UNCHANGED <<serving, zipping, world>>

\* The server puts the player at a place: some of it is told by the difference
\* to the place before, and a look may be more than a full turn.
Move ==
  /\ topic \in {"all kinds", "place"}
  /\ \E x \in 0..1, yaw \in {0, FullTurn - 1}, turn \in {0, FullTurn},
        flags \in SUBSET {"x", "yaw"} :
       LET from == world.place
           p == [x |-> IF "x" \in flags THEN x - from.x ELSE x,
                 yaw |-> turn + (IF "yaw" \in flags THEN yaw - from.yaw ELSE yaw),
                 flags |-> flags, teleport_id |-> sent]
       IN /\ topic = "all kinds" => x = 1 /\ yaw + turn = 0 /\ flags = {}
          /\ server >= 107 \/ Relative \/ flags = {}
          /\ Tell("play", "PlayerPositionAndLook", In!PositionWrite(server, p))
          /\ world' = [world EXCEPT !.place = [x |-> x, yaw |-> yaw]]
          /\ asked' = Append(asked, <<"place", IF server >= 107 THEN sent ELSE x>>)
  /\ UNCHANGED <<serving, zipping>>

Action(type, u, gamemode, ping, name) ==
  [type |-> type, uuid |-> u, gamemode |-> gamemode, ping |-> ping, display_name |-> name]

Actions(u) ==
  { Action("add", u, 0, 1, n) : n \in {In!NoName, "nick"} }
    \cup { Action("gamemode", u, g, 0, In!NoName) : g \in 0..1 }
    \cup { Action("latency", u, 0, p, In!NoName) : p \in 0..1 }
    \cup { Action("display name", u, 0, 0, n) : n \in {In!NoName, "nick"} }
    \cup { Action("remove", u, 0, 0, In!NoName) }

ActionLists ==
  LET one == UNION { Actions(u) : u \in Players } IN
  { <<a>> : a \in one }
    \cup { <<a, b>> : a \in one, b \in one }

\* The server's list, player by player: the last action on a player counts, and
\* only players that have been added can change.
Listed(players, actions) ==
  LET about(u) == {i \in DOMAIN actions : actions[i].uuid = u}
      last(u) == actions[Max(about(u))]
      named == {actions[i].uuid : i \in DOMAIN actions}
      type == actions[1].type
      online == CASE type = "add" -> DOMAIN players \cup named
                  [] type = "remove" -> DOMAIN players \ named
                  [] OTHER -> DOMAIN players
  IN [u \in online |->
        IF about(u) = {} THEN players[u]
        ELSE [gamemode |-> IF type \in {"add", "gamemode"} THEN last(u).gamemode
                           ELSE players[u].gamemode,
              ping |-> IF type \in {"add", "latency"} THEN last(u).ping
                       ELSE players[u].ping,
              display_name |-> IF type \in {"add", "display name"} THEN last(u).display_name
                               ELSE players[u].display_name]]

List ==
  /\ topic \in {"all kinds", "players"}
  /\ \E actions \in ActionLists :
       /\ \A i \in DOMAIN actions : actions[i].type = actions[1].type
       /\ topic = "all kinds" => actions = <<Action("remove", actions[1].uuid, 0, 0, In!NoName)>>
       /\ Tell("play", "PlayerListItem", In!PlayerListWrite(actions))
       /\ world' = [world EXCEPT !.players = Listed(@, actions)]
  /\ UNCHANGED <<serving, zipping, asked>>

\* The server's own map: a rectangle of it is repainted, or the icons change.
Paint ==
  /\ topic \in {"all kinds", "map"}
  /\ \/ \E x, z \in 0..(MapWidth - 1) :
        \E w \in 1..(MapWidth - x), h \in 1..(MapWidth - z) :
        \E pixels \in [1..(w * h) -> 0..1] :
          LET m == [icons |-> world.map.icons, width |-> w, height |-> h, x |-> x,
                    z |-> z, pixels |-> pixels]
          IN /\ topic = "all kinds" => x + z + w + h = 2 /\ pixels[1] = 1
             /\ Tell("play", "Map", In!MapWrite(server, m))
             /\ world' = [world EXCEPT !.map.pixels =
                  [k \in DOMAIN @ |->
                     IF (k % MapWidth) - x \in 0..(w - 1) /\ (k \div MapWidth) - z \in 0..(h - 1)
                     THEN pixels[(k % MapWidth) - x + w * ((k \div MapWidth) - z) + 1]
                     ELSE @[k]]]
     \/ \E named \in BOOLEAN :
          LET icon == [type |-> 1, direction |-> 2,
                       display_name |-> IF named /\ server >= 364 THEN "nick" ELSE In!NoName]
              icons == IF world.map.icons = <<>> THEN <<icon, icon>> ELSE Tail(world.map.icons)
          IN /\ Tell("play", "Map", In!MapWrite(server, [icons |-> icons, width |-> 0]))
             /\ world' = [world EXCEPT !.map.icons = icons]
  /\ UNCHANGED <<serving, zipping, asked>>

\* Blocks change one by one, or some of a chunk together, the last one first.
Blocks ==
  [s \in 0..3 |-> In!SetBlockMeta(In!SetBlockId(0, s \div 2), s % 2)]

Spot == CHOOSE p \in Spots : p.y >= 0

Change ==
  /\ topic \in {"all kinds", "blocks"}
  /\ \/ \E p \in Spots, s \in DOMAIN Blocks :
          /\ topic = "all kinds" => p = Spot /\ s = 1
          /\ Tell("play", "BlockChange", In!BlockChangeWrite(server, p, Blocks[s]))
          /\ world' = [world EXCEPT !.blocks = (p :> s) @@ @]
     \/ \E p \in {q \in Spots : q.y >= 0}, s, t \in DOMAIN Blocks :
          LET side == 2^ChunkBits
              record(state) == [x |-> p.x % side, y |-> p.y, z |-> p.z % side, state |-> state]
          IN /\ topic = "all kinds" => p = Spot /\ s = 0 /\ t = 1
             /\ Tell("play", "MultiBlockChange", In!MultiBlockChangeWrite(
                  p.x \div side, p.z \div side, <<record(Blocks[s]), record(Blocks[t])>>))
             /\ world' = [world EXCEPT !.blocks = (p :> t) @@ @]
  /\ UNCHANGED <<serving, zipping, asked>>

\* Bound: in "all kinds" the server stops after what has changed its world or
\* asks for an answer.
ServePlay ==
  /\ serving = "play"
  /\ topic = "all kinds" => world = Blank /\ asked = <<>>
  /\ TellPlain \/ AskAlive \/ Move \/ List \/ Paint \/ Change

\* The server reads what the client has written.
Hear ==
  /\ back # <<>> /\ serving \in {"login", "play"}
  /\ back' = Tail(back)
  /\ asked' = IF asked # <<>> /\ Head(back).answer = asked[1] THEN Tail(asked) ELSE asked
  /\ UNCHANGED <<clientVars, server, topic, serving, zipping, world, sent, wire,
                 replica, dials>>

-----------------------------------------------------------------------------
(***************************************************************************)
(* The client: read_packet and react.                                      *)
(***************************************************************************)

\* The kind that the packet is taken for.
Kind(item) ==
  IF ~ Readable(item.frame, enabled) THEN "unreadable"
  ELSE LET id == VarIntRead(item.frame.payload.id) IN
       IF id \in DOMAIN table THEN table[id] ELSE "unknown"

\* The item is read as what it is, to its last byte.
Reads(item) ==
  /\ Kind(item) = item.kind
  /\ Fits(TypesOf(item.body),
          IF item.state = "login" THEN Login!Fields[item.kind]
          ELSE In!Reads(item.kind, context, item.body))

\* An answer, or a packet of the program, with what it answers.
Write(k, body, answer) ==
  /\ Len(back) < MaxWire
  /\ back' = Append(back, [kind |-> k, body |-> body, answer |-> answer,
       id |-> IF phase = "login" THEN AnswerIds[context][k] ELSE OutIds[context][k]])

\* LoginReactor.react
ReactLogin(item) ==
  /\ \/ /\ item.kind = "Disconnect" /\ Over
        /\ UNCHANGED <<back, table, enabled, threshold>>
     \/ /\ item.kind = "LoginSuccess"
        /\ phase' = "play" /\ NewTable("play", context)
        /\ UNCHANGED <<back, serving, enabled, threshold>>
     \/ /\ item.kind = "SetCompression"
        /\ enabled' = TRUE /\ threshold' = Value(item.body, 1)
        /\ UNCHANGED <<back, phase, serving, table>>
     \/ /\ item.kind = "PluginRequest"
        /\ Write("PluginResponse", Login!PluginResponseWrite(FALSE), NoAnswer)
        /\ UNCHANGED <<phase, serving, table, enabled, threshold>>
     \/ /\ item.kind = "EncryptionRequest"
        /\ Write("EncryptionResponse", Cells(Login!AnswerFields["EncryptionResponse"]), NoAnswer)
        /\ UNCHANGED <<phase, serving, table, enabled, threshold>>
  /\ UNCHANGED replica

\* Mutant: every version answers with the position.
AnswerWithPosition(p) ==
  Write("PositionAndLook", Cells(Out!PositionAndLookFields), <<"place", p.x>>)

\* PlayingReactor.react, "player position and look"
AnswerPosition(p) ==
  IF context >= 107
  THEN Write("TeleportConfirm", <<Cell("VarInt", p.teleport_id)>>, <<"place", p.teleport_id>>)
  ELSE Write("PositionAndLook", Cells(Out!PositionAndLookFields), <<"place", p.x>>)

\* PlayingReactor.react
ReactPlay(item) ==
  \/ /\ item.kind = "SetCompression"
     /\ enabled' = TRUE /\ threshold' = Value(item.body, 1)
     /\ UNCHANGED <<back, phase, serving>>
  \/ /\ item.kind = "Disconnect" /\ Over
     /\ UNCHANGED <<back, enabled, threshold>>
  \/ /\ item.kind = "KeepAlive"
     /\ Write("KeepAlive", item.body, <<"alive", Value(item.body, 1)>>)
     /\ UNCHANGED <<phase, serving, enabled, threshold>>
  \/ /\ item.kind = "PlayerPositionAndLook"
     /\ AnswerPosition(In!PositionFields(context, item.body))
     /\ UNCHANGED <<phase, serving, enabled, threshold>>
  \/ /\ item.kind \notin {"SetCompression", "Disconnect", "KeepAlive", "PlayerPositionAndLook"}
     /\ UNCHANGED <<back, phase, serving, enabled, threshold>>

\* What a program does with a packet of the library.
Apply(item) ==
  LET k == item.kind
      c == item.body
      change(blocks, d) ==
        (d.position :> In!BlockId(d.state) * 2 + In!BlockMeta(d.state)) @@ blocks
  IN replica' =
     CASE k = "PlayerListItem" ->
            [replica EXCEPT !.players = In!PlayerListApply(@, In!PlayerListRead(c).actions)]
       [] k = "Map" -> [replica EXCEPT !.map = In!MapApply(@, In!MapRead(context, c))]
       [] k = "PlayerPositionAndLook" ->
            [replica EXCEPT !.place = In!PositionApply(@, In!PositionFields(context, c))]
       [] k \in {"BlockChange", "MultiBlockChange"} ->
            [replica EXCEPT !.blocks = FoldLeft(change, @, In!Changes(context, k, c))]
       [] OTHER -> replica

\* A packet that is taken for another one is skipped, changes nothing that
\* matters, or ends in an exception.
Receive ==
  /\ phase \in {"login", "play"} /\ wire # <<>>
  /\ LET item == Head(wire) IN
     IF item.state = phase /\ Reads(item)
     THEN IF phase = "login" THEN ReactLogin(item)
          ELSE ReactPlay(item) /\ Apply(item) /\ UNCHANGED table
     ELSE /\ phase' \in {phase, "over"}
          /\ serving' = IF phase' = "over" THEN "idle" ELSE serving
          /\ UNCHANGED back /\ UNCHANGED <<table, enabled, threshold, replica>>
  /\ wire' = Tail(wire)
  /\ UNCHANGED <<original, allowed, default, context, server, topic, zipping,
                 asked, world, sent, dials>>

\* A packet that the program writes of its own.
Speak ==
  /\ phase = "play" /\ topic = "all kinds" /\ <<wire, back, asked>> = <<<<>>, <<>>, <<>>>>
  /\ \E k \in Out!Packets(context) \ {"KeepAlive", "TeleportConfirm", "PositionAndLook"} :
       Write(k, Cells(Out!Fields(context)[k]), NoAnswer)
  /\ UNCHANGED <<clientVars, serverVars, wire, replica, dials>>

-----------------------------------------------------------------------------
Next ==
  \/ Dial \/ Upgrade \/ Status
  \/ Outdated \/ HangUp \/ ServeLogin \/ ServePlay \/ Hear
  \/ Receive \/ Speak

Spec == Init /\ [][Next]_vars
-----------------------------------------------------------------------------
\* Type invariant.
TypeOK ==
  /\ phase \in {"idle", "status", "login", "play", "over"}
  /\ serving \in {"idle", "status", "login", "play", "gone"}
  /\ original \in SUBSET SupportedVersions
  /\ \A v \in allowed \cup {default, context} : v \in SupportedVersions
  /\ server \in Servers \cup SupportedVersions /\ topic \in Topics
  /\ \A i \in DOMAIN table :
       i \in 0..127 /\ table[i] \in DOMAIN In!Ids \cup DOMAIN Login!Ids
  /\ enabled \in BOOLEAN /\ zipping \in BOOLEAN
  /\ threshold = IF enabled THEN Threshold ELSE -1
  /\ Len(wire) <= MaxWire /\ Len(back) <= MaxWire
  /\ dials \in 0..MaxDials /\ sent \in 0..MaxPackets

\* What the library writes it takes for the packet that it is, in every supported
\* version: no other packet of the state has its id, the id and the frame come
\* through with and without compression, whichever reactor is in charge, and a
\* reader that is not the writer's own definition ends where the writer ended
\* (connection.py:598-652, tests/test_packets.py:345-376).  Excluded are the
\* versions of SharedIds, and maps from 452 on, which are written without
\* is_locked (map_packet.py:132-160).  An id that is wrong and free is out of
\* reach: it is wrong on both sides.
ReadAsItself ==
  server \notin SharedIds /\ context = server =>
    /\ phase \in {"login", "play"} /\ wire # <<>> =>
         /\ Head(wire).state = phase
         /\ (Reads(Head(wire)) \/ (Head(wire).kind = "Map" /\ server >= 452))
    /\ \A i \in DOMAIN back :
         LET ids == IF back[i].kind \in DOMAIN AnswerIds[server] THEN AnswerIds[server]
                    ELSE OutIds[server]
         IN /\ {k \in DOMAIN ids : ids[k] = back[i].id} = {back[i].kind}
            /\ back[i].kind = "PluginResponse" =>
                 TypesOf(back[i].body) = Login!PluginResponseRead(back[i].body)

\* A client that plays speaks the server's version, and it is one that the
\* program allows, or the default version; also after the server has been
\* upgraded between two connections (connection.py:352-387, 799-833).
SpokenVersion ==
  phase = "play" => context = server /\ context \in original \cup {default}

\* A client that has been told something, and has read all, has the player list,
\* the map, the position and the blocks that the server wanted it to have,
\* whatever actions, rectangles, differences and records have told them (the
\* apply methods of the packets).  Maps from 452 on are excluded, see above.
Replica ==
  phase = "play" /\ serving = "play" /\ wire = <<>> /\ server \notin SharedIds =>
    replica = IF server < 452 THEN world ELSE [world EXCEPT !.map = replica.map]

\* What the server wants answered is answered, in the order asked: it is in
\* the answers under way, then in the questions that are still to be read.
AnsweredInOrder ==
  phase = "play" /\ serving = "play" =>
    LET answers == SelectSeq(back, LAMBDA b : b.answer # NoAnswer)
        questions == SelectSeq(wire, LAMBDA i : i.kind \in {"KeepAlive", "PlayerPositionAndLook"})
    IN /\ Len(asked) = Len(answers) + Len(questions)
       /\ \A i \in DOMAIN answers : answers[i].answer = asked[i]
=============================================================================
