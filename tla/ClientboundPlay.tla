--------------------------- MODULE ClientboundPlay ---------------------------
(***************************************************************************)
(* packets/clientbound/play: the packets that a playing client reads, their*)
(* ids, given by the versions at which they have changed, their fields, and*)
(* what packets do to the objects that a program keeps with their help: a  *)
(* player list, a map, a position, blocks.                                 *)
(***************************************************************************)
EXTENDS PacketTypes, SequencesExt

CONSTANTS
  MapWidth,    \* width and height of a map (128)
  FullTurn     \* a full turn of a look (360)

KeepAlive == { <<550, \h21>>, <<471, \h20>>, <<389, \h21>>, <<345, \h20>>,
  <<332, \h1F>>, <<318, \h20>>, <<107, \h1F>>, <<0, \h00>> }
JoinGame == { <<550, \h26>>, <<389, \h25>>, <<345, \h24>>, <<332, \h23>>,
  <<318, \h24>>, <<107, \h23>>, <<0, \h01>> }
ServerDifficulty == { <<550, \h0E>>, <<332, \h0D>>, <<318, \h0E>>,
  <<70, \h0D>>, <<0, \h41>> }
ChatMessage == { <<550, \h0F>>, <<343, \h0E>>, <<332, \h0F>>, <<317, \h10>>,
  <<107, \h0F>>, <<0, \h02>> }
Disconnect == { <<550, \h1B>>, <<471, \h1A>>, <<345, \h1B>>, <<332, \h1A>>,
  <<318, \h1B>>, <<107, \h1A>>, <<0, \h40>> }
SetCompression == { <<0, \h46>> }
SpawnPlayer == { <<67, \h05>>, <<0, \h0C>> }
EntityVelocity == { <<550, \h46>>, <<471, \h45>>, <<461, \h41>>,
  <<451, \h42>>, <<389, \h41>>, <<352, \h40>>, <<345, \h3F>>, <<336, \h3E>>,
  <<332, \h3D>>, <<86, \h3B>>, <<77, \h3C>>, <<67, \h3B>>, <<0, \h12>> }
UpdateHealth == { <<550, \h49>>, <<471, \h48>>, <<461, \h44>>, <<451, \h45>>,
  <<389, \h44>>, <<352, \h43>>, <<345, \h42>>, <<336, \h41>>, <<318, \h40>>,
  <<86, \h3E>>, <<77, \h3F>>, <<67, \h3E>>, <<0, \h06>> }
Respawn == { <<550, \h3B>>, <<471, \h3A>>, <<461, \h38>>, <<451, \h39>>,
  <<389, \h38>>, <<352, \h37>>, <<345, \h36>>, <<336, \h35>>, <<332, \h34>>,
  <<318, \h35>>, <<70, \h33>>, <<0, \h07>> }
PluginMessage == { <<550, \h19>>, <<471, \h18>>, <<345, \h19>>, <<332, \h18>>,
  <<318, \h19>>, <<70, \h18>>, <<0, \h3F>> }
PlayerListHeaderAndFooter == { <<550, \h54>>, <<471, \h53>>, <<461, \h5F>>,
  <<451, \h50>>, <<441, \h4F>>, <<393, \h4E>>, <<338, \h4A>>, <<335, \h49>>,
  <<110, \h47>>, <<107, \h48>>, <<0, \h47>> }
EntityLook == { <<550, \h2B>>, <<389, \h2A>>, <<345, \h29>>, <<318, \h28>>,
  <<94, \h27>>, <<70, \h28>>, <<0, \h16>> }
BlockChange == { <<550, \h0C>>, <<332, \h0B>>, <<318, \h0C>>, <<67, \h0B>>,
  <<62, \h24>>, <<0, \h23>> }
MultiBlockChange == { <<550, \h10>>, <<343, \h0F>>, <<332, \h10>>,
  <<318, \h11>>, <<67, \h10>>, <<0, \h22>> }
CombatEvent == { <<550, \h33>>, <<471, \h32>>, <<451, \h30>>, <<389, \h2F>>,
  <<345, \h2E>>, <<336, \h2D>>, <<332, \h2C>>, <<318, \h2D>>, <<86, \h2C>>,
  <<80, \h2D>>, <<67, \h2C>>, <<0, \h42>> }
Explosion == { <<550, \h1D>>, <<471, \h1C>>, <<389, \h1E>>, <<345, \h1D>>,
  <<332, \h1C>>, <<318, \h1D>>, <<80, \h1C>>, <<67, \h1B>>, <<0, \h27>> }
FacePlayer == { <<550, \h35>>, <<471, \h34>>, <<451, \h32>>, <<389, \h31>>,
  <<0, \h30>> }
Map == { <<550, \h27>>, <<389, \h26>>, <<345, \h25>>, <<334, \h24>>,
  <<318, \h25>>, <<107, \h24>>, <<0, \h34>> }

\* Mutant: the change of 389 comes one version late.
PlayerListItemLate == { <<550, \h34>>, <<471, \h33>>, <<451, \h31>>,
  <<390, \h30>>, <<345, \h2F>>, <<336, \h2E>>, <<332, \h2D>>, <<318, \h2E>>,
  <<107, \h2D>>, <<0, \h38>> }
PlayerListItem == { <<550, \h34>>, <<471, \h33>>, <<451, \h31>>,
  <<389, \h30>>, <<345, \h2F>>, <<336, \h2E>>, <<332, \h2D>>, <<318, \h2E>>,
  <<107, \h2D>>, <<0, \h38>> }

PlayerPositionAndLook == { <<550, \h36>>, <<471, \h35>>, <<451, \h33>>,
  <<389, \h32>>, <<352, \h31>>, <<345, \h30>>, <<336, \h2F>>, <<332, \h2E>>,
  <<318, \h2F>>, <<70, \h2E>>, <<0, \h08>> }
SoundEffect == { <<550, \h52>>, <<471, \h51>>, <<461, \h4D>>, <<451, \h4E>>,
  <<389, \h4D>>, <<352, \h4C>>, <<345, \h4B>>, <<343, \h4A>>, <<336, \h49>>,
  <<318, \h48>>, <<110, \h46>>, <<0, \h47>> }
SpawnObject == { <<67, \h00>>, <<0, \h0E>> }
Ids == [ KeepAlive |-> KeepAlive, JoinGame |-> JoinGame,
  ServerDifficulty |-> ServerDifficulty, ChatMessage |-> ChatMessage,
  Disconnect |-> Disconnect, SetCompression |-> SetCompression,
  SpawnPlayer |-> SpawnPlayer, EntityVelocity |-> EntityVelocity,
  UpdateHealth |-> UpdateHealth, Respawn |-> Respawn,
  PluginMessage |-> PluginMessage,
  PlayerListHeaderAndFooter |-> PlayerListHeaderAndFooter,
  EntityLook |-> EntityLook, BlockChange |-> BlockChange,
  MultiBlockChange |-> MultiBlockChange, CombatEvent |-> CombatEvent,
  Explosion |-> Explosion, FacePlayer |-> FacePlayer, Map |-> Map,
  PlayerListItem |-> PlayerListItem,
  PlayerPositionAndLook |-> PlayerPositionAndLook,
  SoundEffect |-> SoundEffect, SpawnObject |-> SpawnObject ]

\* get_packets
Packets(v) ==
  DOMAIN Ids \ ((IF v > 47 THEN {"SetCompression"} ELSE {})
                  \cup (IF v < 94 THEN {"SoundEffect"} ELSE {})
                  \cup (IF v < 352 THEN {"FacePlayer"} ELSE {}))

-----------------------------------------------------------------------------
(***************************************************************************)
(* Packets that are read field by field as they are defined.               *)
(***************************************************************************)
JoinGameFields(v) ==
  <<"Integer", "UnsignedByte", IF v >= 108 THEN "Integer" ELSE "Byte">>
    \o Only(v >= 552, <<"Long">>) \o Only(v < 464, <<"UnsignedByte">>)
    \o <<"UnsignedByte", "String">> \o Only(v >= 468, <<"VarInt">>)
    \o <<"Boolean">> \o Only(v >= 571, <<"Boolean">>)

ServerDifficultyFields(v) == <<"UnsignedByte">> \o Only(v >= 464, <<"Boolean">>)

SpawnPlayerFields(v) ==
  LET xyz == IF v >= 100 THEN "Double" ELSE "FixedPointInteger" IN
  <<"VarInt", "UUID", xyz, xyz, xyz, "Angle", "Angle">>
    \o Only(v <= 49, <<"Short">>)

RespawnFields(v) ==
  <<"Integer">> \o Only(v < 464, <<"UnsignedByte">>) \o Only(v >= 552, <<"Long">>)
    \o <<"UnsignedByte", "String">>

SoundEffectFields(v) ==
  Only(v \in 321..325, <<"VarInt">>) \o <<"VarInt">>
    \o Only(v \in 95..320 \/ v >= 326, <<"VarInt">>)
    \o Only(v \in 321..325, <<"String">>)
    \o <<"Integer", "Integer", "Integer", "Float">>
    \o <<IF v >= 201 THEN "Float" ELSE "Byte">>

KeepAliveFields(v) == <<IF v >= 339 THEN "Long" ELSE "VarInt">>
ChatMessageFields == <<"String", "Byte">>
DisconnectFields == <<"String">>
SetCompressionFields == <<"VarInt">>
EntityVelocityFields == <<"VarInt", "Short", "Short", "Short">>
UpdateHealthFields == <<"Float", "VarInt", "Float">>
PluginMessageFields == <<"String", "TrailingByteArray">>
PlayerListHeaderAndFooterFields == <<"String", "String">>
EntityLookFields == <<"VarInt", "Angle", "Angle", "Boolean">>
BlockChangeFields == <<"Position", "VarInt">>
PlayerPositionAndLookFields(v) ==
  <<"Double", "Double", "Double", "Float", "Float", "Byte">> \o Only(v >= 107, <<"VarInt">>)

\* get_definition
Fields(v) ==
  [ KeepAlive |-> KeepAliveFields(v), JoinGame |-> JoinGameFields(v),
    ServerDifficulty |-> ServerDifficultyFields(v), ChatMessage |-> ChatMessageFields,
    Disconnect |-> DisconnectFields, SetCompression |-> SetCompressionFields,
    SpawnPlayer |-> SpawnPlayerFields(v), EntityVelocity |-> EntityVelocityFields,
    UpdateHealth |-> UpdateHealthFields, Respawn |-> RespawnFields(v),
    PluginMessage |-> PluginMessageFields,
    PlayerListHeaderAndFooter |-> PlayerListHeaderAndFooterFields,
    EntityLook |-> EntityLookFields, SoundEffect |-> SoundEffectFields(v),
    BlockChange |-> BlockChangeFields,
    PlayerPositionAndLook |-> PlayerPositionAndLookFields(v) ]

-----------------------------------------------------------------------------
(***************************************************************************)
(* Packets with a reader and a writer of their own: what the reader takes  *)
(* depends on what it has read.                                            *)
(***************************************************************************)
CombatEventWrite(event) ==
  CASE event = "enter" -> <<Cell("VarInt", 0)>>
    [] event = "end" -> <<Cell("VarInt", 1), Cell("VarInt", 0), Cell("Integer", 0)>>
    [] event = "dead" -> <<Cell("VarInt", 2), Cell("VarInt", 0),
                           Cell("Integer", 0), Cell("String", 0)>>

CombatEventRead(c) ==
  <<"VarInt">> \o CASE Value(c, 1) = 0 -> <<>>
                    [] Value(c, 1) = 1 -> <<"VarInt", "Integer">>
                    [] Value(c, 1) = 2 -> <<"VarInt", "Integer", "String">>

\* A record is three bytes.
ExplosionWrite(records) ==
  Cells(<<"Float", "Float", "Float", "Float">>) \o <<Cell("Integer", records)>>
    \o Cells([i \in 1..3 * records |-> "Byte"]) \o Cells(<<"Float", "Float", "Float">>)

ExplosionRead(c) ==
  <<"Float", "Float", "Float", "Float", "Integer">>
    \o [i \in 1..3 * Value(c, 5) |-> "Byte"] \o <<"Float", "Float", "Float">>

FacePlayerWrite(v, is_entity) ==
  LET target == Cells(<<"Double", "Double", "Double">>)
      flag == <<Cell("Boolean", is_entity)>>
  IN IF v >= 353
     THEN Cells(<<"VarInt">>) \o target \o flag
            \o Only(is_entity, Cells(<<"VarInt", "VarInt">>))
     ELSE flag \o IF is_entity THEN Cells(<<"VarInt">>) ELSE target

FacePlayerRead(v, c) ==
  LET target == <<"Double", "Double", "Double">> IN
  IF v >= 353
  THEN <<"VarInt">> \o target \o <<"Boolean">>
         \o Only(Value(c, 5), <<"VarInt", "VarInt">>)
  ELSE <<"Boolean">> \o IF Value(c, 1) THEN <<"VarInt">> ELSE target

SpawnObjectWrite(v, data) ==
  LET xyz == IF v >= 100 THEN "Double" ELSE "Integer" IN
  Cells(<<"VarInt">> \o Only(v >= 49, <<"UUID">>)
          \o <<IF v >= 458 THEN "VarInt" ELSE "Byte", xyz, xyz, xyz, "Angle", "Angle">>)
    \o <<Cell("Integer", data)>>
    \o Only(v >= 49 \/ data > 0, Cells(<<"Short", "Short", "Short">>))

SpawnObjectRead(v, c) ==
  LET xyz == IF v >= 100 THEN "Double" ELSE "Integer"
      head == <<"VarInt">> \o Only(v >= 49, <<"UUID">>)
                \o <<IF v >= 458 THEN "VarInt" ELSE "Byte", xyz, xyz, xyz,
                     "Angle", "Angle", "Integer">>
  IN head \o Only(v >= 49 \/ Value(c, Len(head)) > 0, <<"Short", "Short", "Short">>)

-----------------------------------------------------------------------------
(***************************************************************************)
(* PlayerListItemPacket: actions of one type for several players.          *)
(***************************************************************************)
NoName == "none"
ActionTypes == <<"add", "gamemode", "latency", "display name", "remove">>

DisplayNameWrite(name) ==
  IF name = NoName THEN <<Cell("Boolean", FALSE)>>
  ELSE <<Cell("Boolean", TRUE), Cell("String", name)>>

\* Action.send.  The players' own names and their properties are left out.
ActionWrite(a) ==
  <<Cell("UUID", a.uuid)>> \o
  CASE a.type = "add" ->
         <<Cell("String", 0), Cell("VarInt", 0), Cell("VarInt", a.gamemode),
           Cell("VarInt", a.ping)>> \o DisplayNameWrite(a.display_name)
    [] a.type = "gamemode" -> <<Cell("VarInt", a.gamemode)>>
    [] a.type = "latency" -> <<Cell("VarInt", a.ping)>>
    [] a.type = "display name" -> DisplayNameWrite(a.display_name)
    [] a.type = "remove" -> <<>>

PlayerListWrite(actions) ==
  LET id == CHOOSE i \in DOMAIN ActionTypes : ActionTypes[i] = actions[1].type
  IN <<Cell("VarInt", id - 1), Cell("VarInt", Len(actions))>>
       \o FlattenSeq([i \in DOMAIN actions |-> ActionWrite(actions[i])])

\* Action.read: the fields of the action that begins at cell `at', and their
\* types.  The optional name is the last field.
ActionRead(type, c, at) ==
  LET fields == CASE type = "add" -> <<"String", "VarInt", "VarInt", "VarInt">>
                  [] type \in {"gamemode", "latency"} -> <<"VarInt">>
                  [] OTHER -> <<>>
      flag == at + Len(fields) + 1
      optional == type \in {"add", "display name"}
      named == optional /\ Value(c, flag)
  IN [types |-> <<"UUID">> \o fields \o Only(optional, <<"Boolean">>)
                  \o Only(named, <<"String">>),
      action |-> [type |-> type, uuid |-> Value(c, at),
        gamemode |-> IF type = "add" THEN Value(c, at + 3)
                     ELSE IF type = "gamemode" THEN Value(c, at + 1) ELSE 0,
        ping |-> IF type = "add" THEN Value(c, at + 4)
                 ELSE IF type = "latency" THEN Value(c, at + 1) ELSE 0,
        display_name |-> IF named THEN Value(c, flag + 1) ELSE NoName]]

PlayerListRead(c) ==
  LET type == ActionTypes[Value(c, 1) + 1]
      next(read, i) ==
        LET r == ActionRead(type, c, Len(read.types) + 1)
        IN [types |-> read.types \o r.types, actions |-> Append(read.actions, r.action)]
  IN FoldLeft(next, [types |-> <<"VarInt", "VarInt">>, actions |-> <<>>],
              [i \in 1..Value(c, 2) |-> i])

\* Action.apply: an action on a player that is not listed is ignored.
ActionApply(list, a) ==
  CASE a.type = "add" ->
         [u \in DOMAIN list \cup {a.uuid} |->
            IF u = a.uuid THEN [gamemode |-> a.gamemode, ping |-> a.ping,
                                display_name |-> a.display_name]
            ELSE list[u]]
    [] a.type = "remove" -> [u \in DOMAIN list \ {a.uuid} |-> list[u]]
    [] a.uuid \notin DOMAIN list -> list
    [] a.type = "gamemode" -> [list EXCEPT ![a.uuid].gamemode = a.gamemode]
    [] a.type = "latency" -> [list EXCEPT ![a.uuid].ping = a.ping]
    [] a.type = "display name" ->
         [list EXCEPT ![a.uuid].display_name = a.display_name]

PlayerListApply(list, actions) == FoldLeft(ActionApply, list, actions)

-----------------------------------------------------------------------------
(***************************************************************************)
(* MapPacket: the icons, and a rectangle of the pixels.                    *)
(***************************************************************************)
IconWrite(v, icon) ==
  (IF v >= 373
   THEN <<Cell("VarInt", icon.type), Cell("Byte", 0), Cell("Byte", 0),
          Cell("UnsignedByte", icon.direction)>>
   ELSE <<Cell("UnsignedByte", Mask(icon.type, 4) * 16 + Mask(icon.direction, 4)),
          Cell("Byte", 0), Cell("Byte", 0)>>)
  \o Only(v >= 364, DisplayNameWrite(icon.display_name))

\* write_fields.  The offset is written without a sign and read with one, and
\* is_locked, which versions from 452 on read, is not written.
MapWrite(v, m) ==
  <<Cell("VarInt", 0), Cell("Byte", 0)>> \o Only(v >= 107, <<Cell("Boolean", TRUE)>>)
    \o <<Cell("VarInt", Len(m.icons))>>
    \o FlattenSeq([i \in DOMAIN m.icons |-> IconWrite(v, m.icons[i])])
    \o <<Cell("UnsignedByte", m.width)>>
    \o Only(m.width > 0, <<Cell("UnsignedByte", m.height),
                           Cell("UnsignedByte", m.x), Cell("UnsignedByte", m.z),
                           Cell("VarIntPrefixedByteArray", m.pixels)>>)

IconRead(v, c, at) ==
  LET fields == IF v >= 373 THEN <<"VarInt", "Byte", "Byte", "UnsignedByte">>
                ELSE <<"UnsignedByte", "Byte", "Byte">>
      flag == at + Len(fields)
      named == v >= 364 /\ Value(c, flag)
  IN [types |-> fields \o Only(v >= 364, <<"Boolean">>) \o Only(named, <<"String">>),
      icon |-> [type |-> IF v >= 373 THEN Value(c, at) ELSE Value(c, at) \div 16,
                direction |-> IF v >= 373 THEN Value(c, at + 3) ELSE Value(c, at) % 16,
                display_name |-> IF named THEN Value(c, flag + 1) ELSE NoName]]

MapHead(v) ==
  <<"VarInt", "Byte">> \o Only(v >= 107, <<"Boolean">>)
    \o Only(v >= 452, <<"Boolean">>) \o <<"VarInt">>

MapRead(v, c) ==
  LET head == MapHead(v)
      next(read, i) ==
        LET r == IconRead(v, c, Len(read.types) + 1)
        IN [types |-> read.types \o r.types, icons |-> Append(read.icons, r.icon)]
      read == FoldLeft(next, [types |-> head, icons |-> <<>>],
                       [i \in 1..Value(c, Len(head)) |-> i])
      at == Len(read.types) + 1
      width == Value(c, at)
      pixels(i) == IF width > 0 THEN Value(c, at + i) ELSE 0
  IN [types |-> read.types \o <<"UnsignedByte">>
        \o Only(width > 0, <<"UnsignedByte", "Byte", "Byte", "VarIntPrefixedByteArray">>),
      icons |-> read.icons, width |-> width, height |-> pixels(1),
      x |-> Signed(pixels(2), ByteBits), z |-> Signed(pixels(3), ByteBits),
      pixels |-> IF width > 0 THEN Value(c, at + 4) ELSE <<>>]

\* Mutant: rows and columns swapped.
PixelTurned(m, i) ==
  m.x + ((i - 1) \div m.width) + MapWidth * (m.z + ((i - 1) % m.width))

\* The index in the map of the i-th pixel of the rectangle.
Pixel(m, i) ==
  m.x + ((i - 1) % m.width) + MapWidth * (m.z + ((i - 1) \div m.width))

\* apply_to_map
MapApply(map, m) ==
  [icons |-> m.icons,
   pixels |-> [k \in DOMAIN map.pixels |->
     IF \E i \in DOMAIN m.pixels : Pixel(m, i) = k
     THEN m.pixels[CHOOSE i \in DOMAIN m.pixels : Pixel(m, i) = k]
     ELSE map.pixels[k]]]

-----------------------------------------------------------------------------
(***************************************************************************)
(* PlayerPositionAndLookPacket: of the three coordinates and two angles,   *)
(* one of each.                                                            *)
(***************************************************************************)
PositionWrite(v, p) ==
  <<Cell("Double", p.x), Cell("Double", 0), Cell("Double", 0), Cell("Float", p.yaw),
    Cell("Float", 0), Cell("Byte", p.flags)>>
    \o Only(v >= 107, <<Cell("VarInt", p.teleport_id)>>)

PositionFields(v, c) ==
  [x |-> Value(c, 1), yaw |-> Value(c, 4), flags |-> Value(c, 6),
   teleport_id |-> IF v >= 107 THEN Value(c, 7) ELSE 0]

PositionApply(target, p) ==
  [x |-> (IF "x" \in p.flags THEN target.x ELSE 0) + p.x,
   yaw |-> ((IF "yaw" \in p.flags THEN target.yaw ELSE 0) + p.yaw) % FullTurn]

-----------------------------------------------------------------------------
(***************************************************************************)
(* BlockChangePacket and MultiBlockChangePacket.                           *)
(***************************************************************************)
BlockId(state) == state \div 2^MetaBits
BlockMeta(state) == Mask(state, MetaBits)
SetBlockId(state, id) == BlockMeta(state) + id * 2^MetaBits
SetBlockMeta(state, meta) == (state - BlockMeta(state)) + Mask(meta, MetaBits)

BlockChangeWrite(v, position, state) ==
  <<Cell("Position", PositionSend(position, v)), Cell("VarInt", state)>>

\* Record.write and Record.read: x and z share a byte.
RecordWrite(r) ==
  <<Cell("UnsignedByte", r.x * 2^ChunkBits + Mask(r.z, ChunkBits)),
    Cell("UnsignedByte", r.y), Cell("VarInt", r.state)>>

RecordRead(c, at) ==
  [x |-> Value(c, at) \div 2^ChunkBits, z |-> Mask(Value(c, at), ChunkBits),
   y |-> Value(c, at + 1), state |-> Value(c, at + 2)]

MultiBlockChangeWrite(chunk_x, chunk_z, records) ==
  <<Cell("Integer", chunk_x), Cell("Integer", chunk_z), Cell("VarInt", Len(records))>>
    \o FlattenSeq([i \in DOMAIN records |-> RecordWrite(records[i])])

MultiBlockChangeRead(c) ==
  <<"Integer", "Integer", "VarInt">>
    \o FlattenSeq([i \in 1..Value(c, 3) |-> <<"UnsignedByte", "UnsignedByte", "VarInt">>])

\* The changes in the order of the records, with absolute positions.
Changes(v, k, c) ==
  IF k = "BlockChange"
  THEN <<[position |-> PositionRead(Value(c, 1), v), state |-> Value(c, 2)]>>
  ELSE [i \in 1..Value(c, 3) |->
         LET r == RecordRead(c, 3 * i + 1) IN
         [position |-> Position(Value(c, 1) * 2^ChunkBits + r.x, r.y,
                                Value(c, 2) * 2^ChunkBits + r.z),
          state |-> r.state]]

-----------------------------------------------------------------------------
\* The types that the reader of a packet takes from a body.  What it takes after
\* a field that was not written is left out.
Reads(k, v, c) ==
  CASE k = "CombatEvent" -> CombatEventRead(c)
    [] k = "Explosion" -> ExplosionRead(c)
    [] k = "FacePlayer" -> FacePlayerRead(v, c)
    [] k = "SpawnObject" -> SpawnObjectRead(v, c)
    [] k = "PlayerListItem" -> PlayerListRead(c).types
    [] k = "Map" -> IF Fits(SubSeq(TypesOf(c), 1, Len(MapHead(v))), MapHead(v))
                    THEN MapRead(v, c).types ELSE MapHead(v)
    [] k = "MultiBlockChange" -> MultiBlockChangeRead(c)
    [] OTHER -> Fields(v)[k]
=============================================================================
