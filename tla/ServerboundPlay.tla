--------------------------- MODULE ServerboundPlay ---------------------------
(***************************************************************************)
(* packets/serverbound/play: the packets that a playing client may write,  *)
(* their ids, given by the versions at which they have changed, and their  *)
(* fields.                                                                 *)
(***************************************************************************)
EXTENDS PacketTypes

KeepAlive == { <<471, \h0F>>, <<464, \h10>>, <<389, \h0E>>, <<386, \h0C>>,
  <<345, \h0B>>, <<343, \h0A>>, <<336, \h0B>>, <<318, \h0C>>, <<107, \h0B>>,
  <<0, \h00>> }
Chat == { <<464, \h03>>, <<389, \h02>>, <<343, \h01>>, <<336, \h02>>,
  <<318, \h03>>, <<107, \h02>>, <<0, \h01>> }
PositionAndLook == { <<471, \h12>>, <<464, \h13>>, <<389, \h11>>,
  <<386, \h0F>>, <<345, \h0E>>, <<343, \h0D>>, <<336, \h0E>>, <<332, \h0F>>,
  <<318, \h0E>>, <<107, \h0D>>, <<0, \h06>> }
TeleportConfirm == { <<0, \h00>> }
Animation == { <<468, \h2A>>, <<464, \h29>>, <<389, \h27>>, <<386, \h25>>,
  <<345, \h1D>>, <<343, \h1C>>, <<332, \h1D>>, <<318, \h1C>>, <<107, \h1A>>,
  <<0, \h0A>> }
ClientStatus == { <<464, \h04>>, <<389, \h03>>, <<343, \h02>>, <<336, \h03>>,
  <<318, \h04>>, <<80, \h03>>, <<67, \h02>>, <<49, \h17>>, <<0, \h16>> }
PluginMessage == { <<464, \h0B>>, <<389, \h0A>>, <<345, \h09>>, <<343, \h08>>,
  <<336, \h09>>, <<317, \h0A>>, <<94, \h09>>, <<0, \h17>> }
PlayerBlockPlacement == { <<468, \h2C>>, <<464, \h2B>>, <<389, \h29>>,
  <<386, \h27>>, <<345, \h1F>>, <<343, \h1E>>, <<332, \h1F>>, <<318, \h1E>>,
  <<94, \h1C>>, <<0, \h08>> }
UseItem == { <<468, \h2D>>, <<464, \h2C>>, <<389, \h2A>>, <<386, \h28>>,
  <<345, \h20>>, <<343, \h1F>>, <<332, \h20>>, <<318, \h1F>>, <<94, \h1D>>,
  <<70, \h1A>>, <<0, \h08>> }
ClientSettings == { <<464, \h05>>, <<389, \h04>>, <<343, \h03>>,
  <<336, \h04>>, <<318, \h05>>, <<94, \h04>>, <<0, \h15>> }
Ids == [ KeepAlive |-> KeepAlive, Chat |-> Chat,
  PositionAndLook |-> PositionAndLook, TeleportConfirm |-> TeleportConfirm,
  Animation |-> Animation, ClientStatus |-> ClientStatus,
  PluginMessage |-> PluginMessage,
  PlayerBlockPlacement |-> PlayerBlockPlacement, UseItem |-> UseItem,
  ClientSettings |-> ClientSettings ]

\* get_packets
Packets(v) ==
  DOMAIN Ids \ ((IF v < 69 THEN {"UseItem"} ELSE {})
                  \cup (IF v < 107 THEN {"TeleportConfirm"} ELSE {}))

AnimationFields(v) == Only(v >= 107, <<"VarInt">>)

PlayerBlockPlacementFields(v) ==
  LET inner == IF v >= 309 THEN "Float" ELSE "Byte" IN
  Only(v >= 453, <<"VarInt">>)
    \o <<"Position", IF v >= 69 THEN "VarInt" ELSE "Byte">>
    \o Only(v < 453, <<"VarInt">>) \o <<inner, inner, inner>>
    \o Only(v >= 453, <<"Boolean">>)

ClientSettingsFields(v) ==
  <<"String", "Byte", IF v > 47 THEN "VarInt" ELSE "Byte", "Boolean",
    "UnsignedByte">> \o Only(v > 49, <<"VarInt">>)

PositionAndLookFields ==
  <<"Double", "Double", "Double", "Float", "Float", "Boolean">>

KeepAliveFields(v) == <<IF v >= 339 THEN "Long" ELSE "VarInt">>
ChatFields == <<"String">>
TeleportConfirmFields == <<"VarInt">>
ClientStatusFields == <<"VarInt">>
UseItemFields == <<"VarInt">>
PluginMessageFields == <<"String", "TrailingByteArray">>

\* get_definition
Fields(v) ==
  [ KeepAlive |-> KeepAliveFields(v), Chat |-> ChatFields,
    TeleportConfirm |-> TeleportConfirmFields, ClientStatus |-> ClientStatusFields,
    UseItem |-> UseItemFields, PluginMessage |-> PluginMessageFields,
    Animation |-> AnimationFields(v), PositionAndLook |-> PositionAndLookFields,
    PlayerBlockPlacement |-> PlayerBlockPlacementFields(v),
    ClientSettings |-> ClientSettingsFields(v) ]
=============================================================================
