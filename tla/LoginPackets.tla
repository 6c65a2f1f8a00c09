---------------------------- MODULE LoginPackets ----------------------------
(***************************************************************************)
(* packets/clientbound/login and packets/serverbound/login: the packets of *)
(* the login state, their ids and their fields.  An id is given by the     *)
(* versions at which it has changed.                                       *)
(***************************************************************************)
EXTENDS PacketTypes

Disconnect == { <<391, \h00>>, <<385, \h01>>, <<0, \h00>> }
EncryptionRequest == { <<391, \h01>>, <<385, \h02>>, <<0, \h01>> }
LoginSuccess == { <<391, \h02>>, <<385, \h03>>, <<0, \h02>> }
SetCompression == { <<391, \h03>>, <<385, \h04>>, <<0, \h03>> }
PluginRequest == { <<391, \h04>>, <<0, \h00>> }
Ids == [ Disconnect |-> Disconnect, EncryptionRequest |-> EncryptionRequest,
  LoginSuccess |-> LoginSuccess, SetCompression |-> SetCompression,
  PluginRequest |-> PluginRequest ]

LoginStart == { <<391, \h00>>, <<385, \h01>>, <<0, \h00>> }
EncryptionResponse == { <<391, \h01>>, <<385, \h02>>, <<0, \h01>> }
PluginResponse == { <<391, \h02>>, <<0, \h00>> }
AnswerIds == [ LoginStart |-> LoginStart, EncryptionResponse |-> EncryptionResponse,
  PluginResponse |-> PluginResponse ]

\* get_packets
Packets(v) == DOMAIN Ids \ (IF v < 385 THEN {"PluginRequest"} ELSE {})
Answers(v) == DOMAIN AnswerIds \ (IF v < 385 THEN {"PluginResponse"} ELSE {})

\* The fields of the packets that the server sends; the threshold is the only
\* one that the client's reading depends on.
Fields ==
  [ Disconnect |-> <<"String">>,
    EncryptionRequest |-> <<"String", "VarIntPrefixedByteArray",
                            "VarIntPrefixedByteArray">>,
    LoginSuccess |-> <<"String", "String">>,
    SetCompression |-> <<"VarInt">>,
    PluginRequest |-> <<"VarInt", "String", "TrailingByteArray">> ]

AnswerFields ==
  [ LoginStart |-> <<"String">>,
    EncryptionResponse |-> <<"VarIntPrefixedByteArray", "VarIntPrefixedByteArray">> ]

\* PluginResponsePacket has a reader and a writer of its own.
PluginResponseWrite(successful) ==
  <<Cell("VarInt", 0), Cell("Boolean", successful)>>
    \o Only(successful, <<Cell("TrailingByteArray", 0)>>)

PluginResponseRead(c) ==
  <<"VarInt", "Boolean">> \o Only(Value(c, 2), <<"TrailingByteArray">>)
=============================================================================
