--------------------------- MODULE MCPacketStream ---------------------------
(***************************************************************************)
(* Values for PacketStream: every supported version, a version that is not *)
(* one, and topics for versions on both sides of the changes of a format.  *)
(***************************************************************************)
EXTENDS PacketStream

MCServers == SupportedVersions \cup {5}
MCOffers == {SupportedVersions, {47, 340}}
MCCodecs ==
  { <<404, "players">>,
    <<47, "map">>, <<107, "map">>, <<366, "map">>, <<404, "map">>,
    <<47, "place">>, <<107, "place">>,
    <<404, "blocks">>, <<578, "blocks">> }
MCSpots == { Position(-1, 1, 1), Position(1, -2, -2), Position(0, 1, -1) }
=============================================================================
