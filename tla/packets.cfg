SPECIFICATION Spec
CONSTANTS
 ByteBits = 2
 GroupBits = 3
 PlaneBits = 2
 HeightBits = 2
 ChunkBits = 1
 MetaBits = 1
 MapWidth = 2
 FullTurn = 3
 Offers <- MCOffers
 Defaults = {47}
 Servers <- MCServers
 Upgrades = {340, 578}
 Codecs <- MCCodecs
 Players = {1, 2}
 Spots <- MCSpots
 Threshold = 2
 Relative = FALSE
 MaxDials = 3
 MaxPackets = 4
 MaxWire = 2
INVARIANTS TypeOK ReadAsItself SpokenVersion Replica AnsweredInOrder
CHECK_DEADLOCK FALSE
