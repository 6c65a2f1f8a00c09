----------------------------- MODULE PacketTypes -----------------------------
(***************************************************************************)
(* minecraft/networking/types/basic.py and packets/packet.py: how values   *)
(* and whole packets are put on the wire and taken off it.  A packet's body*)
(* is a sequence of cells, each a value with the type that wrote it: a read*)
(* with a type of another form does not give the value back.               *)
(***************************************************************************)
EXTENDS Integers, Sequences, FiniteSetsExt

CONSTANTS
  ByteBits,    \* bits of a byte (8)
  GroupBits,   \* bits of a byte of a VarInt (7)
  PlaneBits,   \* bits of a Position's x and z (26)
  HeightBits,  \* bits of a Position's y (12)
  ChunkBits,   \* bits of a coordinate within a chunk (4)
  MetaBits     \* bits of a block's meta value (4)

ASSUME WidthAssumption ==
  {ByteBits, GroupBits, PlaneBits, HeightBits, ChunkBits, MetaBits} \subseteq Nat \ {0}

Cell(type, value) == <<type, value>>
Cells(types) == [i \in DOMAIN types |-> Cell(types[i], 0)]
TypesOf(cells) == [i \in DOMAIN cells |-> cells[i][1]]
Value(cells, i) == cells[i][2]

\* Bytes with and without a sign take one byte each.
Alike(type, other) ==
  type = other \/ {type, other} = {"Byte", "UnsignedByte"}

\* What has been written with the one types is read with the others to its end.
Fits(written, read) ==
  /\ Len(written) = Len(read)
  /\ \A i \in DOMAIN written : Alike(written[i], read[i])

\* A field that is there only under a condition.
Only(cond, cells) == IF cond THEN cells ELSE <<>>

\* Conditional chains of get_id: the id of the latest change up to version v.
Since(changes, v) ==
  LET last == Max({c[1] : c \in {d \in changes : d[1] <= v}})
  IN (CHOOSE c \in changes : c[1] = last)[2]

-----------------------------------------------------------------------------
Mask(n, bits) == n % 2^bits
Signed(n, bits) == IF n >= 2^(bits - 1) THEN n - 2^bits ELSE n

VarIntSend(n) ==
  LET size == CHOOSE k \in 1..(n + 1) :
                n < 2^(GroupBits * k) /\ (k = 1 \/ n >= 2^(GroupBits * (k - 1)))
  IN [i \in 1..size |->
        [low |-> Mask(n \div 2^(GroupBits * (i - 1)), GroupBits), more |-> i < size]]

\* Five continuation bytes are followed by a sixth byte before the error.
VarIntReadable(bytes) == \E i \in DOMAIN bytes : ~ bytes[i].more /\ i <= 6

VarIntRead(bytes) ==
  MapThenSumSet(LAMBDA i : bytes[i].low * 2^(GroupBits * (i - 1)), DOMAIN bytes)

Position(x, y, z) == [x |-> x, y |-> y, z |-> z]

PositionSend(p, v) ==
  LET x == Mask(p.x, PlaneBits)
      y == Mask(p.y, HeightBits)
      z == Mask(p.z, PlaneBits)
  IN IF v >= 443
     THEN x * 2^(PlaneBits + HeightBits) + z * 2^HeightBits + y
     ELSE x * 2^(PlaneBits + HeightBits) + y * 2^PlaneBits + z

PositionRead(n, v) ==
  LET x == n \div 2^(PlaneBits + HeightBits)
      z == IF v >= 443 THEN Mask(n \div 2^HeightBits, PlaneBits) ELSE Mask(n, PlaneBits)
      y == IF v >= 443 THEN Mask(n, HeightBits) ELSE Mask(n \div 2^PlaneBits, HeightBits)
  IN Position(Signed(x, PlaneBits), Signed(y, HeightBits), Signed(z, PlaneBits))

-----------------------------------------------------------------------------
(***************************************************************************)
(* A frame: the id and the body, and, once compression is on, the size of  *)
(* what has been compressed, or 0.  The threshold is "off" before          *)
(* compression is enabled; -1 enables it without compressing anything.     *)
(***************************************************************************)
Payload(id, body) == [id |-> VarIntSend(id), body |-> body]
Length(payload) == Len(payload.id) + Len(payload.body)

\* _write_buffer
Frame(payload, enabled, threshold) ==
  [sized |-> enabled,
   size |-> IF enabled /\ Length(payload) > threshold /\ threshold # -1
            THEN Length(payload) ELSE 0,
   payload |-> payload]

\* read_packet: without compression the size would be read as the packet's id.
Readable(frame, enabled) ==
  /\ frame.sized = enabled
  /\ frame.size \in {0, Length(frame.payload)}
  /\ VarIntReadable(frame.payload.id)
=============================================================================
