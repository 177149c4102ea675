------------------------------ MODULE VescPacket ------------------------------
(***************************************************************************)
(* What a frame of the VESC protocol is, and what the packet factory       *)
(* (createPacket) says of bytes that may be the beginning of one.          *)
(*                                                                         *)
(* A byte is a number below Base (256 in the program), so that the two     *)
(* bytes of a large frame's length can be told apart in a small model.     *)
(***************************************************************************)
EXTENDS Integers, Sequences

CONSTANTS
  Base,         \* the number of byte values
  MaxPayload,   \* VESC_MAX_PAYLOAD_SIZE
  Known,        \* payload ids for which a packet type is registered
  Crc(_)        \* the checksum of a payload

ASSUME PacketAssumption ==
  /\ Base \in Nat \ {0}
  /\ MaxPayload \in Nat

SmallFrame == 2    \* VESC_SOF_VAL_SMALL_FRAME
LargeFrame == 3    \* VESC_SOF_VAL_LARGE_FRAME
EndOfFrame == 3    \* VESC_EOF_VAL
MinFrame   == 5    \* VESC_MIN_FRAME_SIZE
MaxFrame   == 6 + MaxPayload

Bytes == 0 .. Base - 1

-----------------------------------------------------------------------------
\* createPacket on the bytes of s behind the first i.

StartsFrame(s, i) == s[i + 1] \in {SmallFrame, LargeFrame}

Header(s, i) == IF s[i + 1] = SmallFrame THEN 2 ELSE 3

PayloadSize(s, i) ==
  IF s[i + 1] = SmallFrame THEN s[i + 2] ELSE s[i + 2] * Base + s[i + 3]

FrameSize(s, i) == Header(s, i) + PayloadSize(s, i) + 3

Payload(s, i) == SubSeq(s, i + Header(s, i) + 1, i + Header(s, i) + PayloadSize(s, i))

\* Mutant: a frame of any length is waited for.
IncompleteAnyLength(s, i) ==
  IF Len(s) - i < MinFrame THEN TRUE ELSE Len(s) - i < FrameSize(s, i)

\* More bytes are needed to tell.
Incomplete(s, i) ==
  IF Len(s) - i < MinFrame THEN TRUE
  ELSE PayloadSize(s, i) <= MaxPayload /\ Len(s) - i < FrameSize(s, i)

\* End of frame, checksum and a registered payload type.
GoodFrame(s, i) ==
  LET last == i + FrameSize(s, i)
  IN /\ PayloadSize(s, i) \in 1 .. MaxPayload
     /\ s[last] = EndOfFrame
     /\ s[last - 2] * Base + s[last - 1] = Crc(Payload(s, i))
     /\ Payload(s, i)[1] \in Known
=============================================================================
