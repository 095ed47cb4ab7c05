------------------------------ MODULE Framing ------------------------------
(***************************************************************************)
(* Where a packet ends: GetPacketLength() (uo/Length.cxx), on the bytes    *)
(* that have been received so far.                                         *)
(***************************************************************************)
EXTENDS Integers, Sequences

CONSTANTS
  PacketLengths,    \* packet_lengths: command -> length, 0 when it is variable
  MaxLength         \* bound on variable lengths (the source: 0x8000)

INVALID == -1       \* PACKET_LENGTH_INVALID
NoLength == 65535   \* the table's 0xffff: no such command

GetPacketLength(src) ==
  LET fixed == PacketLengths[src[1]]
      length == 256 * src[2] + src[3]
  IN  IF src = <<>> THEN 0
      ELSE IF fixed = NoLength THEN INVALID
      ELSE IF fixed > 0 THEN fixed
      ELSE IF Len(src) < 3 THEN 0
      ELSE IF length < 3 \/ length >= MaxLength THEN INVALID
      ELSE length

\* What ParsePackets() does next with the bytes of a buffer.
ParseStep(src) ==
  LET n == GetPacketLength(src)
  IN  IF src = <<>> THEN "empty"
      ELSE IF n = INVALID THEN "malformed"
      ELSE IF n = 0 \/ n > Len(src) THEN "more"
      ELSE "packet"
============================================================================
