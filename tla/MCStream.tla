------------------------------ MODULE MCStream ------------------------------
(***************************************************************************)
(* A small instance of Stream: real bytes and the real Huffman code, with  *)
(* shortened packets, seeds of two bytes and a buffer of eight.            *)
(***************************************************************************)
EXTENDS Stream

MCPacketLengths ==
  [c \in 0 .. 255 |-> CASE c = GameLogin -> 3
                        [] c = AccountLogin -> 4
                        [] c = SeedCommand -> 3
                        [] c = 28 -> 0         \* SpeakAscii, variable
                        [] OTHER -> NoLength]

MCHellos == {<< <<7, 9>>, <<GameLogin, 7, 9>> >>,
             << <<SeedCommand, 7, 9>>, <<AccountLogin, 1, 1, 3>> >>}
MCPackets == {<<28, 0, 4, 5>>, <<28, 0, 9, 5>>}
=============================================================================
