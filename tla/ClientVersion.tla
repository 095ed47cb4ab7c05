---------------------------- MODULE ClientVersion ----------------------------
(***************************************************************************)
(* ClientVersion (CVersion.cxx): what is known of the version of a client. *)
(* A version string is the sequence of its numbers, each with the          *)
(* character that follows it, the last with 0.                             *)
(***************************************************************************)
EXTENDS Packets

DOT == 46      \* '.'

\* The string with the given numbers, separated by dots.
Version(numbers) ==
  [k \in DOMAIN numbers |-> <<numbers[k], IF k = Len(numbers) THEN 0 ELSE DOT>>]

client_version_compare(a, b) ==
  LET compare[k \in Nat] ==
        IF a[k][1] < b[k][1] THEN -1
        ELSE IF a[k][1] > b[k][1] THEN 1
        ELSE IF a[k][2] < b[k][2] THEN -1
        ELSE IF a[k][2] > b[k][2] THEN 1
        ELSE IF a[k][2] = 0 THEN 0
        ELSE compare[k + 1]
  IN  compare[1]

determine_protocol_version(version) ==
  LET since(numbers) == client_version_compare(version, Version(numbers)) >= 0
  IN  IF since(<<7>>) THEN V7
      ELSE IF since(<<6, 0, 14>>) THEN V6_0_14
      ELSE IF since(<<6, 0, 5>>) THEN V6_0_5
      ELSE IF since(<<6, 0, 1, 7>>) THEN V6
      ELSE IF since(<<1>>) THEN V5
      ELSE UNKNOWN

\* packet, seed: whether one is stored.
NoVersion == [packet |-> FALSE, seed |-> FALSE, protocol |-> UNKNOWN]

IsDefined(v) == v.packet

\* Set(packet), of a valid packet: does not override what a Seed has told.
SetPacket(v, version) ==
  [v EXCEPT !.packet = TRUE,
            !.protocol = IF @ = UNKNOWN THEN determine_protocol_version(version) ELSE @]

\* Set(string)
SetString(v, version) ==
  [v EXCEPT !.packet = TRUE, !.protocol = determine_protocol_version(version)]

Seed(v, client_major) ==
  [v EXCEPT !.seed = TRUE, !.protocol = IF client_major >= 7 THEN V7 ELSE V6_0_5]
=============================================================================
