------------------------------- MODULE MCPlay -------------------------------
(* Play.tla for TLC, and the pure algorithms below it over small inputs. *)
EXTENDS Play

\* A client of version 5, which announces only that, and one of version 7.
MCClientVersions == {Version(<<5, 0, 9>>), Version(<<7, 0, 10>>)}
MCMajors == {6, 7}
MCConfigured == {NoVersion, SetString(NoVersion, Version(<<6, 0, 14>>))}

Symmetry == Permutations(Clients) \cup Permutations(Items) \cup Permutations(Mobiles)

\* The properties of pure operators are looked at once.
AtStart == \A l \in Clients : servers[l] = Nobody

Protocols == UNKNOWN .. V7

\* The length table of every protocol gives each packet the size of the
\* struct its handler casts it to, the packets with a length field included
\* (length 0 in the table), so that no handler reads past a packet.
TableMatchesStructs ==
  AtStart =>
    \A protocol \in Protocols :
      /\ \A cmd \in DOMAIN StructFor(protocol) :
           GetPacketLengths(protocol)[cmd] = sizeof(StructFor(protocol)[cmd])
      /\ \A cmd \in DOMAIN VariableStruct : GetPacketLengths(protocol)[cmd] = 0

-----------------------------------------------------------------------------
Numbers == {0, 1, 5, 6, 7, 14}
VersionStrings ==
  {Version(n) : n \in {<<a>> : a \in Numbers} \cup {<<6, a, b>> : a, b \in Numbers}
                        \cup {<<6, 0, a, b>> : a, b \in Numbers}}
  \cup {<<<<6, DOT>>, <<0, DOT>>, <<1, 97>>, <<0, 0>>>>}   \* "6.0.1a"

\* client_version_compare() orders version strings: exactly one of less,
\* equal and greater holds whichever way round it is asked, equal means the
\* same string, less is transitive, and a later version never has an earlier
\* protocol.
VersionsOrdered ==
  AtStart =>
    /\ \A a, b \in VersionStrings :
         /\ client_version_compare(a, b) = -client_version_compare(b, a)
         /\ client_version_compare(a, b) = 0 <=> a = b
         /\ client_version_compare(a, b) < 0
              => determine_protocol_version(a) <= determine_protocol_version(b)
    /\ \A a, b, c \in {Version(<<6, 0, n>>) : n \in Numbers} \cup {Version(<<6>>), Version(<<7>>)} :
         client_version_compare(a, b) < 0 /\ client_version_compare(b, c) < 0
           => client_version_compare(a, c) < 0

-----------------------------------------------------------------------------
ContainerItem == [serial |-> 1, item_id |-> 2, x |-> 3]
Contents(n) == [k \in 1 .. n |-> ContainerItem]

\* A converted container content has a length its receiver accepts for its
\* number of items, also the largest content a packet of the other version
\* can hold, and converting back gives the items again.
ContentConverts ==
  AtStart =>
    \A n \in {0, 1, 2, (32767 - ContentHeader) \div Size5} :
      LET p6 == container_content_5_to_6(Content(Contents(n), Size5))
          p5 == container_content_6_to_5(p6)
      IN  /\ packet_verify(p6, p6.length, Size6)
          /\ packet_verify(p5, p5.length, Size5)
          /\ p5.items = Contents(n)

GroundItems ==
  [serial : {7}, item_id : {300}, amount : {0, 1, 600}, x : {0, 300, 32767}, y : {0, 513, 16383},
   direction : {0, 3}, z : {0, 250}, hue : {0, 5, 1025}, flags : {0, 32}]

\* A ground item sent to an old client in the format without optional fields
\* it does not need: reading it by the rules of that format gives back the
\* item, except that amount and hue arrive with their bytes swapped.
GroundItemReadable ==
  AtStart =>
    \A i \in GroundItems :
      LET p == world_item_from_7(i)
      IN  /\ 9 + Len(p.tail) <= sizeof(uo_packet_world_item)
          /\ ReadItem(p, BigAt) = [i EXCEPT !.amount = Swap(@), !.hue = Swap(@)]

\* Tables, structs, version order and conversions agree on the formats: what a
\* handler makes of a packet can be read by the rules of the other version.
FormatsAgree == TableMatchesStructs /\ VersionsOrdered /\ ContentConverts /\ GroundItemReadable
=============================================================================
