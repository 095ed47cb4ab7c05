------------------------------- MODULE Bridge -------------------------------
(***************************************************************************)
(* The conversions of Bridge.cxx, which let clients of different protocol  *)
(* versions share a session.  A packet is a record of its fields; of an    *)
(* old WorldItem, whose fields are optional, "tail" is the bytes from      *)
(* "amount" on.                                                            *)
(***************************************************************************)
EXTENDS Packets, SequencesExt

Without(r, field) == [f \in DOMAIN r \ {field} |-> r[f]]

container_item_5_to_6(src) == src @@ [unknown1 |-> 0]
container_item_6_to_5(src) == Without(src, "unknown1")

ContentHeader == sizeof(uo_packet_container_content) - sizeof(uo_packet_fragment_container_item)
Size5 == sizeof(uo_packet_fragment_container_item)
Size6 == sizeof(uo_packet_fragment_container_item_6)

\* A content packet: the length field has 16 bits.
Content(items, size) ==
  [length |-> (ContentHeader + Len(items) * size) % 65536, num |-> Len(items), items |-> items]

Each(items, Convert(_)) == [k \in DOMAIN items |-> Convert(items[k])]

container_content_5_to_6(src) ==
  Content(Each(src.items, container_item_5_to_6), Size6)

container_content_6_to_5(src) ==
  Content(Each(src.items, container_item_6_to_5), Size5)

\* packet_verify_container_content(), _6()
packet_verify(p, length, size) == length = ContentHeader + p.num * size

drop_5_to_6(src) == src @@ [unknown0 |-> 0]
drop_6_to_5(src) == Without(src, "unknown0")

supported_features_6_to_6014(src) == src
supported_features_6014_to_6(src) == [src EXCEPT !.flags = @ % 65536]

-----------------------------------------------------------------------------
\* A number in network byte order; as a little-endian machine stores it.
Big(n) == <<n \div 256, n % 256>>
Raw(n) == <<n % 256, n \div 256>>
Swap(n) == 256 * (n % 256) + n \div 256

Optional(present, bytes) == IF present THEN bytes ELSE <<>>
Bit(present, value) == IF present THEN value ELSE 0

\* has_amount: the top bit of the serial.  amount and hue are stored raw.
world_item_from_7(src) ==
  [has_amount |-> src.amount # 0, serial |-> src.serial, item_id |-> src.item_id,
   tail |-> Optional(src.amount # 0, Raw(src.amount))
              \o Big(src.x + Bit(src.direction # 0, 32768))
              \o Big(src.y + Bit(src.hue # 0, 32768) + Bit(src.flags # 0, 16384))
              \o Optional(src.direction # 0, <<src.direction>>) \o <<src.z>>
              \o Optional(src.hue # 0, Raw(src.hue))
              \o Optional(src.flags # 0, <<src.flags>>)]

\* The fields of an old WorldItem, 16 bit numbers read by Number().
ReadItem(p, Number(_, _)) ==
  LET a == IF p.has_amount THEN 2 ELSE 0             \* offset of x
      x == Number(p.tail, a)
      y == Number(p.tail, a + 2)
      d == IF x >= 32768 THEN 1 ELSE 0
      hue == IF y >= 32768 THEN 2 ELSE 0
      f == IF y % 32768 >= 16384 THEN 1 ELSE 0
  IN  [serial |-> p.serial, item_id |-> p.item_id,
       amount |-> IF p.has_amount THEN Number(p.tail, 0) ELSE 0,
       x |-> x % 32768, y |-> y % 16384,
       direction |-> IF d = 1 THEN p.tail[a + 5] ELSE 0,
       z |-> p.tail[a + d + 5],
       hue |-> IF hue = 2 THEN Number(p.tail, a + d + 5) ELSE 0,
       flags |-> IF f = 1 THEN p.tail[a + d + hue + 6] ELSE 0]

BigAt(s, k) == 256 * s[k + 1] + s[k + 2]
RawAt(s, k) == s[k + 1] + 256 * s[k + 2]

\* All 16 bit numbers are read raw, the bits tested in them too; x and y are
\* not stored.
world_item_to_7(p) == [ReadItem(p, RawAt) EXCEPT !.x = 0, !.y = 0]
=============================================================================
