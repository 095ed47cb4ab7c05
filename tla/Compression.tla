---------------------------- MODULE Compression ----------------------------
(***************************************************************************)
(* The compression of packets to clients (Compression.cxx): a static       *)
(* Huffman code, the tree of the source included, one flush code at the    *)
(* end of each packet.                                                     *)
(*                                                                         *)
(* A byte is a number, pending bits are a sequence.  Buffers that are too  *)
(* small are modelled where the operators are used (module Stream).        *)
(***************************************************************************)
EXTENDS Integers, SequencesExt

\* The tree: left and right of each node; a number that is not positive is a
\* leaf, its negative the byte, 256 the flush code.
huffman_tree_low == <<
  <<1,2>>, <<3,4>>, <<5,0>>, <<6,7>>, <<8,9>>, <<10,11>>, <<12,13>>, <<-256,14>>, <<15,16>>,
  <<17,18>>, <<19,20>>, <<21,22>>, <<-1,23>>, <<24,25>>, <<26,27>>, <<28,29>>, <<30,31>>,
  <<32,33>>, <<34,35>>, <<36,37>>, <<38,39>>, <<40,-64>>, <<41,42>>, <<43,44>>, <<-6,45>>,
  <<46,47>>, <<48,49>>, <<50,51>>, <<-119,52>>, <<-32,53>>, <<54,-14>>, <<55,-5>>, <<56,57>>,
  <<58,59>>, <<60,-2>>, <<61,62>>, <<63,64>>, <<65,66>>, <<67,68>>, <<69,70>>, <<71,72>>,
  <<-51,73>>, <<74,75>>, <<76,77>>, <<-101,-111>>, <<-4,-97>>, <<78,79>>, <<-110,80>>,
  <<81,-116>>, <<82,83>>, <<84,-255>>, <<85,86>>, <<87,88>>, <<89,90>>, <<-15,-10>>, <<91,92>>,
  <<-21,93>>, <<-117,94>>, <<95,96>>, <<97,98>>, <<99,100>>, <<-114,101>>, <<-105,102>>,
  <<-26,103>>, <<104,105>>, <<106,107>>, <<108,109>>, <<110,111>>, <<112,-3>>, <<113,-7>>,
  <<114,-131>>, <<115,-144>>, <<116,117>>, <<-20,118>>, <<119,120>>, <<121,122>>, <<123,124>>,
  <<125,126>>, <<127,128>>, <<129,-100>>, <<130,-8>>, <<131,132>>, <<133,134>>, <<-120,135>>,
  <<136,-31>>, <<137,138>>, <<-109,-234>>, <<139,140>>, <<141,142>>, <<143,144>>, <<-112,145>>,
  <<-19,146>>, <<147,148>>, <<149,-66>>, <<150,-145>>, <<-13,-65>>, <<151,152>>, <<153,154>>,
  <<-30,155>>, <<156,157>>, <<-99,158>>, <<159,160>>, <<161,162>>, <<-23,163>>, <<-29,164>>,
  <<-11,165>>, <<166,-115>>, <<167,168>>, <<169,170>>, <<-16,171>>, <<-34,172>>, <<173,-132>>,
  <<174,-108>>, <<175,-22>>, <<176,-9>>, <<177,-84>>, <<-17,-37>>, <<-28,178>>, <<179,180>>,
  <<181,182>>, <<183,184>>, <<185,186>>, <<187,-104>>, <<188,-78>>, <<189,-61>>, <<-79,-178>>,
  <<-59,-134>>, <<190,-25>> >>

huffman_tree_high == <<
  <<-83,-18>>, <<191,-57>>, <<-67,192>>, <<-98,193>>, <<-12,-68>>, <<194,195>>, <<-55,-128>>,
  <<-24,-50>>, <<-70,196>>, <<-94,-33>>, <<197,-129>>, <<-74,198>>, <<-82,199>>, <<-56,-87>>,
  <<-44,200>>, <<-248,201>>, <<-163,-81>>, <<-52,-123>>, <<202,-113>>, <<-48,-41>>, <<-122,-40>>,
  <<203,-90>>, <<-54,204>>, <<-86,-192>>, <<205,206>>, <<207,-130>>, <<-53,208>>, <<-133,-45>>,
  <<209,210>>, <<211,-91>>, <<212,213>>, <<-106,-88>>, <<214,215>>, <<216,217>>, <<218,-49>>,
  <<219,220>>, <<221,222>>, <<223,224>>, <<225,226>>, <<227,-102>>, <<-160,228>>, <<-46,229>>,
  <<-127,230>>, <<-103,231>>, <<232,233>>, <<-60,234>>, <<235,-76>>, <<236,-121>>, <<237,-73>>,
  <<-149,238>>, <<239,-107>>, <<-35,240>>, <<-71,-27>>, <<-69,241>>, <<-89,-77>>, <<-62,-118>>,
  <<-75,-85>>, <<-72,-58>>, <<-63,-80>>, <<242,-42>>, <<-150,-157>>, <<-139,-236>>, <<-126,-243>>,
  <<-142,-214>>, <<-138,-206>>, <<-240,-146>>, <<-204,-147>>, <<-152,-201>>, <<-227,-207>>,
  <<-154,-209>>, <<-153,-254>>, <<-176,-156>>, <<-165,-210>>, <<-172,-185>>, <<-195,-170>>,
  <<-232,-211>>, <<-219,-239>>, <<-200,-177>>, <<-175,-212>>, <<-244,-143>>, <<-246,-171>>,
  <<-203,-221>>, <<-202,-181>>, <<-173,-250>>, <<-184,-164>>, <<-193,-218>>, <<-199,-220>>,
  <<-190,-249>>, <<-230,-217>>, <<-169,-216>>, <<-191,-197>>, <<-47,243>>, <<244,245>>,
  <<246,247>>, <<-148,-159>>, <<248,249>>, <<-92,-93>>, <<-96,-225>>, <<-151,-95>>, <<250,251>>,
  <<-241,252>>, <<-161,-36>>, <<253,254>>, <<-135,-39>>, <<-187,-124>>, <<255,-251>>,
  <<-162,-238>>, <<-242,-38>>, <<-43,-125>>, <<-215,-253>>, <<-140,-208>>, <<-137,-235>>,
  <<-158,-237>>, <<-136,-205>>, <<-155,-141>>, <<-228,-229>>, <<-213,-168>>, <<-224,-194>>,
  <<-196,-226>>, <<-183,-233>>, <<-231,-167>>, <<-174,-189>>, <<-252,-166>>, <<-198,-222>>,
  <<-188,-179>>, <<-223,-182>>, <<-180,-186>>, <<-245,-247>> >>

Node(n) == IF n < 128 THEN huffman_tree_low[n + 1] ELSE huffman_tree_high[n - 127]
FLUSH == 256
Step(n, b) == IF b = 1 THEN Node(n)[1] ELSE Node(n)[2]

----------------------------------------------------------------------------
\* HuffmanTreeToBitTable(): the path to each node, and the code of each leaf.
Path[n \in 0 .. 255] ==
  IF n = 0 THEN <<>>
  ELSE LET up == CHOOSE m \in 0 .. n - 1 : n \in {Node(m)[1], Node(m)[2]}
       IN  Append(Path[up], IF Node(up)[1] = n THEN 1 ELSE 0)

bit_table == [s \in 0 .. FLUSH |->
  LET up == CHOOSE m \in 0 .. 255 : -s \in {Node(m)[1], Node(m)[2]}
  IN  Append(Path[up], IF Node(up)[1] = -s THEN 1 ELSE 0)]

\* Eight bits as a byte, and back.
ToByte(bits) == FoldLeft(LAMBDA v, b : 2 * v + b, 0, bits)
ToBits(byte) == [i \in 1 .. 8 |-> (byte \div 2^(8 - i)) % 2]

\* struct Compression: the bits that wait for a full byte; peak is the largest
\* number of bits out_data had to hold.
NewCompression == [pending |-> <<>>, dest |-> <<>>, peak |-> 0]

FeedChar(co, ch) ==
  LET bits == co.pending \o bit_table[ch]
  IN  [co EXCEPT !.pending = bits, !.peak = Max({@, Len(bits)})]

OutputBits(co) ==
  LET n == Len(co.pending) \div 8
      byte(i) == ToByte(SubSeq(co.pending, 8 * i - 7, 8 * i))
  IN  [co EXCEPT !.pending = SubSeq(@, 8 * n + 1, Len(@)),
                 !.dest = @ \o [i \in 1 .. n |-> byte(i)]]

FlushOutput(co) ==
  IF co.pending = <<>> THEN co
  ELSE [co EXCEPT !.dest = Append(@, ToByte(co.pending \o [i \in 1 .. (-Len(co.pending)) % 8 |-> 0])),
                  !.pending = <<>>]

CompressPacket(src) ==
  LET feed(co, ch) == OutputBits(FeedChar(co, ch))
  IN  FlushOutput(feed(FoldLeft(feed, NewCompression, src), FLUSH))

Compress(src) == CompressPacket(src).dest

----------------------------------------------------------------------------
\* Decompression::Decompress(): one bit after the other down the tree; after a
\* flush code the rest of the byte is skipped.  All of src is used, so between
\* two calls only the position in the tree is kept.
Decoding == [treepos : 0 .. 255, rest : Seq({0, 1}), dest : Seq(0 .. 255)]

SkipToByte_KeepsBits(bits) == bits
SkipToByte(bits) == SubSeq(bits, (Len(bits) % 8) + 1, Len(bits))

DecodeBit(d) ==
  LET t == Step(d.treepos, Head(d.rest))
      rest == Tail(d.rest)
  IN  IF t > 0 THEN [d EXCEPT !.treepos = t, !.rest = rest]
      ELSE IF t = -FLUSH THEN [d EXCEPT !.treepos = 0, !.rest = SkipToByte(rest)]
      ELSE [treepos |-> 0, rest |-> rest, dest |-> Append(d.dest, -t)]

Decoded[d \in Decoding] ==
  IF d.rest = <<>> THEN d ELSE Decoded[DecodeBit(d)]

Decompress(pos, src) ==
  Decoded[ [treepos |-> pos, dest |-> <<>>,
           rest |-> FlattenSeq([i \in DOMAIN src |-> ToBits(src[i])]) ] ]
============================================================================
