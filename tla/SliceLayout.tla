---------------------------- MODULE SliceLayout ----------------------------
(***************************************************************************)
(* Where the slices of an area lie in memory (memory/SlicePool.cxx): the   *)
(* arithmetic of the constructor, of GetSlice() and IndexOf(), and the     *)
(* pages Compress() gives back to the kernel.  Addresses count from the    *)
(* start of the area.                                                      *)
(***************************************************************************)
EXTENDS Integers, FiniteSets

CONSTANT PAGE_SIZE

ASSUME PageAssumption == PAGE_SIZE \in Nat \ {0} /\ PAGE_SIZE % 32 = 0

divide_round_up(a, b) == (a + b - 1) \div b
RoundUp(size, unit) == divide_round_up(size, unit) * unit
align_size(size) == RoundUp(size, 32)

\* sizeof(SliceArea), with one slot, and the slots that follow it.
GetHeaderSize(n) == 40 + 4 * (n - 1)

\* The constructor of SlicePool.
Pool(size, count) ==
  LET small == size <= PAGE_SIZE \div 2
      slice_size == IF small THEN align_size(size) ELSE RoundUp(size, PAGE_SIZE)
      per_page == IF small THEN PAGE_SIZE \div slice_size ELSE 1
      pages == IF small THEN 1 ELSE slice_size \div PAGE_SIZE
      area == IF small THEN divide_round_up(count, per_page) ELSE count * pages
      per_area == (area \div pages) * per_page
  IN  [slice_size |-> slice_size, slices_per_page |-> per_page, pages_per_slice |-> pages,
       pages_per_area |-> area, slices_per_area |-> per_area,
       header_pages |-> divide_round_up(GetHeaderSize(per_area), PAGE_SIZE)]

AreaSize(p) == PAGE_SIZE * (p.header_pages + p.pages_per_area)

GetPage(p, page) == (p.header_pages + page) * PAGE_SIZE

GetSlice_PageOnly(p, i) == GetPage(p, i \div p.slices_per_page) + (i % p.slices_per_page) * p.slice_size
GetSlice(p, i) ==
  GetPage(p, (i \div p.slices_per_page) * p.pages_per_slice) + (i % p.slices_per_page) * p.slice_size

IndexOf(p, address) ==
  LET page == (address \div PAGE_SIZE) - p.header_pages
      offset == address % PAGE_SIZE
  IN  ((page * p.slices_per_page) \div p.pages_per_slice) + (offset \div p.slice_size)

----------------------------------------------------------------------------
\* SliceArea::Compress(), used being the allocated slots.  Only the slots of one
\* page are looked at.
FirstIn(p, set, start) ==
  LET found == {i \in start .. p.slices_per_page - 1 : i \in set}
  IN  IF found = {} THEN p.slices_per_page ELSE CHOOSE i \in found : \A j \in found : i <= j
FindFree(p, used, start) == FirstIn(p, (0 .. p.slices_per_area - 1) \ used, start)
FindAllocated(p, used, start) == FirstIn(p, used, start)

\* The pages from start_page to end_page; both come from the start of the range,
\* so that there is never one.
PunchSliceRange(p, start, end) ==
  (divide_round_up(start, p.slices_per_page) * p.pages_per_slice)
    .. ((start \div p.slices_per_page) * p.pages_per_slice - 1)

Discarded(p, used) ==
  LET from[position \in 0 .. p.slices_per_page] ==
        LET free == FindFree(p, used, position)
            next == FindAllocated(p, used, free + 1)
        IN  IF free = p.slices_per_page THEN {}
            ELSE PunchSliceRange(p, free, next) \cup from[next]
  IN  from[0]
============================================================================
