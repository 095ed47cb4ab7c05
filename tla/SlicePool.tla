----------------------------- MODULE SlicePool -----------------------------
(***************************************************************************)
(* The allocator of the I/O buffers (memory/SlicePool.cxx, SliceArea.hxx): *)
(* areas of equal slices, each with a chain of free slots, in three lists  *)
(* according to how full they are.                                         *)
(*                                                                         *)
(* Area are the addresses where the kernel may map an area, a bound.       *)
(***************************************************************************)
EXTENDS IntrusiveList

CONSTANTS Area, SlicesPerArea

\* fb_pool_init() asks for 32 slices.  With a single slice an area that is
\* freed would be both no longer full and empty, and Free() would put it into
\* the wrong list.
ASSUME SlicesAssumption == SlicesPerArea \in Nat /\ SlicesPerArea > 1

Slot == 0 .. SlicesPerArea - 1
ALLOCATED == -1
END_OF_LIST == -2

Heads == {"areas", "empty_areas", "full_areas"}

ASSUME AreaAssumption == Area \cap (Heads \cup {nullptr}) = {}

VARIABLES
  pc,               \* "run", "compress", "destroy" or "gone"
  mapped,           \* the areas that exist
  links,            \* the pointers of the three lists
  slices,           \* per area: the free chain through its slots
  free_head, allocated_count,
  users             \* how many users each slice <<area, slot>> has

vars == <<pc, mapped, links, slices, free_head, allocated_count, users>>

Init ==
  /\ pc = "run" /\ mapped = {}
  /\ links = [n \in Heads \cup Area |-> [next |-> n, prev |-> n]]
  /\ slices = [a \in Area |-> [i \in Slot |-> END_OF_LIST]]
  /\ free_head = [a \in Area |-> 0]
  /\ allocated_count = [a \in Area |-> 0]
  /\ users = [c \in Area \X Slot |-> 0]

\* The constructor of SliceArea builds the chain.
NewChain == [i \in Slot |-> IF i < SlicesPerArea - 1 THEN i + 1 ELSE END_OF_LIST]

IsFullArea(a) == free_head[a] = END_OF_LIST
IsEmptyArea(a) == allocated_count[a] = 0

\* The rest of SlicePool::Alloc() with a slot of area a, whose list pointers
\* are in h, and chain and head in chain and first.
AllocFrom_StaysEmpty(a, h, chain, first, count) ==
  LET next == chain[first] IN
  /\ slices' = [slices EXCEPT ![a] = [chain EXCEPT ![first] = ALLOCATED]]
  /\ free_head' = [free_head EXCEPT ![a] = next]
  /\ allocated_count' = [allocated_count EXCEPT ![a] = count + 1]
  /\ links' = IF next = END_OF_LIST THEN push_back(unlink(h, a), "full_areas", a) ELSE h
  /\ users' = [users EXCEPT ![<<a, first>>] = @ + 1]

AllocFrom(a, h, chain, first, count) ==
  LET next == chain[first] IN
  /\ slices' = [slices EXCEPT ![a] = [chain EXCEPT ![first] = ALLOCATED]]
  /\ free_head' = [free_head EXCEPT ![a] = next]
  /\ allocated_count' = [allocated_count EXCEPT ![a] = count + 1]
  /\ links' = IF next = END_OF_LIST THEN push_back(unlink(h, a), "full_areas", a)
              ELSE IF count = 0 THEN push_back(unlink(h, a), "areas", a)
              ELSE h
  /\ users' = [users EXCEPT ![<<a, first>>] = @ + 1]

\* FindNonFullArea(): a used area first, then an empty one.
AllocFound ==
  LET a == IF ~empty(links, "areas") THEN front(links, "areas") ELSE front(links, "empty_areas") IN
  /\ pc = "run"
  /\ ~empty(links, "areas") \/ ~empty(links, "empty_areas")
  /\ AllocFrom(a, links, slices[a], free_head[a], allocated_count[a])
  /\ UNCHANGED <<pc, mapped>>

\* MakeNonFullArea() maps a new one.
AllocNew(a) ==
  /\ pc = "run"
  /\ empty(links, "areas") /\ empty(links, "empty_areas")
  /\ a \notin mapped
  /\ mapped' = mapped \cup {a}
  /\ AllocFrom(a, push_front(links, "empty_areas", a), NewChain, 0, 0)
  /\ UNCHANGED pc

\* SlicePool::Free() and SliceArea::_Free(), on a slice that is in use.
MoveFreed_StillLinked(a, was_full) ==
  links' = IF was_full THEN push_front(links, "areas", a)
           ELSE IF allocated_count'[a] = 0 THEN push_front(unlink(links, a), "empty_areas", a)
           ELSE links

MoveFreed(a, was_full) ==
  links' = IF was_full THEN push_front(unlink(links, a), "areas", a)
           ELSE IF allocated_count'[a] = 0 THEN push_front(unlink(links, a), "empty_areas", a)
           ELSE links

FreedNext_HeadFirst(a, i) == i
FreedNext(a, i) == free_head[a]

Free(a, i) ==
  /\ pc = "run"
  /\ users[<<a, i>>] > 0
  /\ slices' = [slices EXCEPT ![a][i] = FreedNext(a, i)]
  /\ free_head' = [free_head EXCEPT ![a] = i]
  /\ allocated_count' = [allocated_count EXCEPT ![a] = @ - 1]
  /\ MoveFreed(a, IsFullArea(a))
  /\ users' = [users EXCEPT ![<<a, i>>] = @ - 1]
  /\ UNCHANGED <<pc, mapped>>

\* Compress(), and the destructor once all slices were given back: all of the
\* empty areas are unmapped, one after the other.
BeginDispose ==
  /\ pc = "run"
  /\ \/ pc' = "compress"
     \/ (\A c \in DOMAIN users : users[c] = 0) /\ pc' = "destroy"
  /\ UNCHANGED <<mapped, links, slices, free_head, allocated_count, users>>

DisposeFront ==
  LET a == front(links, "empty_areas") IN
  /\ pc \in {"compress", "destroy"} /\ ~empty(links, "empty_areas")
  /\ links' = pop_front(links, "empty_areas")
  /\ mapped' = mapped \ {a}
  /\ UNCHANGED <<pc, slices, free_head, allocated_count, users>>

EndDispose ==
  /\ pc \in {"compress", "destroy"} /\ empty(links, "empty_areas")
  /\ pc' = IF pc = "compress" THEN "run" ELSE "gone"
  /\ UNCHANGED <<mapped, links, slices, free_head, allocated_count, users>>

Next ==
  \/ AllocFound
  \/ \E a \in Area : AllocNew(a)
  \/ \E a \in Area, i \in Slot : Free(a, i)
  \/ BeginDispose
  \/ DisposeFront
  \/ EndDispose

Spec == Init /\ [][Next]_vars

----------------------------------------------------------------------------
\* Where an area belongs: FindNonFullArea(), Compress() and the destructor rely
\* on each list holding the areas of one kind.
Home(n) ==
  IF n \in Heads THEN n
  ELSE IF IsFullArea(n) THEN "full_areas"
  ELSE IF IsEmptyArea(n) THEN "empty_areas"
  ELSE "areas"

\* Every area is in exactly one list, once, the one for its filling level, and
\* the lists are intact in both directions.
ListsByFilling ==
  \A l \in Heads :
    LET s == Items(links, l) IN
    /\ ItemsReversed(links, l) = Reverse(s)
    /\ IsInjective(s)
    /\ ToSet(s) = {a \in mapped : Home(a) = l}

\* The chain that starts at free_head goes through each free slot once and
\* ends, and allocated_count counts the others.
ChainExact ==
  \A a \in mapped :
    LET free == {i \in Slot : slices[a][i] # ALLOCATED}
        reached[n \in 0 .. SlicesPerArea] ==
          IF n = 0 THEN free_head[a]
          ELSE LET i == reached[n - 1] IN IF i = END_OF_LIST THEN END_OF_LIST ELSE slices[a][i]
    IN  /\ {reached[n] : n \in 0 .. SlicesPerArea} = free \cup {END_OF_LIST}
        /\ allocated_count[a] = SlicesPerArea - Cardinality(free)

\* The areas that are unmapped, by Compress() or at the end, have no slice in
\* use; SliceArea::Delete() asserts it.
NeverUnmapsUsed == \A a \in Area \ mapped, i \in Slot : users[<<a, i>>] = 0

\* What the destructor asserts, and that it leaves no area behind.
DestroyedClean == pc = "gone" => mapped = {} /\ empty(links, "areas") /\ empty(links, "full_areas")

\* The lists and the free chains describe the areas after every Alloc(), Free()
\* and Compress(), up to the destructor.
PoolIntact == ListsByFilling /\ ChainExact /\ DestroyedClean

A == INSTANCE Allocator WITH Cells <- Area \X Slot

\* Alloc() never returns a slice that is in use.
AllocatesUnused == A!Spec
============================================================================
