--------------------------- MODULE SlicePoolProof ---------------------------
(***************************************************************************)
(* SlicePool for any number of areas and of slices: no slice is handed out *)
(* twice, and no area is unmapped while one of its slices is in use.       *)
(***************************************************************************)
EXTENDS SlicePoolLemmas

Types ==
  /\ mapped \in SUBSET Area
  /\ slices \in [Area -> [Slot -> SlotState]]
  /\ free_head \in [Area -> Slot \cup {END_OF_LIST}]
  /\ allocated_count \in [Area -> Nat]
  /\ users \in [Area \X Slot -> {0, 1}]

AreaIntact(c, f, n) == Chained(c, f) /\ n = Cardinality(Used(c))

\* The users of area a are those of the slots U.
UsersAre(a, U) == \A i \in Slot : users[<<a, i>>] = IF i \in U THEN 1 ELSE 0

\* The inductive invariant.
Inv ==
  /\ Types
  /\ \A a \in mapped : /\ AreaIntact(slices[a], free_head[a], allocated_count[a])
                       /\ UsersAre(a, Used(slices[a]))
  /\ \A a \in Area \ mapped : UsersAre(a, {})
  /\ Placed(links, mapped, free_head, allocated_count)

\* The initial state.
LEMMA InitInv == Init => Inv
<1> SUFFICES ASSUME Init PROVE Inv
  OBVIOUS
<1>1. Types
  BY SlicesAssumption DEF Init, Types, Slot, SlotState
<1>2. \A a \in Area : UsersAre(a, {})
  BY DEF Init, UsersAre
<1>3. links \in Heap /\ \A n \in Node : links[n] = [next |-> n, prev |-> n]
  BY DEF Init, Heap, Node
<1> DEFINE on == [n \in Node |-> IF n \in Heads THEN n ELSE "areas"]
<1>4. on \in [Node -> Heads] /\ \A l \in Heads : on[l] = l
  BY DEF Node, Heads
<1>5. Sorted(on, {}, free_head, allocated_count)
  BY <1>4 DEF Sorted
<1> HIDE DEF on
<1>6. Linked(links, Heads \cup {}, on)
  <2>1. ASSUME NEW n \in Heads
        PROVE  links[n].next = n /\ links[n].prev = n
    <3>1. links[n] = [next |-> n, prev |-> n]
      BY <1>3 DEF Node
    <3> QED BY <3>1
  <2>2. Heads \cup {} = Heads
    OBVIOUS
  <2> QED BY <2>1, <2>2 DEF Linked
<1>7. Placed(links, mapped, free_head, allocated_count)
  BY <1>3, <1>5, <1>6 DEF Placed, Init
<1> QED BY <1>1, <1>2, <1>7 DEF Inv, Init

\* What AllocFrom() relies on: an area with a free slot, and others intact.
Ready(M, a, h, chain, first, count) ==
  /\ M \in SUBSET Area /\ a \in M
  /\ AreaIntact(chain, first, count) /\ first # END_OF_LIST
  /\ UsersAre(a, Used(chain))
  /\ \A b \in M \ {a} : /\ AreaIntact(slices[b], free_head[b], allocated_count[b])
                        /\ UsersAre(b, Used(slices[b]))
  /\ \A b \in Area \ M : UsersAre(b, {})
  /\ Placed(h, M, [free_head EXCEPT ![a] = first], [allocated_count EXCEPT ![a] = count])

\* AllocFrom() hands out an unused slice and leaves the pool intact.
LEMMA AllocFromInv ==
  ASSUME Types, NEW a, NEW h, NEW chain, NEW first, NEW count,
         Ready(mapped', a, h, chain, first, count), AllocFrom(a, h, chain, first, count)
  PROVE  Inv' /\ A!Alloc
<1> DEFINE next == chain[first]
           c2 == [chain EXCEPT ![first] = ALLOCATED]
<1>1. a \in mapped' /\ mapped' \in SUBSET Area /\ a \in Area
  BY DEF Ready
<1>2. /\ first \in Slot \ Used(chain) /\ next \in Slot \cup {END_OF_LIST}
      /\ Chained(c2, next) /\ Used(c2) = Used(chain) \cup {first}
  BY AllocChained DEF Ready, AreaIntact
<1>3. count = Cardinality(Used(chain)) /\ count \in Nat
  BY UsedCounted DEF Ready, AreaIntact
<1>4. count + 1 = Cardinality(Used(c2))
  BY <1>2, <1>3, UsedCounted
<1>5. c2 \in [Slot -> SlotState]
  BY <1>2 DEF Chained
<1>6. /\ slices' = [slices EXCEPT ![a] = c2]
      /\ free_head' = [free_head EXCEPT ![a] = next]
      /\ allocated_count' = [allocated_count EXCEPT ![a] = count + 1]
      /\ users' = [users EXCEPT ![<<a, first>>] = @ + 1]
      /\ links' = IF next = END_OF_LIST THEN push_back(unlink(h, a), "full_areas", a)
                  ELSE IF count = 0 THEN push_back(unlink(h, a), "areas", a)
                  ELSE h
  BY DEF AllocFrom
<1>7. users[<<a, first>>] = 0 /\ <<a, first>> \in Area \X Slot
  BY <1>1, <1>2 DEF Ready, UsersAre
<1>8. users' = [users EXCEPT ![<<a, first>>] = 1]
  BY <1>6, <1>7
<1> HIDE DEF next, c2
<1>9. Types'
  BY <1>1, <1>2, <1>3, <1>5, <1>6, <1>7, <1>8 DEF Types
<1>10. /\ slices'[a] = c2 /\ free_head'[a] = next /\ allocated_count'[a] = count + 1
       /\ \A b \in Area \ {a} : /\ slices'[b] = slices[b] /\ free_head'[b] = free_head[b]
                               /\ allocated_count'[b] = allocated_count[b]
  BY <1>1, <1>6 DEF Types
<1>11. /\ \A i \in Slot : users'[<<a, i>>] = IF i = first THEN 1 ELSE users[<<a, i>>]
       /\ \A b \in Area \ {a}, i \in Slot : users'[<<b, i>>] = users[<<b, i>>]
  BY <1>1, <1>2, <1>8 DEF Types
<1>12. AreaIntact(c2, next, count + 1)
  BY <1>2, <1>4 DEF AreaIntact
<1>13. UsersAre(a, Used(slices[a]))'
  BY <1>2, <1>10, <1>11 DEF Ready, UsersAre
<1>14. \A b \in mapped' \ {a} : /\ AreaIntact(slices[b], free_head[b], allocated_count[b])
                               /\ UsersAre(b, Used(slices[b]))'
  BY <1>1, <1>10, <1>11 DEF Ready, UsersAre
<1>15. \A b \in Area \ mapped' : UsersAre(b, {})'
  <2>1. ASSUME NEW b \in Area \ mapped', NEW i \in Slot
        PROVE  users'[<<b, i>>] = 0
    <3>1. UsersAre(b, {})
      BY <2>1 DEF Ready
    <3>2. users[<<b, i>>] = 0
      BY <3>1 DEF UsersAre
    <3> QED BY <1>1, <1>11, <3>2
  <2> QED BY <2>1 DEF UsersAre
<1>16. Placed(links', mapped', free_head', allocated_count')
  <2> DEFINE F == [free_head EXCEPT ![a] = first]
             C == [allocated_count EXCEPT ![a] = count]
  <2>1. Placed(h, mapped', F, C) /\ first # END_OF_LIST
    BY DEF Ready
  <2>2. F[a] = first /\ C[a] = count
    BY <1>1 DEF Types
  <2>3. ExceptAt(F, free_head', a) /\ ExceptAt(C, allocated_count', a)
    BY <1>1, <1>10 DEF Types, ExceptAt
  <2> HIDE DEF F, C
  <2>4. CASE next = END_OF_LIST
    <3>1. links' = push_back(unlink(h, a), "full_areas", a) /\ "full_areas" \in Heads
      BY <1>6, <2>4 DEF Heads
    <3>2. "full_areas" = "full_areas" <=> free_head'[a] = END_OF_LIST
      BY <1>10, <2>4
    <3> QED BY <1>1, <2>1, <2>3, <3>1, <3>2, MovePlaced
  <2>5. CASE next # END_OF_LIST /\ count = 0
    <3>1. links' = push_back(unlink(h, a), "areas", a) /\ "areas" \in Heads
      BY <1>6, <2>5 DEF Heads
    <3>2. "areas" = "full_areas" <=> free_head'[a] = END_OF_LIST
      BY <1>10, <2>5
    <3> QED BY <1>1, <2>1, <2>3, <3>1, <3>2, MovePlaced
  <2>6. CASE next # END_OF_LIST /\ count # 0
    <3>1. links' = h
      BY <1>6, <2>6
    <3>2. F[a] # END_OF_LIST /\ free_head'[a] # END_OF_LIST /\ C[a] # 0
      BY <1>10, <2>1, <2>2, <2>6
    <3>3. Placed(h, mapped', free_head', allocated_count')
      BY <1>1, <2>1, <2>3, <3>2, StayPlaced
    <3> QED BY <3>1, <3>3
  <2> QED BY <2>4, <2>5, <2>6
<1>17. \A b \in mapped' : /\ AreaIntact(slices'[b], free_head'[b], allocated_count'[b])
                         /\ UsersAre(b, Used(slices[b]))'
  BY <1>1, <1>10, <1>12, <1>13, <1>14
<1>18. Inv'
  BY <1>9, <1>15, <1>16, <1>17 DEF Inv
<1>19. A!Alloc
  BY <1>7, <1>8 DEF A!Alloc
<1> QED BY <1>18, <1>19

\* Free() takes back a slice in use.
LEMMA FreeInv ==
  ASSUME Inv, NEW a \in Area, NEW i \in Slot, Free(a, i)
  PROVE  Inv' /\ A!Free
<1> DEFINE c2 == [slices[a] EXCEPT ![i] = free_head[a]]
<1>1. Types /\ mapped' = mapped /\ mapped \in SUBSET Area
  BY DEF Inv, Types, Free
<1>2. a \in mapped /\ i \in Used(slices[a]) /\ users[<<a, i>>] = 1
  <2>1. users[<<a, i>>] > 0
    BY DEF Free
  <2>2. a \in mapped
    BY <2>1 DEF Inv, UsersAre
  <2> QED BY <2>1, <2>2 DEF Inv, UsersAre
<1>3. /\ Chained(slices[a], free_head[a])
      /\ allocated_count[a] = Cardinality(Used(slices[a])) /\ UsersAre(a, Used(slices[a]))
  BY <1>2 DEF Inv, AreaIntact
<1>4. Chained(c2, i) /\ Used(c2) = Used(slices[a]) \ {i}
  BY <1>2, <1>3, FreeChained
<1>5. /\ Cardinality(Used(c2)) = allocated_count[a] - 1
      /\ allocated_count[a] # 0 /\ allocated_count[a] \in Nat
  BY <1>2, <1>3, <1>4, UsedCounted
<1>6. c2 \in [Slot -> SlotState]
  BY <1>4 DEF Chained
<1>7. /\ slices' = [slices EXCEPT ![a] = c2]
      /\ free_head' = [free_head EXCEPT ![a] = i]
      /\ allocated_count' = [allocated_count EXCEPT ![a] = @ - 1]
      /\ users' = [users EXCEPT ![<<a, i>>] = @ - 1]
      /\ MoveFreed(a, IsFullArea(a))
  BY <1>1 DEF Free, FreedNext, Types
<1>8. users' = [users EXCEPT ![<<a, i>>] = 0] /\ <<a, i>> \in Area \X Slot
  BY <1>2, <1>7
<1> HIDE DEF c2
<1>9. Types'
  <2>1. allocated_count[a] - 1 \in Nat
    BY <1>5
  <2>2. allocated_count' \in [Area -> Nat]
    BY <1>1, <1>7, <2>1 DEF Types
  <2>3. users' \in [Area \X Slot -> {0, 1}]
    BY <1>1, <1>8 DEF Types
  <2> QED BY <1>1, <1>6, <1>7, <2>2, <2>3 DEF Types
<1>10. /\ slices'[a] = c2 /\ free_head'[a] = i /\ allocated_count'[a] = allocated_count[a] - 1
       /\ \A b \in Area \ {a} : /\ slices'[b] = slices[b] /\ free_head'[b] = free_head[b]
                               /\ allocated_count'[b] = allocated_count[b]
  BY <1>1, <1>7 DEF Types
<1>11. /\ \A j \in Slot : users'[<<a, j>>] = IF j = i THEN 0 ELSE users[<<a, j>>]
       /\ \A b \in Area \ {a}, j \in Slot : users'[<<b, j>>] = users[<<b, j>>]
  BY <1>1, <1>8 DEF Types
<1>12. AreaIntact(slices'[a], free_head'[a], allocated_count'[a])
  BY <1>4, <1>5, <1>10 DEF AreaIntact
<1>13. UsersAre(a, Used(slices[a]))'
  BY <1>3, <1>4, <1>10, <1>11 DEF UsersAre
<1>14. ASSUME NEW b \in mapped \ {a}
       PROVE  /\ AreaIntact(slices'[b], free_head'[b], allocated_count'[b])
              /\ UsersAre(b, Used(slices[b]))'
  <2>1. AreaIntact(slices[b], free_head[b], allocated_count[b]) /\ UsersAre(b, Used(slices[b]))
    BY DEF Inv
  <2> QED BY <1>1, <1>10, <1>11, <2>1 DEF UsersAre
<1>15. ASSUME NEW b \in Area \ mapped
       PROVE  UsersAre(b, {})'
  <2>1. UsersAre(b, {})
    BY DEF Inv
  <2>2. \A j \in Slot : users[<<b, j>>] = 0
    BY <2>1 DEF UsersAre
  <2>3. \A j \in Slot : users'[<<b, j>>] = 0
    BY <1>2, <1>11, <2>2
  <2> QED BY <2>3 DEF UsersAre
<1>16. Placed(links', mapped, free_head', allocated_count')
  <2>1. Placed(links, mapped, free_head, allocated_count) /\ i # END_OF_LIST
    BY DEF Inv, Slot, END_OF_LIST
  <2>2. ExceptAt(free_head, free_head', a) /\ ExceptAt(allocated_count, allocated_count', a)
    BY <1>10 DEF ExceptAt
  <2>3. "areas" \in Heads /\ "empty_areas" \in Heads
    BY DEF Heads
  <2>4. free_head'[a] # END_OF_LIST
    BY <1>10, <2>1
  <2>5. CASE IsFullArea(a)
    <3>1. links' = push_front(unlink(links, a), "areas", a)
      BY <1>7, <2>5 DEF MoveFreed
    <3> QED BY <1>1, <1>2, <2>1, <2>2, <2>3, <2>4, <3>1, MovePlaced
  <2>6. CASE ~IsFullArea(a) /\ allocated_count'[a] = 0
    <3>1. links' = push_front(unlink(links, a), "empty_areas", a)
      BY <1>7, <2>6 DEF MoveFreed
    <3> QED BY <1>1, <1>2, <2>1, <2>2, <2>3, <2>4, <2>6, <3>1, MovePlaced
  <2>7. CASE ~IsFullArea(a) /\ allocated_count'[a] # 0
    <3>1. links' = links /\ free_head[a] # END_OF_LIST
      BY <1>7, <2>7 DEF MoveFreed, IsFullArea
    <3>2. Placed(links, mapped, free_head', allocated_count')
      BY <1>1, <1>2, <1>5, <2>1, <2>2, <2>4, <3>1, StayPlaced
    <3> QED BY <3>1, <3>2
  <2> QED BY <2>5, <2>6, <2>7
<1>17. Inv'
  BY <1>1, <1>9, <1>12, <1>13, <1>14, <1>15, <1>16 DEF Inv
<1>18. A!Free
  BY <1>2, <1>8 DEF A!Free
<1> QED BY <1>17, <1>18

\* Alloc() from an area that has a free slot.
LEMMA AllocFoundInv ==
  ASSUME Inv, AllocFound
  PROVE  Inv' /\ A!Alloc
<1> DEFINE l == IF ~empty(links, "areas") THEN "areas" ELSE "empty_areas"
           a == front(links, l)
<1>1. l \in Heads /\ ~empty(links, l) /\ l # "full_areas"
  BY DEF AllocFound, Heads
<1>2. Types /\ mapped' = mapped /\ Placed(links, mapped, free_head, allocated_count)
  BY DEF Inv, AllocFound
<1>3. AllocFrom(a, links, slices[a], free_head[a], allocated_count[a])
  BY DEF AllocFound
<1> HIDE DEF l
<1>4. a \in mapped /\ mapped \in SUBSET Area /\ free_head[a] # END_OF_LIST
  BY <1>1, <1>2, FrontPlaced DEF Types
<1> HIDE DEF a
<1>5. /\ [free_head EXCEPT ![a] = free_head[a]] = free_head
      /\ [allocated_count EXCEPT ![a] = allocated_count[a]] = allocated_count
  BY <1>2, <1>4 DEF Types
<1>6. Ready(mapped, a, links, slices[a], free_head[a], allocated_count[a])
  BY <1>2, <1>4, <1>5 DEF Ready, Inv
<1> QED BY <1>2, <1>3, <1>6, AllocFromInv

\* Alloc() from a new area.
LEMMA AllocNewInv ==
  ASSUME Inv, NEW a \in Area, AllocNew(a)
  PROVE  Inv' /\ A!Alloc
<1> DEFINE h == push_front(links, "empty_areas", a)
           F == [free_head EXCEPT ![a] = 0]
           C == [allocated_count EXCEPT ![a] = 0]
<1>1. /\ Types /\ mapped' = mapped \cup {a} /\ a \notin mapped
      /\ mapped \in SUBSET Area /\ mapped' \in SUBSET Area
      /\ Placed(links, mapped, free_head, allocated_count)
  BY DEF Inv, AllocNew, Types
<1>2. AllocFrom(a, h, NewChain, 0, 0)
  BY DEF AllocNew
<1>3. AreaIntact(NewChain, 0, 0) /\ Used(NewChain) = {} /\ 0 # END_OF_LIST
  BY NewChained, FS_EmptySet DEF AreaIntact, END_OF_LIST
<1>4. Placed(h, mapped', F, C)
  <2>1. F[a] = 0 /\ C[a] = 0
    BY <1>1 DEF Types
  <2>2. ExceptAt(free_head, F, a) /\ ExceptAt(allocated_count, C, a)
    BY <1>1 DEF Types, ExceptAt
  <2>3. "empty_areas" \in Heads /\ links["empty_areas"].next \in Position(links, "empty_areas")
    BY DEF Heads, Position
  <2>4. F[a] # END_OF_LIST /\ a \in Area \ mapped
    BY <1>1, <1>3, <2>1
  <2> HIDE DEF F, C
  <2>5. Placed(insert(links, links["empty_areas"].next, a), mapped \cup {a}, F, C)
    BY <1>1, <2>1, <2>2, <2>3, <2>4, InsertPlaced
  <2> QED BY <1>1, <2>5 DEF push_front, front
<1>5. UsersAre(a, Used(NewChain))
  BY <1>1, <1>3 DEF Inv
<1>6. Ready(mapped', a, h, NewChain, 0, 0)
  BY <1>1, <1>3, <1>4, <1>5 DEF Ready, Inv
<1> QED BY <1>1, <1>2, <1>6, AllocFromInv

\* Compress() and the destructor unmap areas without users.
LEMMA DisposeFrontInv ==
  ASSUME Inv, DisposeFront
  PROVE  Inv'
<1> DEFINE a == front(links, "empty_areas")
<1>1. /\ mapped' = mapped \ {a} /\ links' = unlink(links, a) /\ ~empty(links, "empty_areas")
      /\ UNCHANGED <<slices, free_head, allocated_count, users>>
  BY DEF DisposeFront, pop_front
<1>2. /\ Types /\ mapped \in SUBSET Area /\ "empty_areas" \in Heads
      /\ Placed(links, mapped, free_head, allocated_count)
  BY DEF Inv, Types, Heads
<1>3. a \in mapped /\ allocated_count[a] = 0
  BY <1>1, <1>2, FrontPlaced
<1> HIDE DEF a
<1>4. Used(slices[a]) = {} /\ UsersAre(a, Used(slices[a]))
  BY <1>3, UsedCounted DEF Inv, AreaIntact
<1>5. Placed(links', mapped', free_head', allocated_count')
  BY <1>1, <1>2, <1>3, UnlinkPlaced
<1>6. Types'
  BY <1>1, <1>2 DEF Types
<1>7. \A b \in Area \ mapped' : UsersAre(b, {})'
  <2>1. \A b \in Area \ mapped' : UsersAre(b, {})
    BY <1>1, <1>4 DEF Inv
  <2> QED BY <1>1, <2>1 DEF UsersAre
<1>8. \A b \in mapped' : /\ AreaIntact(slices'[b], free_head'[b], allocated_count'[b])
                        /\ UsersAre(b, Used(slices[b]))'
  BY <1>1 DEF Inv, UsersAre
<1> QED BY <1>5, <1>6, <1>7, <1>8 DEF Inv

\* Every step keeps the invariant, and is a step of Allocator or none.
LEMMA NextInv == Inv /\ [Next]_vars => Inv' /\ [A!Alloc \/ A!Free]_users
<1> SUFFICES ASSUME Inv, [Next]_vars PROVE Inv' /\ [A!Alloc \/ A!Free]_users
  OBVIOUS
<1>1. CASE AllocFound
  BY <1>1, AllocFoundInv
<1>2. CASE \E a \in Area : AllocNew(a)
  BY <1>2, AllocNewInv
<1>3. CASE \E a \in Area, i \in Slot : Free(a, i)
  BY <1>3, FreeInv
<1>4. CASE DisposeFront
  BY <1>4, DisposeFrontInv DEF DisposeFront
<1>5. ASSUME UNCHANGED <<mapped, links, slices, free_head, allocated_count, users>>
      PROVE  Inv' /\ users' = users
  BY <1>5 DEF Inv, Types, UsersAre
<1>6. CASE BeginDispose \/ EndDispose \/ UNCHANGED vars
  BY <1>5, <1>6 DEF BeginDispose, EndDispose, vars
<1> QED BY <1>1, <1>2, <1>3, <1>4, <1>6 DEF Next

\* The inductive invariant holds for any number of areas and slices.
THEOREM PoolInvariant == Spec => []Inv
<1> QED BY InitInv, NextInv, PTL DEF Spec

\* Compress() and the destructor never unmap an area with a slice in use, the
\* assertion of SliceArea::Delete().
THEOREM NeverUnmapsInUse == Spec => []NeverUnmapsUsed
<1>1. Inv => NeverUnmapsUsed
  BY DEF Inv, UsersAre, NeverUnmapsUsed
<1> QED BY <1>1, PoolInvariant, PTL

\* SlicePool implements Allocator: Alloc() never returns a slice in use.
THEOREM PoolRefines == Spec => AllocatesUnused
<1>1. Init => A!Init
  BY DEF Init, A!Init
<1> QED BY <1>1, NextInv, PoolInvariant, PTL DEF Spec, AllocatesUnused, A!Spec
=============================================================================
