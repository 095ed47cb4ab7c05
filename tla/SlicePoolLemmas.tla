-------------------------- MODULE SlicePoolLemmas --------------------------
(***************************************************************************)
(* Lemmas about the pointers of IntrusiveList.tla, about the lists of      *)
(* areas of SlicePool.tla and about the free chain within an area.         *)
(***************************************************************************)
EXTENDS SlicePool, FiniteSetTheorems, TLAPS

Node == Heads \cup Area
Heap == [Node -> [next : Node, prev : Node]]

\* Within N the pointers next and prev are inverse and stay in one list, the
\* list that on names for each node.
Linked(h, N, on) ==
  \A n \in N :
    /\ h[n].next \in N /\ h[h[n].next].prev = n /\ on[h[n].next] = on[n]
    /\ h[n].prev \in N /\ h[h[n].prev].next = n /\ on[h[n].prev] = on[n]

\* The areas M are in lists that fit the free_head F and allocated_count C.
Sorted(on, M, F, C) ==
  /\ on \in [Node -> Heads]
  /\ \A l \in Heads : on[l] = l
  /\ \A a \in M : /\ on[a] = "full_areas" <=> F[a] = END_OF_LIST
                  /\ on[a] = "empty_areas" => C[a] = 0

Placed(h, M, F, C) ==
  h \in Heap /\ \E on : Sorted(on, M, F, C) /\ Linked(h, Heads \cup M, on)

\* The heap g is h with two pointers written.
Joined(g, h, a, b) ==
  /\ g \in Heap
  /\ \A n \in Node : /\ g[n].next = IF n = a THEN b ELSE h[n].next
                     /\ g[n].prev = IF n = b THEN a ELSE h[n].prev

\* Connect() writes two pointers.
LEMMA ConnectJoins ==
  ASSUME NEW h \in Heap, NEW a \in Node, NEW b \in Node
  PROVE  Joined(Connect(h, a, b), h, a, b)
  BY DEF Connect, Heap, Joined

\* unlink() takes one node out.
LEMMA UnlinkLinked ==
  ASSUME NEW h \in Heap, NEW N \in SUBSET Node, NEW on, NEW a \in N, Linked(h, N, on)
  PROVE  unlink(h, a) \in Heap /\ Linked(unlink(h, a), N \ {a}, on)
<1> DEFINE g == unlink(h, a)
<1>1. /\ h[a].prev \in N /\ h[a].next \in N
      /\ h[h[a].prev].next = a /\ h[h[a].next].prev = a
      /\ on[h[a].prev] = on[a] /\ on[h[a].next] = on[a]
  BY DEF Linked
<1>2. /\ g \in Heap
      /\ \A n \in Node : /\ g[n].next = IF n = h[a].prev THEN h[a].next ELSE h[n].next
                         /\ g[n].prev = IF n = h[a].next THEN h[a].prev ELSE h[n].prev
  <2> DEFINE b == h[a].prev
             c == h[a].next
  <2>1. b \in Node /\ c \in Node
    BY <1>1
  <2>2. g = Connect(h, b, c)
    BY DEF unlink
  <2> HIDE DEF b, c, g
  <2>3. Joined(g, h, b, c)
    BY <2>1, <2>2, ConnectJoins
  <2> QED BY <2>3 DEF b, c, Joined
<1> HIDE DEF g
<1>3. ASSUME NEW n \in N \ {a}
      PROVE  /\ g[n].next \in N \ {a} /\ g[g[n].next].prev = n /\ on[g[n].next] = on[n]
             /\ g[n].prev \in N \ {a} /\ g[g[n].prev].next = n /\ on[g[n].prev] = on[n]
  <2>1. /\ h[n].next \in N /\ h[h[n].next].prev = n /\ on[h[n].next] = on[n]
        /\ h[n].prev \in N /\ h[h[n].prev].next = n /\ on[h[n].prev] = on[n]
    BY DEF Linked
  <2>2. /\ g[n].next \in N \ {a} /\ g[g[n].next].prev = n /\ on[g[n].next] = on[n]
    BY <1>1, <1>2, <2>1
  <2>3. /\ g[n].prev \in N \ {a} /\ g[g[n].prev].next = n /\ on[g[n].prev] = on[n]
    BY <1>1, <1>2, <2>1
  <2> QED BY <2>2, <2>3
<1>4. Linked(g, N \ {a}, on)
  BY <1>3 DEF Linked
<1> QED BY <1>2, <1>4 DEF g

\* insert() puts a new node into the list of its position.
LEMMA InsertLinked ==
  ASSUME NEW h \in Heap, NEW N \in SUBSET Node, NEW on, Linked(h, N, on),
         NEW p \in N, NEW a \in Node \ N, on[a] = on[p]
  PROVE  insert(h, p, a) \in Heap /\ Linked(insert(h, p, a), N \cup {a}, on)
<1> DEFINE q == h[p].prev
           g == insert(h, p, a)
<1>1. q \in N /\ h[q].next = p /\ on[q] = on[p]
  BY DEF Linked
<1>2. /\ g \in Heap
      /\ \A n \in Node : /\ g[n].next = IF n = a THEN p ELSE IF n = q THEN a ELSE h[n].next
                         /\ g[n].prev = IF n = p THEN a ELSE IF n = a THEN q ELSE h[n].prev
  <2> DEFINE k == Connect(h, q, a)
  <2>1. q \in Node /\ a \in Node /\ p \in Node
    BY <1>1
  <2>2. k = Connect(h, q, a) /\ g = Connect(k, a, p)
    BY DEF insert
  <2> HIDE DEF k, g, q
  <2>3. Joined(k, h, q, a)
    BY <2>1, <2>2, ConnectJoins
  <2>4. k \in Heap
    BY <2>3 DEF Joined
  <2>5. Joined(g, k, a, p)
    BY <2>1, <2>2, <2>4, ConnectJoins
  <2> QED BY <2>3, <2>5 DEF Joined
<1>3. h[p].prev = q
  OBVIOUS
<1> HIDE DEF g, q
<1>4. /\ g[a].next \in N \cup {a} /\ g[g[a].next].prev = a /\ on[g[a].next] = on[a]
      /\ g[a].prev \in N \cup {a} /\ g[g[a].prev].next = a /\ on[g[a].prev] = on[a]
  BY <1>1, <1>2
<1>5. ASSUME NEW n \in N
      PROVE  /\ g[n].next \in N \cup {a} /\ g[g[n].next].prev = n /\ on[g[n].next] = on[n]
             /\ g[n].prev \in N \cup {a} /\ g[g[n].prev].next = n /\ on[g[n].prev] = on[n]
  <2>1. /\ h[n].next \in N /\ h[h[n].next].prev = n /\ on[h[n].next] = on[n]
        /\ h[n].prev \in N /\ h[h[n].prev].next = n /\ on[h[n].prev] = on[n]
    BY DEF Linked
  <2>2. g[n].next \in N \cup {a} /\ g[g[n].next].prev = n /\ on[g[n].next] = on[n]
    BY <1>1, <1>2, <1>3, <2>1
  <2>3. g[n].prev \in N \cup {a} /\ g[g[n].prev].next = n /\ on[g[n].prev] = on[n]
    BY <1>1, <1>2, <1>3, <2>1
  <2> QED BY <2>2, <2>3
<1>6. Linked(g, N \cup {a}, on)
  BY <1>4, <1>5 DEF Linked
<1> QED BY <1>2, <1>6 DEF g

----------------------------------------------------------------------------
\* Where an area may be put: before the head of list l, or before its first item.
Position(h, l) == {l, h[l].next}

\* Functions that agree outside of a.
ExceptAt(F, G, a) == \A b \in Area \ {a} : F[b] = G[b]

\* An area that is in no list can be put into the list that fits it.
LEMMA InsertPlaced ==
  ASSUME NEW h, NEW M \in SUBSET Area, NEW F, NEW C, NEW a \in Area \ M, NEW l \in Heads,
         NEW F2, NEW C2, Placed(h, M, F, C), ExceptAt(F, F2, a), ExceptAt(C, C2, a),
         l = "full_areas" <=> F2[a] = END_OF_LIST, l = "empty_areas" => C2[a] = 0,
         NEW p \in Position(h, l)
  PROVE  Placed(insert(h, p, a), M \cup {a}, F2, C2)
<1>1. PICK on : Sorted(on, M, F, C) /\ Linked(h, Heads \cup M, on)
  BY DEF Placed
<1>2. h \in Heap
  BY DEF Placed
<1> DEFINE N == Heads \cup M
           new == [on EXCEPT ![a] = l]
<1>3. a \in Node \ N /\ N \in SUBSET Node
  BY AreaAssumption DEF Node
<1>4. p \in N /\ on[p] = l
  BY <1>1 DEF Position, Linked, Sorted
<1>5. on \in [Node -> Heads] /\ new \in [Node -> Heads]
  BY <1>1, <1>3 DEF Sorted
<1>6. new[a] = l /\ \A n \in N : new[n] = on[n]
  BY <1>3, <1>5
<1> HIDE DEF new
<1>7. Linked(h, N, new)
  BY <1>1, <1>6 DEF Linked
<1>8. new[a] = new[p]
  BY <1>4, <1>6
<1>9. insert(h, p, a) \in Heap /\ Linked(insert(h, p, a), N \cup {a}, new)
  BY <1>2, <1>3, <1>4, <1>7, <1>8, InsertLinked
<1>10. Sorted(new, M \cup {a}, F2, C2)
  BY <1>1, <1>3, <1>5, <1>6 DEF Sorted, ExceptAt
<1>11. N \cup {a} = Heads \cup (M \cup {a})
  OBVIOUS
<1> QED BY <1>9, <1>10, <1>11 DEF Placed

\* An area can be taken out of its list.
LEMMA UnlinkPlaced ==
  ASSUME NEW h, NEW M \in SUBSET Area, NEW F, NEW C, NEW a \in M, Placed(h, M, F, C)
  PROVE  Placed(unlink(h, a), M \ {a}, F, C)
<1>1. PICK on : Sorted(on, M, F, C) /\ Linked(h, Heads \cup M, on)
  BY DEF Placed
<1>2. h \in Heap
  BY DEF Placed
<1>3. (Heads \cup M) \ {a} = Heads \cup (M \ {a}) /\ Heads \cup M \in SUBSET Node
  BY AreaAssumption DEF Node
<1>4. a \in Heads \cup M
  OBVIOUS
<1>5. unlink(h, a) \in Heap /\ Linked(unlink(h, a), (Heads \cup M) \ {a}, on)
  BY <1>1, <1>2, <1>3, <1>4, UnlinkLinked
<1>6. Sorted(on, M \ {a}, F, C)
  BY <1>1 DEF Sorted
<1> QED BY <1>3, <1>5, <1>6 DEF Placed

\* Alloc() and Free() move an area to the list that fits it.
LEMMA MovePlaced ==
  ASSUME NEW h, NEW M \in SUBSET Area, NEW F, NEW C, NEW a \in M, NEW l \in Heads,
         NEW F2, NEW C2, Placed(h, M, F, C), ExceptAt(F, F2, a), ExceptAt(C, C2, a),
         l = "full_areas" <=> F2[a] = END_OF_LIST, l = "empty_areas" => C2[a] = 0
  PROVE  /\ Placed(push_back(unlink(h, a), l, a), M, F2, C2)
         /\ Placed(push_front(unlink(h, a), l, a), M, F2, C2)
<1> DEFINE g == unlink(h, a)
<1>1. Placed(g, M \ {a}, F, C)
  BY UnlinkPlaced
<1>2. M \ {a} \in SUBSET Area /\ a \in Area \ (M \ {a}) /\ (M \ {a}) \cup {a} = M
  OBVIOUS
<1>3. l \in Position(g, l) /\ g[l].next \in Position(g, l)
  BY DEF Position
<1> HIDE DEF g
<1>4. \A p \in Position(g, l) : Placed(insert(g, p, a), (M \ {a}) \cup {a}, F2, C2)
  BY <1>1, <1>2, InsertPlaced
<1> QED BY <1>2, <1>3, <1>4 DEF push_back, push_front, front, g

\* An area with used and with free slices may stay in its list.
LEMMA StayPlaced ==
  ASSUME NEW h, NEW M \in SUBSET Area, NEW F, NEW C, NEW a \in M,
         NEW F2, NEW C2, Placed(h, M, F, C), ExceptAt(F, F2, a), ExceptAt(C, C2, a),
         F[a] # END_OF_LIST, F2[a] # END_OF_LIST, C[a] # 0
  PROVE  Placed(h, M, F2, C2)
<1>1. PICK on : Sorted(on, M, F, C) /\ Linked(h, Heads \cup M, on)
  BY DEF Placed
<1>2. Sorted(on, M, F2, C2)
  BY <1>1 DEF Sorted, ExceptAt
<1> QED BY <1>1, <1>2 DEF Placed

\* The first item of a list is an area that fits the list.
LEMMA FrontPlaced ==
  ASSUME NEW h, NEW M \in SUBSET Area, NEW F, NEW C, NEW l \in Heads,
         Placed(h, M, F, C), ~empty(h, l)
  PROVE  /\ front(h, l) \in M
         /\ l # "full_areas" => F[front(h, l)] # END_OF_LIST
         /\ l = "empty_areas" => C[front(h, l)] = 0
<1>1. PICK on : Sorted(on, M, F, C) /\ Linked(h, Heads \cup M, on)
  BY DEF Placed
<1>2. front(h, l) \in Heads \cup M /\ on[front(h, l)] = l /\ front(h, l) # l
  BY <1>1 DEF front, empty, Linked, Sorted
<1> QED BY <1>1, <1>2 DEF Sorted

----------------------------------------------------------------------------
SlotState == Slot \cup {ALLOCATED, END_OF_LIST}
Used(c) == {i \in Slot : c[i] = ALLOCATED}

\* The free slots are chained from f on, each has at most one predecessor and
\* the first has none.
Chained(c, f) ==
  /\ c \in [Slot -> SlotState]
  /\ f = END_OF_LIST \/ f \in Slot \ Used(c)
  /\ \A i \in Slot \ Used(c) :
       c[i] # END_OF_LIST =>
         /\ c[i] \in Slot \ Used(c) /\ c[i] # f
         /\ \A j \in Slot \ Used(c) : c[j] = c[i] => j = i

\* A new area: all slots are free.
LEMMA NewChained == Chained(NewChain, 0) /\ Used(NewChain) = {} /\ NewChain[0] # END_OF_LIST
<1>1. \A i \in Slot : NewChain[i] = IF i < SlicesPerArea - 1 THEN i + 1 ELSE END_OF_LIST
  BY DEF NewChain
<1>2. NewChain \in [Slot -> SlotState]
  BY SlicesAssumption DEF NewChain, SlotState, Slot, END_OF_LIST
<1>3. Used(NewChain) = {}
  BY <1>1, SlicesAssumption DEF Used, Slot, ALLOCATED, END_OF_LIST
<1>4. 0 \in Slot
  BY SlicesAssumption DEF Slot
<1>5. \A i \in Slot : NewChain[i] # END_OF_LIST =>
         /\ NewChain[i] \in Slot /\ NewChain[i] # 0
         /\ \A j \in Slot : NewChain[j] = NewChain[i] => j = i
  BY <1>1, SlicesAssumption DEF Slot, END_OF_LIST
<1>6. NewChain[0] # END_OF_LIST
  BY <1>1, <1>4, SlicesAssumption DEF END_OF_LIST
<1> QED BY <1>2, <1>3, <1>4, <1>5, <1>6 DEF Chained

\* Taking the first slot.
LEMMA AllocChained ==
  ASSUME NEW c, NEW f, Chained(c, f), f # END_OF_LIST
  PROVE  /\ f \in Slot \ Used(c)
         /\ c[f] = END_OF_LIST \/ c[f] \in Slot
         /\ Chained([c EXCEPT ![f] = ALLOCATED], c[f])
         /\ Used([c EXCEPT ![f] = ALLOCATED]) = Used(c) \cup {f}
<1> DEFINE d == [c EXCEPT ![f] = ALLOCATED]
<1>1. f \in Slot \ Used(c) /\ c \in [Slot -> SlotState]
  BY DEF Chained
<1>2. d \in [Slot -> SlotState] /\ d[f] = ALLOCATED /\ \A i \in Slot \ {f} : d[i] = c[i]
  BY <1>1 DEF SlotState
<1> HIDE DEF d
<1>3. Used(d) = Used(c) \cup {f}
  BY <1>1, <1>2 DEF Used
<1>4. c[f] = END_OF_LIST \/ c[f] \in Slot \ Used(d)
  BY <1>1, <1>3 DEF Chained
<1>5. ASSUME NEW i \in Slot \ Used(d), d[i] # END_OF_LIST
      PROVE  /\ d[i] \in Slot \ Used(d) /\ d[i] # c[f]
             /\ \A j \in Slot \ Used(d) : d[j] = d[i] => j = i
  BY <1>1, <1>2, <1>3, <1>5 DEF Chained
<1>6. Chained(d, c[f])
  BY <1>2, <1>4, <1>5 DEF Chained
<1> QED BY <1>1, <1>3, <1>4, <1>6 DEF d

\* Giving back a slot.
LEMMA FreeChained ==
  ASSUME NEW c, NEW f, Chained(c, f), NEW i \in Used(c)
  PROVE  /\ Chained([c EXCEPT ![i] = f], i)
         /\ Used([c EXCEPT ![i] = f]) = Used(c) \ {i}
<1> DEFINE d == [c EXCEPT ![i] = f]
<1>1. i \in Slot /\ c \in [Slot -> SlotState] /\ f # ALLOCATED /\ f \in SlotState
  BY DEF Chained, Used, Slot, ALLOCATED, END_OF_LIST, SlotState
<1>2. d \in [Slot -> SlotState] /\ d[i] = f /\ \A j \in Slot \ {i} : d[j] = c[j]
  BY <1>1
<1> HIDE DEF d
<1>3. Used(d) = Used(c) \ {i}
  BY <1>1, <1>2 DEF Used
<1>4. ASSUME NEW k \in Slot \ Used(d), d[k] # END_OF_LIST
      PROVE  /\ d[k] \in Slot \ Used(d) /\ d[k] # i
             /\ \A j \in Slot \ Used(d) : d[j] = d[k] => j = k
  BY <1>1, <1>2, <1>3, <1>4 DEF Chained
<1>5. Chained(d, i)
  BY <1>1, <1>2, <1>3, <1>4 DEF Chained
<1> QED BY <1>3, <1>5 DEF d

\* Counting used slots.
LEMMA UsedCounted ==
  ASSUME NEW c
  PROVE  /\ IsFiniteSet(Used(c)) /\ Cardinality(Used(c)) \in Nat
         /\ \A i \in Slot \ Used(c) : Cardinality(Used(c) \cup {i}) = Cardinality(Used(c)) + 1
         /\ \A i \in Used(c) : /\ Cardinality(Used(c) \ {i}) = Cardinality(Used(c)) - 1
                              /\ Cardinality(Used(c)) # 0
         /\ Cardinality(Used(c)) = 0 => Used(c) = {}
<1>1. IsFiniteSet(Slot)
  BY FS_Interval, SlicesAssumption DEF Slot
<1>2. IsFiniteSet(Used(c))
  BY <1>1, FS_Subset DEF Used
<1>3. Cardinality(Used(c)) \in Nat /\ (Cardinality(Used(c)) = 0 => Used(c) = {})
  BY <1>2, FS_CardinalityType, FS_EmptySet
<1>4. \A i \in Slot \ Used(c) : Cardinality(Used(c) \cup {i}) = Cardinality(Used(c)) + 1
  BY <1>2, FS_AddElement
<1>5. \A i \in Used(c) : Cardinality(Used(c) \ {i}) = Cardinality(Used(c)) - 1
  BY <1>2, FS_RemoveElement
<1>6. \A i \in Used(c) : Cardinality(Used(c)) # 0
  BY <1>3
<1> QED BY <1>2, <1>3, <1>4, <1>5, <1>6
=============================================================================
