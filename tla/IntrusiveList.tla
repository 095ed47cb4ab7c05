--------------------------- MODULE IntrusiveList ---------------------------
(***************************************************************************)
(* The doubly-linked circular lists that hold nearly everything in the     *)
(* program (util/IntrusiveList.hxx), pointer by pointer.                   *)
(*                                                                         *)
(* h is the heap: it maps each node to its links next and prev.  A list is *)
(* its head, a node that is no item.                                       *)
(***************************************************************************)
EXTENDS Integers, FiniteSets, SequencesExt

nullptr == "nullptr"

Connect(h, a, b) == [h EXCEPT ![a].next = b, ![b].prev = a]

NewList(h, l) == [h EXCEPT ![l] = [next |-> l, prev |-> l]]
empty(h, l) == h[l].next = l
front(h, l) == h[l].next
back(h, l) == h[l].prev

\* unlink() of a NORMAL hook leaves its own pointers as they are; the hooks
\* that can be asked is_linked() reset next.
unlink_OneWay(h, n) == [h EXCEPT ![h[n].prev].next = h[n].next]
unlink(h, n) == Connect(h, h[n].prev, h[n].next)
unlink_track(h, n) == [unlink(h, n) EXCEPT ![n].next = nullptr]
is_linked(h, n) == h[n].next # nullptr

\* Before the node p, which may be the head.
insert(h, p, n) == Connect(Connect(h, h[p].prev, n), n, p)
insert_after(h, p, n) == insert(h, h[p].next, n)
push_front(h, l, n) == insert(h, front(h, l), n)
push_back(h, l, n) == insert(h, l, n)
pop_front(h, l) == unlink(h, front(h, l))
pop_back(h, l) == unlink(h, back(h, l))

\* The items from one iterator to another; on a broken list at most as many as
\* there are nodes.
Items(h, l) ==
  LET from[n \in DOMAIN h, left \in 0 .. Cardinality(DOMAIN h)] ==
        IF n = l \/ left = 0 THEN <<>> ELSE <<n>> \o from[h[n].next, left - 1]
  IN  from[h[l].next, Cardinality(DOMAIN h)]

ItemsReversed(h, l) ==
  LET from[n \in DOMAIN h, left \in 0 .. Cardinality(DOMAIN h)] ==
        IF n = l \/ left = 0 THEN <<>> ELSE <<n>> \o from[h[n].prev, left - 1]
  IN  from[h[l].prev, Cardinality(DOMAIN h)]

\* All of the other list, before the node p.
splice(h, p, from) ==
  LET first == h[from].next
      last == h[from].prev
      prev_node == h[p].prev
  IN  IF empty(h, from) THEN h
      ELSE Connect(Connect(Connect(h, from, from), prev_node, first), last, p)

\* The neighbours of a head that has been copied learn its new address.
Adopt(h, l) == [h EXCEPT ![h[l].next].prev = l, ![h[l].prev].next = l]

\* The move constructor, l being new.
move(h, l, src) ==
  IF empty(h, src) THEN NewList(h, l)
  ELSE NewList(Adopt([h EXCEPT ![l] = h[src]], l), src)

swap(h, a, b) ==
  IF empty(h, a) /\ empty(h, b) THEN h
  ELSE IF empty(h, a) THEN NewList(Adopt([h EXCEPT ![a] = h[b]], a), b)
  ELSE IF empty(h, b) THEN NewList(Adopt([h EXCEPT ![b] = h[a]], b), a)
  ELSE Adopt(Adopt([h EXCEPT ![a] = h[b], ![b] = h[a]], a), b)

\* The loops take the successor before they unlink; the disposer gets the items
\* in their order and may put them into another list.
remove_and_dispose_if(h, l, gone, dispose(_, _)) ==
  FoldLeft(LAMBDA g, i : IF i \in gone THEN dispose(unlink(g, i), i) ELSE g, h, Items(h, l))
clear_and_dispose(h, l, dispose(_, _)) ==
  remove_and_dispose_if(h, l, ToSet(Items(h, l)), dispose)

----------------------------------------------------------------------------
\* A list means the same sequence in both directions.
Means(h, l, s) == Items(h, l) = s /\ ItemsReversed(h, l) = Reverse(s)

\* The heap with the two lists "a" and "b", built by push_back(), over the
\* nodes of all items.
TwoLists(items, s, t) ==
  LET none == [n \in items \cup {"a", "b", "c"} |-> [next |-> nullptr, prev |-> nullptr]]
      heads == NewList(NewList(none, "a"), "b")
  IN  FoldLeft(LAMBDA h, i : push_back(h, "b", i),
               FoldLeft(LAMBDA h, i : push_back(h, "a", i), heads, s), t)
============================================================================
