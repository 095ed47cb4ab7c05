------------------------------ MODULE MCMemory ------------------------------
(***************************************************************************)
(* A pool with up to three areas of three slices; the layout for pages of  *)
(* the real size and slices of all kinds, the I/O buffers among them; the  *)
(* list operations on all pairs of short lists.                            *)
(***************************************************************************)
EXTENDS SlicePool, SliceLayout

Pools == {Pool(size, count) : size \in {1, 32, 33, 1000, 2048, 2049, 4096, 4097, 65536},
                              count \in {1, 2, 5, 32}}

\* For every pool that the constructor sets up there are at least as many
\* slices as asked for, they lie in the area behind the header without
\* overlapping, and IndexOf() finds the slot of a slice.
SlicesApart ==
  \A p \in Pools :
    LET slots == 0 .. p.slices_per_area - 1 IN
    /\ GetHeaderSize(p.slices_per_area) <= GetPage(p, 0)
    /\ \A i \in slots :
         /\ GetSlice(p, i) >= GetPage(p, 0) /\ GetSlice(p, i) + p.slice_size <= AreaSize(p)
         /\ i > 0 => GetSlice(p, i - 1) + p.slice_size <= GetSlice(p, i)
         /\ IndexOf(p, GetSlice(p, i)) = i

\* Compress() discards no page of a slice in use, whichever are.
DiscardsUnused ==
  \A size \in {1000, 2048, 4097}, count \in {1, 5} :
    LET p == Pool(size, count) IN
    \A used \in SUBSET (0 .. p.slices_per_area - 1) :
      \A i \in used, page \in Discarded(p, used) :
        \/ GetPage(p, page + 1) <= GetSlice(p, i)
        \/ GetSlice(p, i) + p.slice_size <= GetPage(p, page)

\* The properties of pure operators are looked at once.
AtStart == Init

\* Slices, and the pages that are given back, keep out of each other's memory.
LayoutSafe == AtStart => SlicesApart /\ DiscardsUnused

ListItems == {"x", "y", "z"}
Lists == {s \in UNION {[1 .. n -> ListItems] : n \in 0 .. 3} : IsInjective(s)}

\* The pointer operations do to the lists what their names say of sequences, at
\* every position, for empty lists and for lists of one item too.
ListsAreSequences ==
  AtStart => \A s, t \in Lists : ToSet(s) \cap ToSet(t) = {} =>
    LET h == TwoLists(ListItems, s, t)
        both(g, u, v) == Means(g, "a", u) /\ Means(g, "b", v)
        to_b(g, i) == push_back(g, "b", i)
    IN
    /\ both(h, s, t)
    /\ both(splice(h, "a", "b"), s \o t, <<>>)
    /\ both(splice(h, h["a"].next, "b"), t \o s, <<>>)
    /\ both(swap(h, "a", "b"), t, s)
    /\ LET g == move(h, "c", "a") IN Means(g, "c", s) /\ both(g, <<>>, t)
    /\ both(clear_and_dispose(h, "a", to_b), <<>>, t \o s)
    /\ \A gone \in SUBSET ToSet(s) :
         both(remove_and_dispose_if(h, "a", gone, to_b),
              SelectSeq(s, LAMBDA i : i \notin gone), t \o SelectSeq(s, LAMBDA i : i \in gone))
    /\ s # <<>> => /\ both(pop_front(h, "a"), Tail(s), t)
                   /\ both(pop_back(h, "a"), Front(s), t)
    /\ \A k \in DOMAIN s, i \in ListItems \ (ToSet(s) \cup ToSet(t)) :
         /\ both(insert(h, s[k], i), InsertAt(s, k, i), t)
         /\ both(insert_after(h, s[k], i), InsertAt(s, k + 1, i), t)
         /\ both(push_front(h, "a", i), <<i>> \o s, t)
         /\ ~is_linked(h, i) /\ is_linked(insert(h, s[k], i), i)
         /\ ~is_linked(unlink_track(insert(h, s[k], i), i), i)
=============================================================================
