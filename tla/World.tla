------------------------------- MODULE World -------------------------------
(***************************************************************************)
(* World, Item and Mobile: what the proxy remembers of the game, to show   *)
(* it to a client that joins.  The operators are the methods of World as   *)
(* functions of the world; SendWorld and AttachItem return the packets     *)
(* they send as well.                                                      *)
(*                                                                         *)
(* The contents of a packet are a stamp, the value of each field it        *)
(* carries.  Of the fields that say where a mobile is, xy, z, direction    *)
(* and body are kept apart, because packets differ in which of them they   *)
(* set.  An item is where its last packet (cmd) put it: on the ground, in  *)
(* the container or on the mobile "parent".                                *)
(***************************************************************************)
EXTENDS Bridge

CONSTANTS Mobiles, Items,   \* serials below 0x40000000, and from there on
          Kept,             \* the single packets kept: season, lights, ...
          None              \* no serial

WorldItem == 26
WorldItem7 == 243
Equip == 46
ContainerContent == 60
ASSUME SerialsAssumption == Mobiles \cap Items = {} /\ None \notin Mobiles \cup Items

At(v) == [xy |-> v, z |-> v, direction |-> v, body |-> v]

\* start, update: packet_start and packet_mobile_update; the serial is None
\* until the packet has been received.
EmptyWorld ==
  [start |-> [serial |-> None, place |-> At(0)], update |-> [serial |-> None, place |-> At(0)],
   kept |-> [k \in Kept |-> 0], target |-> 0,
   mobiles |-> <<>>, items |-> <<>>, item_attach_sequence |-> 0]

HasStart(w) == w.start.serial # None

\* The elements of a list of items or mobiles with a serial: at most one.
Found(list, serial) == {k \in DOMAIN list : list[k].serial = serial}
The(list, serial) == list[CHOOSE k \in Found(list, serial) : TRUE]

\* FindItem(), FindMobile(): change the element found with Change().
Changed(list, serial, Change(_)) ==
  [k \in DOMAIN list |-> IF list[k].serial = serial THEN Change(list[k]) ELSE list[k]]

\* MakeItem(), MakeMobile(): find it or push a new one to the front.
Make(list, new) == IF Found(list, new.serial) # {} THEN list ELSE <<new>> \o list

NewItem(serial) ==
  [serial |-> serial, cmd |-> 0, parent |-> None, stamp |-> 0, open |-> 0,
   attach_sequence |-> 0]

NewMobile(serial) == [serial |-> serial, incoming |-> At(0), known |-> FALSE, status |-> 0]

\* Item::Apply() of a packet that says where the item is.
Put(items, serial, cmd, parent, v) ==
  Changed(Make(items, NewItem(serial)), serial,
          LAMBDA i : [i EXCEPT !.cmd = cmd, !.parent = parent, !.stamp = v])

\* Both WorldItem and WorldItem7 are kept as a WorldItem7.
ApplyWorldItem(w, serial, v) == [w EXCEPT !.items = Put(@, serial, WorldItem7, None, v)]

ApplyEquip(w, serial, parent, v) == [w EXCEPT !.items = Put(@, serial, Equip, parent, v)]

ApplyContainerUpdate(w, serial, parent, v) ==
  [w EXCEPT !.items = Put(@, serial, ContainerUpdate, parent, v)]

ApplyContainerOpen(w, serial, v) ==
  [w EXCEPT !.items = Changed(Make(@, NewItem(serial)), serial,
                              LAMBDA i : [i EXCEPT !.open = v])]

\* GetParentSerial()
ChildOf(item, parent) == item.cmd \in {ContainerUpdate, Equip} /\ item.parent = parent

SweepAfterContainerUpdate(items, parent, attach_sequence) ==
  SelectSeq(items, LAMBDA i : ~(ChildOf(i, parent) /\ i.attach_sequence # attach_sequence))

\* serials: the items of the packet, all in the container "parent".
ApplyContainerContent(w, serials, parent, v) ==
  LET sequence == w.item_attach_sequence + 1
      put(items, s) == Changed(Put(items, s, ContainerUpdate, parent, v), s,
                               LAMBDA i : [i EXCEPT !.attach_sequence = sequence])
      items == FoldLeft(put, w.items, serials)
  IN  [w EXCEPT !.item_attach_sequence = sequence,
                !.items = IF serials = <<>> THEN items
                          ELSE SweepAfterContainerUpdate(items, parent, sequence)]

RECURSIVE RemoveItemTree(_, _)

RemoveItemTree(items, parent) ==
  LET temp == SelectSeq(items, LAMBDA i : ChildOf(i, parent))
      rest == SelectSeq(items, LAMBDA i : ~ChildOf(i, parent))
  IN  FoldLeft(LAMBDA left, i : RemoveItemTree(left, i.serial), rest, temp)

Unlinked(list, serial) == SelectSeq(list, LAMBDA e : e.serial # serial)

RemoveItemSerial(w, serial) ==
  [w EXCEPT !.items = RemoveItemTree(Unlinked(@, serial), serial)]

RemoveMobileSerial(w, serial) ==
  [w EXCEPT !.mobiles = Unlinked(@, serial), !.items = RemoveItemTree(@, serial)]

RemoveSerial(w, serial) ==
  IF serial \in Mobiles THEN RemoveMobileSerial(w, serial) ELSE RemoveItemSerial(w, serial)

-----------------------------------------------------------------------------
\* Fields of a place taken over from another.
Moved(place, to) == to @@ place

\* The player's own packets follow the fields "to".
MovePlayer(w, to) ==
  [w EXCEPT !.start.place = Moved(@, to), !.update.place = Moved(@, to)]

\* packet_mobile_incoming of a mobile, if there is one, follows.
MoveIncoming(w, serial, to) ==
  [w EXCEPT !.mobiles = Changed(@, serial, LAMBDA m :
     IF m.known THEN [m EXCEPT !.incoming = Moved(@, to)] ELSE m)]

\* equipped: the items the mobile wears, read_equipped().
ApplyMobileIncoming(w, serial, v, equipped) ==
  LET w1 == IF serial = w.start.serial THEN MovePlayer(w, At(v)) ELSE w
      w2 == [w1 EXCEPT !.mobiles = Changed(Make(@, NewMobile(serial)), serial,
               LAMBDA m : [m EXCEPT !.known = TRUE, !.incoming = At(v)])]
  IN  FoldLeft(LAMBDA x, i : ApplyEquip(x, i, serial, v), w2, equipped)

\* status: its flags, 0 for none.
ApplyMobileStatus(w, serial, flags) ==
  [w EXCEPT !.mobiles = Changed(Make(@, NewMobile(serial)), serial,
     LAMBDA m : IF m.status = 0 \/ m.status <= flags THEN [m EXCEPT !.status = flags] ELSE m)]

ApplyMobileUpdate(w, serial, v) ==
  LET w1 == IF serial # w.start.serial THEN w
            ELSE [w EXCEPT !.update = [serial |-> serial, place |-> At(v)],
                           !.start.place = At(v)]
  IN  MoveIncoming(w1, serial, At(v))

ApplyMobileMoving(w, serial, v) ==
  LET w1 == IF serial = w.start.serial THEN MovePlayer(w, At(v)) ELSE w
  IN  MoveIncoming(w1, serial, At(v))

ApplyZoneChange(w, v) == MovePlayer(w, [xy |-> v, z |-> v])

Walked(w, v) ==
  LET to == [xy |-> v, direction |-> v]
  IN  MoveIncoming(MovePlayer(w, to), w.start.serial, to)

WalkCancel_StartOnly(w, v) == MovePlayer(w, [xy |-> v, direction |-> v])

WalkCancel(w, v) ==
  LET to == [xy |-> v, direction |-> v]
  IN  MoveIncoming(MovePlayer(w, to), w.start.serial, to)
=============================================================================
