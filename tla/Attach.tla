------------------------------- MODULE Attach -------------------------------
(***************************************************************************)
(* SendWorld(): what a client is sent when it joins a session that is in   *)
(* the game (Attach.cxx).  A packet sent to a client is its command, its   *)
(* size (0 where the size does not depend on the protocol; of a container  *)
(* content the size of one item) and the facts it tells: a function from   *)
(* items, mobiles and kept packets to what the client now knows of them.   *)
(***************************************************************************)
EXTENDS World

Other == 256         \* any command whose packets are the same for all clients
NoFacts == <<>>
Gone == <<>>

Packet(cmd, size, facts) == [cmd |-> cmd, size |-> size, facts |-> facts]

ItemFact(cmd, parent, v) == <<cmd, parent, v>>
MobileFact(v) == <<v>>

\* One of two forms of a packet, as SendDivert() chooses.
Divert(protocol, new_protocol, old, new) == IF protocol >= new_protocol THEN new ELSE old

ContainerOpenPacket(protocol) ==
  Packet(ContainerOpen, Divert(protocol, V7, sizeof(uo_packet_container_open),
                               sizeof(uo_packet_container_open_7)), NoFacts)

SupportedFeaturesPacket(protocol) ==
  Packet(SupportedFeatures, Divert(protocol, V6_0_14, sizeof(uo_packet_supported_features),
                                   sizeof(uo_packet_supported_features_6014)), NoFacts)

ContainerUpdatePacket(protocol, facts) ==
  Packet(ContainerUpdate, Divert(protocol, V6, sizeof(uo_packet_container_update),
                                 sizeof(uo_packet_container_update_6)), facts)

Told(item) == item.serial :> ItemFact(item.cmd, item.parent, item.stamp)

\* An item on the ground is not sent: AttachItem() looks for WorldItem, and
\* the item is kept as a WorldItem7.
PlacePackets(item, protocol) ==
  CASE item.cmd = ContainerUpdate -> <<ContainerUpdatePacket(protocol, Told(item))>>
    [] item.cmd = Equip -> <<Packet(Other, 0, Told(item))>>
    [] item.cmd \in {0, WorldItem7} -> <<>>

OpenPackets(item, protocol) ==
  IF item.open # 0 THEN <<ContainerOpenPacket(protocol)>> ELSE <<>>

\* at: the items, the sequence number of this attach and the packets sent.
RECURSIVE AttachItem(_, _, _)

AttachItem_NoParent(at, serial, protocol) ==
  LET item == The(at.items, serial)
      marked == [at EXCEPT !.items = Changed(@, serial, LAMBDA i :
                   [i EXCEPT !.attach_sequence = at.sequence])]
  IN  [marked EXCEPT !.sent = @ \o PlacePackets(item, protocol) \o OpenPackets(item, protocol)]

AttachItem(at, serial, protocol) ==
  LET item == The(at.items, serial)
      marked == [at EXCEPT !.items = Changed(@, serial, LAMBDA i :
                   [i EXCEPT !.attach_sequence = at.sequence])]
      parent == IF /\ item.cmd = ContainerUpdate
                   /\ Found(marked.items, item.parent) # {}
                   /\ The(marked.items, item.parent).attach_sequence # at.sequence
                THEN AttachItem(marked, item.parent, protocol) ELSE marked
  IN  [parent EXCEPT !.sent = @ \o PlacePackets(item, protocol) \o OpenPackets(item, protocol)]

AttachItems(w, protocol) ==
  FoldLeft(LAMBDA at, i : IF The(at.items, i.serial).attach_sequence # at.sequence
                          THEN AttachItem(at, i.serial, protocol) ELSE at,
           [items |-> w.items, sequence |-> w.item_attach_sequence + 1, sent |-> <<>>],
           w.items)

\* Start, MapChange, MapPatches, Season, the lights, MobileUpdate, WarMode.
KeptPackets(w) ==
  LET kept == {k \in Kept : w.kept[k] # 0}
  IN  <<Packet(Other, 0, [k \in kept |-> <<w.kept[k]>>])>>

MobilePackets(w) ==
  [k \in DOMAIN w.mobiles |->
     Packet(Other, 0, IF w.mobiles[k].known
                      THEN w.mobiles[k].serial :> MobileFact(w.mobiles[k].incoming.body)
                      ELSE NoFacts)]

\* The world after SendWorld(), and the packets it sends.
SendWorld(w, protocol) ==
  LET at == AttachItems(w, protocol)
  IN  [world |-> [w EXCEPT !.items = at.items, !.item_attach_sequence = at.sequence],
       sent |-> KeptPackets(w) \o <<SupportedFeaturesPacket(protocol)>>
                  \o MobilePackets(w) \o at.sent \o <<Packet(Other, 0, NoFacts)>>]
=============================================================================
