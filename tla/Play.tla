-------------------------------- MODULE Play --------------------------------
(***************************************************************************)
(* One Connection in the game: the world it keeps, the clients that share  *)
(* it, and the protocol version of each of them and of the link to the     *)
(* server.  Packets of the server change the world and are passed to the   *)
(* clients in the form each of them understands (SHandler.cxx, CNet.cxx,   *)
(* Bridge.cxx); clients announce their versions, join at any time and are  *)
(* shown the world (CHandler.cxx, Attach.cxx); the link may be lost and    *)
(* made again.  How clients log in and how sessions are found is in        *)
(* Session.tla; here a client is                                           *)
(*   "out"      not connected,                                             *)
(*   "own"      connected, on a connection of its own,                     *)
(*   "login"    on this connection, before the game, or                    *)
(*   "in_game"  on this connection, in the game.                           *)
(* A client that was redirected leaves a zombie of its old socket.         *)
(***************************************************************************)
EXTENDS Attach, ClientVersion

CONSTANTS Clients,
          ClientVersions,   \* version strings of clients
          Majors,           \* client_major of their Seed packets
          Configured,       \* versions of the connection as configured
          MaxPackets,       \* bounds: packets of the server but Start,
          MaxHellos,        \* announcements of clients,
          MaxInputs,        \* and both together;
          MaxAttaches       \* item_attach_sequence

VARIABLES link,               \* "none", "login" or "world": client.client
          reconnecting,
          version,            \* client.version
          version_requested,
          framing,            \* the protocol client.client frames with
          adopted,            \* GameLogin changed version under an existing link
          world,
          servers,            \* the clients
          configured,         \* the version the configuration gives connections
          server_fits,        \* all Drops sent had the server's format, while ~adopted
          packets, hellos     \* counters

vars == <<link, reconnecting, version, version_requested, framing, adopted, world, servers,
          configured, server_fits, packets, hellos>>

NoZombie == -1

\* protocol: the one its UO::Server frames with.  own: the version of the
\* connection it has of its own.  zombie: the client_version.protocol of its
\* zombie.  view: what it was told; fits: all in its format.
NewServer(zombie, own) ==
  [stage |-> "own", client_version |-> NoVersion, protocol |-> UNKNOWN, own |-> own,
   zombie |-> zombie, view |-> NoFacts, fits |-> TRUE, cursor |-> FALSE]

Nobody == [NewServer(NoZombie, NoVersion) EXCEPT !.stage = "out"]

InGame(l) == servers[l].stage = "in_game"
IsInGame == HasStart(world)

Init ==
  /\ link = "none" /\ reconnecting = FALSE
  /\ configured \in Configured /\ version = configured
  /\ version_requested = FALSE
  /\ framing = UNKNOWN /\ adopted = FALSE
  /\ world = EmptyWorld
  /\ servers = [l \in Clients |-> Nobody]
  /\ server_fits = TRUE
  /\ packets = 0 /\ hellos = 0

-----------------------------------------------------------------------------
\* Whether a client that frames with protocol can read a packet.
Fits(p, protocol) ==
  /\ p.cmd \in {ContainerOpen, ContainerUpdate, SupportedFeatures}
       => p.size = GetPacketLengths(protocol)[p.cmd]
  /\ p.cmd = ContainerContent => p.size = IF protocol < V6 THEN Size5 ELSE Size6
  /\ p.cmd = WorldItem7 => protocol >= V7

Send(s, sent) ==
  [s EXCEPT !.view = FoldLeft(LAMBDA view, p : p.facts @@ view, @, sent),
            !.fits = @ /\ \A k \in DOMAIN sent : Fits(sent[k], s.protocol)]

\* BroadcastToInGameClientsDivert(): For(protocol) is the packet for a client.
BroadcastDivert(For(_)) ==
  servers' = [l \in Clients |->
                IF InGame(l) THEN Send(servers[l], <<For(servers[l].client_version.protocol)>>)
                ELSE servers[l]]

Broadcast(facts) == BroadcastDivert(LAMBDA protocol : Packet(Other, 0, facts))

\* The size of a packet of the server, as received and as passed on.
Source(cmd) == GetPacketLengths(framing)[cmd]

Diverted_AsReceived(cmd, new_protocol, old_struct, new_struct, facts, protocol) ==
  Packet(cmd, Source(cmd), facts)

Diverted(cmd, new_protocol, old_struct, new_struct, facts, protocol) ==
  LET old == IF version.protocol < new_protocol THEN Source(cmd) ELSE sizeof(old_struct)
      new == IF version.protocol < new_protocol THEN sizeof(new_struct) ELSE Source(cmd)
  IN  Packet(cmd, Divert(protocol, new_protocol, old, new), facts)

\* The handlers assert that the packet has the size of their struct; when it
\* has not, the process ends.
AssertSize(cmd) == Source(cmd) = sizeof(StructFor(version.protocol)[cmd])

FromServer(states) ==
  /\ link \in states
  /\ packets < MaxPackets /\ packets + hellos < MaxInputs /\ packets' = packets + 1
  /\ UNCHANGED <<version, framing, adopted, configured, server_fits, hellos>>

Playing ==
  FromServer({"world"}) /\ UNCHANGED <<link, reconnecting, version_requested>>

HandleMobileStatus(serial, flags) ==
  /\ Playing
  /\ world' = ApplyMobileStatus(world, serial, flags)
  /\ Broadcast(NoFacts)

HandleWorldItem(serial, v) ==
  /\ Playing
  /\ world' = ApplyWorldItem(world, serial, v)
  /\ Broadcast(serial :> ItemFact(WorldItem7, None, v))

HandleWorldItem7(serial, v) ==
  /\ Playing
  /\ world' = ApplyWorldItem(world, serial, v)
  /\ BroadcastDivert(LAMBDA protocol :
       Packet(Divert(protocol, V7, WorldItem, WorldItem7), 0,
              serial :> ItemFact(WorldItem7, None, v)))

HandleEquip(serial, parent, v) ==
  /\ Playing
  /\ world' = ApplyEquip(world, serial, parent, v)
  /\ Broadcast(serial :> ItemFact(Equip, parent, v))

HandleContainerOpen(serial, v) ==
  /\ Playing
  /\ AssertSize(ContainerOpen)
  /\ world' = ApplyContainerOpen(world, serial, v)
  /\ BroadcastDivert(LAMBDA protocol :
       Diverted(ContainerOpen, V7, uo_packet_container_open, uo_packet_container_open_7,
                NoFacts, protocol))

HandleContainerUpdate(serial, parent, v) ==
  /\ Playing
  /\ AssertSize(ContainerUpdate)
  /\ world' = ApplyContainerUpdate(world, serial, parent, v)
  /\ BroadcastDivert(LAMBDA protocol :
       Diverted(ContainerUpdate, V6, uo_packet_container_update, uo_packet_container_update_6,
                serial :> ItemFact(ContainerUpdate, parent, v), protocol))

\* The format of a content packet is told by its length.
HandleContainerContent(serials, parent, v) ==
  LET source == IF framing < V6 THEN Size5 ELSE Size6
      p == [num |-> Len(serials)]
      length == ContentHeader + p.num * source
      facts == [s \in ToSet(serials) |-> ItemFact(ContainerUpdate, parent, v)]
  IN  /\ Playing
      /\ packet_verify(p, length, Size5) \/ packet_verify(p, length, Size6)
      /\ world' = ApplyContainerContent(world, serials, parent, v)
      /\ BroadcastDivert(LAMBDA protocol : Packet(ContainerContent,
           Divert(protocol, V6, Size5, Size6), facts))

HandleDelete_MobilesOnly(serial) ==
  /\ Playing
  /\ world' = [world EXCEPT !.mobiles = Unlinked(@, serial)]
  /\ Broadcast(serial :> Gone)

HandleDelete(serial) ==
  /\ Playing
  /\ world' = RemoveSerial(world, serial)
  /\ Broadcast(serial :> Gone)

HandleMobileIncoming(serial, v, equipped) ==
  /\ Playing
  /\ world' = ApplyMobileIncoming(world, serial, v, equipped)
  /\ Broadcast(serial :> MobileFact(v)
               @@ [i \in ToSet(equipped) |-> ItemFact(Equip, serial, v)])

HandleMobileUpdate(serial, v) ==
  /\ Playing
  /\ world' = ApplyMobileUpdate(world, serial, v)
  /\ Broadcast(serial :> MobileFact(v))

HandleMobileMoving(serial, v) ==
  /\ Playing
  /\ world' = ApplyMobileMoving(world, serial, v)
  /\ Broadcast(serial :> MobileFact(v))

HandleZoneChange(v) ==
  /\ Playing
  /\ world' = ApplyZoneChange(world, v)
  /\ Broadcast(NoFacts)

\* World::Walked() and WalkCancel(), called by OnWalkAck() and OnWalkCancel().
HandleWalkAck(v) == Playing /\ world' = Walked(world, v) /\ UNCHANGED servers
HandleWalkCancel(v) == Playing /\ world' = WalkCancel(world, v) /\ UNCHANGED servers

\* HandleSeason, HandleWarMode, HandleGlobalLightLevel,
\* HandlePersonalLightLevel (of the player), HandleExtended (map change and
\* map patches that fit their structs).
HandleKept(k, v) ==
  /\ Playing
  /\ world' = [world EXCEPT !.kept[k] = v]
  /\ Broadcast(k :> <<v>>)

HandleSupportedFeatures ==
  /\ FromServer({"login", "world"}) /\ UNCHANGED <<link, reconnecting, version_requested, world>>
  /\ AssertSize(SupportedFeatures)
  /\ BroadcastDivert(LAMBDA protocol :
       Diverted(SupportedFeatures, V6_0_14, uo_packet_supported_features,
                uo_packet_supported_features_6014, NoFacts, protocol))

\* The server asks for a target: a cursor appears at every client.
HandleTarget ==
  /\ Playing
  /\ world' = [world EXCEPT !.target = 1]
  /\ servers' = [l \in Clients |-> [servers[l] EXCEPT !.cursor = @ \/ InGame(l)]]

\* The server asks for the version of the client.
HandleClientVersionRequest ==
  /\ FromServer({"login", "world"}) /\ UNCHANGED <<link, reconnecting, world, servers>>
  /\ version_requested' = (version_requested \/ ~IsDefined(version))

\* The server lets the character enter the game.
HandleStart(serial, v) ==
  /\ link = "login"
  /\ \E l \in Clients : servers[l].stage \in {"login", "in_game"}
  /\ \A l \in Clients : servers[l].zombie = NoZombie
  /\ link' = "world" /\ reconnecting' = FALSE
  /\ world' = [world EXCEPT !.start = [serial |-> serial, place |-> At(v)]]
  /\ servers' = [l \in Clients |-> IF servers[l].stage # "login" THEN servers[l]
                                   ELSE [servers[l] EXCEPT !.stage = "in_game"]]
  /\ UNCHANGED <<version, version_requested, framing, adopted, configured, server_fits, packets,
                 hellos>>

-----------------------------------------------------------------------------
\* Disconnect(): DeleteItems() and DeleteMobiles() tell the clients.
Disconnect ==
  /\ link' = "none" /\ version_requested' = FALSE
  /\ world' = [world EXCEPT !.items = <<>>, !.mobiles = <<>>]
  /\ Broadcast([s \in {i.serial : i \in ToSet(world.items)}
                        \cup {m.serial : m \in ToSet(world.mobiles)} |-> Gone])

\* Reconnect(), ScheduleReconnect()
ScheduleReconnect ==
  /\ link # "none" /\ IsInGame
  /\ Disconnect
  /\ reconnecting' = TRUE
  /\ UNCHANGED <<version, framing, adopted, configured, server_fits, packets,
                 hellos>>

HandleRelay ==
  /\ link = "login" /\ (IsInGame => reconnecting)
  /\ Disconnect
  /\ reconnecting' = IsInGame
  /\ UNCHANGED <<version, framing, adopted, configured, server_fits, packets,
                 hellos>>

\* OnConnectComplete(), StatefulClient::Connect()
Connect ==
  /\ link = "none"
  /\ reconnecting \/ \E l \in Clients : servers[l].stage = "login" \/ servers[l].zombie # NoZombie
  /\ link' = "login" /\ framing' = version.protocol /\ adopted' = FALSE
  /\ UNCHANGED <<reconnecting, version, version_requested, world, servers, configured,
                 server_fits, packets, hellos>>

-----------------------------------------------------------------------------
ClientStep ==
  UNCHANGED <<link, reconnecting, configured, packets>>

Unheard == UNCHANGED <<version_requested, server_fits, hellos>>

\* connection_new(): the first client opens this connection, others have one
\* of their own until they join.
Accept(l) ==
  /\ ClientStep /\ Unheard
  /\ servers[l].stage = "out"
  /\ servers' = [servers EXCEPT ![l] =
       IF \A m \in Clients : servers[m] = Nobody
         THEN [NewServer(NoZombie, NoVersion) EXCEPT !.stage = "login"]
         ELSE NewServer(servers[l].zombie, configured)]
  /\ IsInGame \/ servers[l].zombie # NoZombie \/ \A m \in Clients : servers[m] = Nobody
  /\ UNCHANGED <<version, framing, adopted, world>>

\* The connection a client is on: this one or its own.
ConnectionVersion(l) == IF servers[l].stage = "own" THEN servers[l].own ELSE version

\* Its version becomes v; an existing link is told if "tell".
SetConnectionVersion(l, s, v, tell) ==
  /\ servers' = [servers EXCEPT ![l] = IF @.stage = "own" THEN [s EXCEPT !.own = v] ELSE s]
  /\ version' = IF s.stage = "own" THEN version ELSE v
  /\ framing' = IF s.stage # "own" /\ tell /\ link # "none" THEN v.protocol ELSE framing

Hello(l) ==
  /\ ClientStep
  /\ servers[l].stage # "out"
  /\ hellos < MaxHellos /\ packets + hellos < MaxInputs
  /\ hellos' = hellos + 1
  /\ UNCHANGED <<adopted, world, server_fits>>

HandleClientVersion(l, text) ==
  LET s == servers[l]
      unknown == s.client_version.protocol = UNKNOWN
      v == SetPacket(s.client_version, text)
      said == IF IsDefined(s.client_version) THEN s
              ELSE [s EXCEPT !.client_version = v,
                             !.protocol = IF unknown THEN v.protocol ELSE @]
      c == ConnectionVersion(l)
  IN  /\ Hello(l)
      /\ SetConnectionVersion(l, said, IF IsDefined(c) THEN c ELSE SetPacket(c, text),
                              c.protocol = UNKNOWN /\ ~IsDefined(c))
      /\ version_requested' = (version_requested /\ ~(s.stage # "own" /\ IsDefined(c)))

HandleSeed(l, major) ==
  LET s == servers[l]
      v == Seed(s.client_version, major)
      said == IF s.client_version.seed THEN s
              ELSE [s EXCEPT !.client_version = v, !.protocol = v.protocol]
      c == ConnectionVersion(l)
      first == ~IsDefined(c) /\ ~c.seed
  IN  /\ Hello(l)
      /\ SetConnectionVersion(l, said, IF first THEN Seed(c, major) ELSE c, first)
      /\ UNCHANGED version_requested

MayAttach == world.item_attach_sequence < MaxAttaches

Attached(s) ==
  LET sent == SendWorld(world, s.client_version.protocol)
  IN  [world |-> sent.world, server |-> Send([s EXCEPT !.stage = "in_game"], sent.sent)]

\* HandlePlayServer() of a client that attaches to this session; without the
\* Razor workaround it begins to play at once.
HandlePlayServer(l) ==
  /\ ClientStep /\ Unheard
  /\ servers[l].stage = "own" /\ servers[l].zombie = NoZombie
  /\ IsInGame /\ MayAttach
  /\ world' = Attached(servers[l]).world
  /\ servers' = [servers EXCEPT ![l] = Attached(@).server]
  /\ UNCHANGED <<version, framing, adopted>>

\* HandlePlayServer() with the Razor workaround: the client is on this
\* connection now, is redirected and hangs up.
RedirectToSelf(l) ==
  /\ ClientStep /\ Unheard
  /\ servers[l].zombie = NoZombie
  /\ servers[l].stage = "login" \/ (servers[l].stage = "own" /\ IsInGame)
  /\ servers' = [servers EXCEPT ![l] =
       [Nobody EXCEPT !.zombie = servers[l].client_version.protocol]]
  /\ UNCHANGED <<version, framing, adopted, world>>

\* The redirected client is back on a new socket and takes the place of its
\* zombie.
HandleGameLogin(l) ==
  LET s == servers[l]
      adopts == ~IsInGame /\ s.own.protocol # UNKNOWN
      copies == s.client_version.protocol = UNKNOWN /\ s.zombie # UNKNOWN
      back == [s EXCEPT !.zombie = NoZombie, !.stage = "login", !.own = NoVersion,
                        !.client_version.protocol = IF copies THEN s.zombie ELSE @,
                        !.protocol = IF copies THEN s.zombie ELSE @]
  IN  /\ ClientStep /\ Unheard
      /\ s.stage = "own" /\ s.zombie # NoZombie
      /\ version' = IF adopts THEN [version EXCEPT !.protocol = s.own.protocol] ELSE version
      /\ adopted' = (adopted \/ (link # "none" /\ version'.protocol # version.protocol))
      /\ IF IsInGame
           THEN /\ MayAttach
                /\ world' = Attached(back).world
                /\ servers' = [servers EXCEPT ![l] = Attached(back).server]
           ELSE servers' = [servers EXCEPT ![l] = back] /\ UNCHANGED world
      /\ UNCHANGED framing

\* A client that is playing hangs up, another goes on; a zombie expires.
Leave(l) ==
  /\ ClientStep /\ Unheard
  /\ \/ InGame(l) /\ \E m \in Clients \ {l} : InGame(m)
     \/ servers[l].zombie # NoZombie /\ servers[l].stage = "out" /\ \E m \in Clients : InGame(m)
  /\ servers' = [servers EXCEPT ![l] = Nobody]
  /\ UNCHANGED <<version, framing, adopted, world>>

\* A client answers a target request: the others' cursors are cancelled.
HandleTargetReply_OthersKeep(l) ==
  /\ ClientStep /\ Unheard
  /\ InGame(l) /\ servers[l].cursor
  /\ world' = [world EXCEPT !.target = 0]
  /\ servers' = [servers EXCEPT ![l].cursor = FALSE]
  /\ UNCHANGED <<version, framing, adopted>>

HandleTargetReply(l) ==
  /\ ClientStep /\ Unheard
  /\ InGame(l) /\ servers[l].cursor
  /\ world' = [world EXCEPT !.target = 0]
  /\ servers' = [m \in Clients |->
       IF m = l \/ (world.target # 0 /\ InGame(m)) THEN [servers[m] EXCEPT !.cursor = FALSE]
       ELSE servers[m]]
  /\ UNCHANGED <<version, framing, adopted>>

\* The size of the Drop packet sent to the server for one of client l.
DropSize(l) ==
  LET source == GetPacketLengths(servers[l].protocol)[Drop]
      old == servers[l].client_version.protocol < V6
      c_old == version.protocol < V6
  IN  IF old = c_old THEN source
      ELSE IF old THEN sizeof(uo_packet_drop_6) ELSE sizeof(uo_packet_drop)

HandleDrop(l) ==
  /\ ClientStep
  /\ InGame(l)
  /\ IsInGame /\ ~reconnecting /\ link # "none"
  /\ GetPacketLengths(servers[l].protocol)[Drop]
       = sizeof(StructFor(servers[l].client_version.protocol)[Drop])
  /\ server_fits' = (server_fits /\ (adopted \/ DropSize(l) = GetPacketLengths(framing)[Drop]))
  /\ UNCHANGED <<version, version_requested, framing, adopted, world, servers, hellos>>

-----------------------------------------------------------------------------
\* Every packet of the server has contents of its own.
FromTheServer ==
  LET v == packets + 1 IN
  \/ \E m \in Mobiles :
       \/ HandleMobileUpdate(m, v) \/ HandleMobileMoving(m, v) \/ HandleStart(m, v)
       \/ \E flags \in {1, 2} : HandleMobileStatus(m, flags)
       \/ \E equipped \in {<<>>} \cup {<<i>> : i \in Items} :
            HandleMobileIncoming(m, v, equipped)
  \/ \E i \in Items :
       \/ HandleWorldItem(i, v) \/ HandleWorldItem7(i, v) \/ HandleContainerOpen(i, v)
       \/ \E m \in Mobiles : HandleEquip(i, m, v)
       \/ \E j \in Items \ {i} : HandleContainerUpdate(i, j, v)
  \/ \E s \in Mobiles \cup Items :
       \/ HandleDelete(s)
       \/ \E S \in SUBSET (Items \ {s}) : HandleContainerContent(SetToSeq(S), s, v)
  \/ HandleZoneChange(v) \/ HandleWalkAck(v) \/ HandleWalkCancel(v)
  \/ \E k \in Kept : HandleKept(k, v)
  \/ HandleSupportedFeatures \/ HandleTarget \/ HandleClientVersionRequest

FromAClient ==
  \E l \in Clients :
    \/ Accept(l) \/ Leave(l) \/ HandlePlayServer(l) \/ RedirectToSelf(l) \/ HandleGameLogin(l)
    \/ HandleTargetReply(l) \/ HandleDrop(l)
    \/ \E text \in ClientVersions : HandleClientVersion(l, text)
    \/ \E major \in Majors : HandleSeed(l, major)

Next ==
  \/ FromTheServer
  \/ FromAClient
  \/ ScheduleReconnect \/ HandleRelay \/ Connect

Spec == Init /\ [][Next]_vars

-----------------------------------------------------------------------------
Items5 == {ContainerUpdate, Equip}

\* Whatever a client in the game was last told of an item or a mobile that
\* the world holds is what the world holds, and it was told of all of them
\* but items on the ground; the same for the kept packets: Apply(), the
\* broadcasts, SendWorld(), DeleteItems() and DeleteMobiles() agree whatever
\* the order of packets, joins and reconnects.
NoStaleView ==
  \A l \in Clients : InGame(l) =>
    LET view == servers[l].view IN
    /\ \A k \in DOMAIN world.items :
         LET i == world.items[k] IN
         /\ i.cmd \in Items5 => i.serial \in DOMAIN view
         /\ i.cmd # 0 /\ i.serial \in DOMAIN view
              => view[i.serial] = ItemFact(i.cmd, i.parent, i.stamp)
    /\ \A k \in DOMAIN world.mobiles :
         LET m == world.mobiles[k] IN
         m.known => /\ m.serial \in DOMAIN view
                    /\ view[m.serial] = MobileFact(m.incoming.body)
    /\ \A k \in Kept : world.kept[k] # 0 => k \in DOMAIN view /\ view[k] = <<world.kept[k]>>

\* Every packet for a client has the format that client reads: the
\* conversions of the handlers and of SendWorld() follow client_version, the
\* lengths follow SetProtocol(), and both always name formats of one size.
ClientsCanRead == \A l \in Clients : servers[l].fits

\* Every Drop sent to the server has the format of the link, whichever
\* client it came from (HandleDrop()), unless HandleGameLogin() has changed
\* the version under the link.
ServerCanRead == server_fits

\* client.version.protocol, by which the handlers read packets, and the
\* protocol by which the link frames them are the same while there is a
\* link, except after HandleGameLogin() overwrote the first.
FramingAgrees == link # "none" /\ ~adopted => framing = version.protocol

\* Each packet, to a client or to the server, has the format by which it is
\* going to be read, whatever versions the clients have and whenever the
\* version of the link becomes known.
PacketsReadable == ClientsCanRead /\ ServerCanRead /\ FramingAgrees

\* When the server waits for no target, no client shows a target cursor:
\* the first client to answer cancels it for all others.
CursorsCancelled == world.target = 0 => \A l \in Clients : ~(InGame(l) /\ servers[l].cursor)

\* The direction and the body in the player's own MobileIncoming packet are
\* those of packet_start, so that a client that joins draws the player as it
\* is: Walked(), WalkCancel() and the mobile packets change both.
OwnMobileFollows ==
  \A k \in DOMAIN world.mobiles :
    LET m == world.mobiles[k] IN
    m.known /\ m.serial = world.start.serial =>
      /\ m.incoming.direction = world.start.place.direction
      /\ m.incoming.body = world.start.place.body

\* packet_start and packet_mobile_update, both sent to a client that joins,
\* never come to contradict each other about where the player is, except by
\* a new Start packet.
PlacesTogether ==
  link' = link /\ world.start.place = world.update.place
    => world'.start.place = world'.update.place

\* The three packets that place the player keep agreeing: what Walked(),
\* WalkCancel() and the mobile packets change in one they change in all.
PlayerPlaced == [][OwnMobileFollows' /\ PlacesTogether]_vars

\* The smallest set of serials with s that contains what is in its members.
Within(s) ==
  LET closed == {S \in SUBSET (Items \cup Mobiles) :
        /\ s \in S
        /\ \A k \in DOMAIN world.items :
             world.items[k].cmd \in Items5 /\ world.items[k].parent \in S
               => world.items[k].serial \in S}
  IN  {x \in Items \cup Mobiles : \A S \in closed : x \in S}

\* Deleting a mobile or an item deletes what it contains, at any depth, and
\* nothing else, even where items contain each other (RemoveItemTree()).
RemovesSubtree ==
  \A s \in Items \cup Mobiles :
    RemoveSerial(world, s).items
      = SelectSeq(world.items, LAMBDA i : i.serial \notin Within(s))

\* The positions of the packets by which a joining client is told of a serial.
Tellings(s) ==
  LET sent == AttachItems(world, V7).sent
  IN  {k \in DOMAIN sent : s \in DOMAIN sent[k].facts}

\* A client that joins is told exactly once of every item that is in a
\* container or worn (AttachItem(), item_attach_sequence).
ReplayedOnce ==
  \A k \in DOMAIN world.items :
    Cardinality(Tellings(world.items[k].serial))
      = IF world.items[k].cmd \in Items5 THEN 1 ELSE 0

\* It is told of a container before what is in it, unless the two contain
\* each other.
ContainerFirst ==
  \A k \in DOMAIN world.items :
    LET i == world.items[k] IN
    i.cmd = ContainerUpdate /\ i.parent \notin Within(i.serial) =>
      \A a \in Tellings(i.parent), b \in Tellings(i.serial) : a < b

\* Deleting and replaying follow the containers down to the last item, and
\* take each item once.
ContainmentFollowed == RemovesSubtree /\ ReplayedOnce /\ ContainerFirst
=============================================================================
