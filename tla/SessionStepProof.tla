-------------------------- MODULE SessionStepProof --------------------------
(***************************************************************************)
(* Proofs of the action properties of Session: what no single callback may *)
(* do to a session that is in game, and to a client that plays.            *)
(***************************************************************************)
EXTENDS SessionProof

\* PlayingClientStays for one client.
Stays(l) ==
  ls[l].state = "IN_GAME" =>
    \/ ls'[l].state = "FREE"
    \/ ls'[l].state = "IN_GAME" /\ ls'[l].connection = ls[l].connection

Shared(c) ==
  \E l, m \in LinkedServers : l # m /\ ls[l].connection = c /\ ls[m].connection = c

\* SharedSessionSurvives for one connection.
Survives(c) == AutoReconnect /\ conn[c].in_game /\ Shared(c) => conn'[c].alive

\* What a step does at most to the clients other than l.
OthersKept(l) == \A m \in LinkedServers \ {l} : ls'[m] \in {ls[m], NoLinkedServer}

-----------------------------------------------------------------------------
(***************************************************************************)
(* Kinds of step.                                                          *)
(***************************************************************************)
\* A client that does not play moves, or is deleted with others.
LEMMA IdleMoves ==
  ASSUME NEW l \in LinkedServers, OthersKept(l), ls[l].state # "IN_GAME"
  PROVE  \A m \in LinkedServers : Stays(m)
  <1> SUFFICES ASSUME NEW m \in LinkedServers PROVE Stays(m)
    OBVIOUS
  <1>1. CASE m = l
    BY <1>1 DEF Stays
  <1>2. CASE m # l
    BY <1>2 DEF Stays, OthersKept, NoLinkedServer
  <1> QED
    BY <1>1, <1>2

LEMMA DeleteStays ==
  ASSUME NEW L, ls' = Delete(L)
  PROVE  \A m \in LinkedServers : Stays(m)
  BY DEF Delete, Stays, NoLinkedServer

LEMMA SameStays ==
  ASSUME UNCHANGED ls
  PROVE  \A m \in LinkedServers : Stays(m)
  BY DEF Stays

LEMMA OneChanges ==
  ASSUME TypeOK, NEW l \in LinkedServers, NEW v, ls' = [ls EXCEPT ![l] = v]
  PROVE  OthersKept(l)
  BY DEF OthersKept, TypeOK

LEMMA DeleteChanges ==
  ASSUME NEW l \in LinkedServers, NEW v, NEW L, ls' = [Delete(L) EXCEPT ![l] = v]
  PROVE  OthersKept(l)
  BY DEF OthersKept, Delete

\* One connection changes, and lives on or is not shared by playing clients.
LEMMA OneSurvives ==
  ASSUME SessionInv, NEW c \in Conns, NEW r, conn' = [conn EXCEPT ![c] = r],
         conn[c].in_game /\ Shared(c) /\ AutoReconnect => r.alive
  PROVE  \A d \in Conns : Survives(d)
  <1> SUFFICES ASSUME NEW d \in Conns, conn[d].in_game, Shared(d), AutoReconnect
               PROVE  conn'[d].alive
    BY DEF Survives
  <1>1. conn[d].alive
    BY LinkedAlive DEF Linked
  <1>2. conn \in [Conns -> Connection]
    BY DEF SessionInv, TypeOK
  <1> QED
    BY <1>1, <1>2

LEMMA SameSurvives ==
  ASSUME SessionInv, UNCHANGED conn
  PROVE  \A d \in Conns : Survives(d)
  BY LinkedAlive DEF Linked, Survives

\* A client that is alone shares nothing.
LEMMA AloneShares ==
  ASSUME NEW c, NEW l, Servers(c) = {l}
  PROVE  ~Shared(c)
  BY DEF Servers, Shared

\* Disconnecting a client for its packet destroys no connection of others.
LEMMA RejectKeeps ==
  ASSUME SessionInv, NEW l \in LinkedServers, ls[l].connection \in Conns,
         NEW r, conn[ls[l].connection].in_game => r.alive, RejectClient(l, r)
  PROVE  /\ \A m \in LinkedServers : Stays(m)
         /\ \A d \in Conns : Survives(d)
  <1> DEFINE c == ls[l].connection
             s == IF Servers(c) = {l} /\ ~Background THEN NoConnection ELSE r
  <1>1. conn' = [conn EXCEPT ![c] = s] /\ ls' = Delete({l})
    BY DEF RejectClient
  <1>2. conn[c].in_game /\ Shared(c) => s.alive
    BY AloneShares
  <1>3. \A m \in LinkedServers : Stays(m)
    BY <1>1, DeleteStays
  <1> HIDE DEF s
  <1> QED
    BY <1>1, <1>2, <1>3, OneSurvives

LEMMA RejectSame ==
  ASSUME SessionInv, NEW l \in LinkedServers, ls[l].server,
         RejectClient(l, conn[ls[l].connection])
  PROVE  /\ \A m \in LinkedServers : Stays(m)
         /\ \A d \in Conns : Survives(d)
  BY ClientConn, RejectKeeps

LEMMA RemoveKeeps ==
  ASSUME SessionInv, NEW l \in LinkedServers, ls[l].connection \in Conns,
         RemoveCheckEmpty(l)
  PROVE  \A d \in Conns : Survives(d)
  <1> DEFINE c == ls[l].connection
  <1>1. CASE conn' = conn
    BY <1>1, SameSurvives
  <1>2. CASE Servers(c) = {l} /\ conn' = [conn EXCEPT ![c] = NoConnection]
    BY <1>2, AloneShares, OneSurvives
  <1> QED
    BY <1>1, <1>2 DEF RemoveCheckEmpty

LEMMA LoseKeeps ==
  ASSUME SessionInv, NEW c \in Conns, LoseServer(c)
  PROVE  /\ \A m \in LinkedServers : Stays(m)
         /\ \A d \in Conns : Survives(d)
  <1>1. CASE /\ AutoReconnect /\ conn[c].in_game /\ UNCHANGED ls
             /\ conn' = [conn EXCEPT ![c] = ScheduleReconnect(conn[c])]
    <2>1. ScheduleReconnect(conn[c]).alive
      BY <1>1, ConnFacts, LinkedAlive, ScheduleReconnectOK DEF Linked, SameSession
    <2> QED
      BY <1>1, <2>1, SameStays, OneSurvives
  <1>2. CASE ~(AutoReconnect /\ conn[c].in_game) /\ Destroy(c)
    <2>1. conn' = [conn EXCEPT ![c] = NoConnection] /\ ls' = Delete(Servers(c))
      BY <1>2 DEF Destroy
    <2> QED
      BY <1>2, <2>1, DeleteStays, OneSurvives
  <1> QED
    BY <1>1, <1>2 DEF LoseServer

-----------------------------------------------------------------------------
(***************************************************************************)
(* One lemma per action: both properties together.                         *)
(***************************************************************************)
Keeps ==
  /\ \A m \in LinkedServers : Stays(m)
  /\ \A d \in Conns : Survives(d)

LEMMA OnAcceptKeeps ==
  ASSUME SessionInv, NEW l \in LinkedServers, NEW c \in Conns, OnAccept(l, c)
  PROVE  Keeps
  <1>1. /\ ls[l].state # "IN_GAME" /\ TypeOK
        /\ ls' = [ls EXCEPT ![l] = NewLinkedServer(c)]
        /\ conn' = [conn EXCEPT ![c] = NewConnection]
    BY DEF OnAccept, SessionInv
  <1>2. NewConnection.alive
    BY DEF NewConnection, NoConnection
  <1>3. \A m \in LinkedServers : Stays(m)
    BY <1>1, OneChanges, IdleMoves
  <1> QED
    BY <1>1, <1>2, <1>3, OneSurvives DEF Keeps

LEMMA OnClientDisconnectKeeps ==
  ASSUME SessionInv, NEW l \in LinkedServers, OnClientDisconnect(l)
  PROVE  Keeps
  <1>1. ls[l].server /\ TypeOK
    BY DEF OnClientDisconnect, HasClient, SessionInv
  <1>2. ls[l].connection \in Conns
    BY <1>1, ClientConn
  <1>3. CASE /\ ls[l].state = "RELAY_SERVER"
             /\ ls' = [ls EXCEPT ![l] = Zombify(ls[l])]
             /\ UNCHANGED conn
    <2>1. \A m \in LinkedServers : Stays(m)
      BY <1>1, <1>3, OneChanges, IdleMoves
    <2> QED
      BY <1>3, <2>1, SameSurvives DEF Keeps
  <1>4. CASE RemoveCheckEmpty(l) /\ ls' = Delete({l})
    BY <1>2, <1>4, RemoveKeeps, DeleteStays DEF Keeps
  <1> QED
    BY <1>3, <1>4 DEF OnClientDisconnect

LEMMA ZombieTimeoutKeeps ==
  ASSUME SessionInv, NEW l \in LinkedServers, ZombieTimeoutCallback(l)
  PROVE  Keeps
  <1>1. /\ ls[l].zombie_timeout /\ RemoveCheckEmpty(l) /\ TypeOK
        /\ ls' = [ls EXCEPT ![l].zombie_timeout = FALSE, ![l].connection = NoConn]
    BY DEF ZombieTimeoutCallback, SessionInv
  <1>2. ls[l].connection \in Conns /\ ls[l].state = "RELAY_SERVER"
    BY <1>1, ClientFacts
  <1>3. OthersKept(l)
    BY <1>1 DEF OthersKept, TypeOK
  <1> QED
    BY <1>1, <1>2, <1>3, IdleMoves, RemoveKeeps DEF Keeps

LEMMA HandleAccountLoginKeeps ==
  ASSUME SessionInv, NEW l \in LinkedServers, NEW cr \in Creds,
         HandleAccountLogin(l, cr)
  PROVE  Keeps
  <1> DEFINE c == ls[l].connection
  <1>1. ls[l].server /\ TypeOK
    BY DEF HandleAccountLogin, HasClient, SessionInv
  <1>2. c \in Conns /\ (ls[l].state = "INIT" => ~conn[c].in_game)
    BY <1>1, ClientConn
  <1>3. CASE RejectClient(l, conn[c])
    BY <1>1, <1>3, RejectSame DEF Keeps
  <1>4. CASE /\ ls[l].state = "INIT"
             /\ \E v : ls' = [ls EXCEPT ![l] = v]
             /\ \E r : conn' = [conn EXCEPT ![c] = r]
    <2>1. \A m \in LinkedServers : Stays(m)
      BY <1>1, <1>4, OneChanges, IdleMoves
    <2>2. \A d \in Conns : Survives(d)
      <3>1. PICK r : conn' = [conn EXCEPT ![c] = r]
        BY <1>4
      <3> QED
        BY <1>2, <1>4, <3>1, OneSurvives
    <2> QED
      BY <2>1, <2>2 DEF Keeps
  <1> QED
    BY <1>3, <1>4 DEF HandleAccountLogin

LEMMA FinishKeeps ==
  ASSUME SessionInv, NEW l \in LinkedServers, NEW L, NEW p,
         FinishPlayServer(l, L, p)
  PROVE  OthersKept(l)
  BY DeleteChanges DEF FinishPlayServer

LEMMA HandlePlayServerKeeps ==
  ASSUME SessionInv, NEW l \in LinkedServers, NEW i \in Indices,
         HandlePlayServer(l, i)
  PROVE  Keeps
  <1> DEFINE c == ls[l].connection
             r == [conn[c] EXCEPT !.server_index = i]
  <1>1. ls[l].server
    BY DEF HandlePlayServer, HasClient
  <1>2. c \in Conns /\ (ls[l].state = "SERVER_LIST" => ~conn[c].in_game)
    BY <1>1, ClientConn
  <1>3. CASE RejectClient(l, conn[c])
    BY <1>1, <1>3, RejectSame DEF Keeps
  <1>4. CASE ls[l].state = "SERVER_LIST" /\ RejectClient(l, r)
    BY <1>2, <1>4, RejectKeeps DEF Keeps
  <1>5. CASE /\ ls[l].state = "SERVER_LIST" /\ OthersKept(l)
             /\ \E s : conn' = [conn EXCEPT ![c] = s]
    <2>1. PICK s : conn' = [conn EXCEPT ![c] = s]
      BY <1>5
    <2> QED
      BY <1>2, <1>5, <2>1, IdleMoves, OneSurvives DEF Keeps
  <1> QED
    BY <1>3, <1>4, <1>5, FinishKeeps, DeleteChanges DEF HandlePlayServer

LEMMA HandleGameLoginKeeps ==
  ASSUME SessionInv, NEW l \in LinkedServers, NEW cr \in Creds, NEW auth,
         HandleGameLogin(l, cr, auth)
  PROVE  Keeps
  <1> DEFINE c == ls[l].connection
  <1>1. ls[l].server /\ TypeOK
    BY DEF HandleGameLogin, HasClient, SessionInv
  <1>2. c \in Conns /\ (ls[l].state = "INIT" => ~conn[c].in_game)
    BY <1>1, ClientConn
  <1>3. CASE RejectClient(l, conn[c])
    BY <1>1, <1>3, RejectSame DEF Keeps
  <1>4. CASE /\ MayGameLogin(l) /\ UNCHANGED conn
             /\ ls' = [ls EXCEPT ![l].state = AfterGameLogin(c)]
    <2>1. OthersKept(l) /\ ls[l].state # "IN_GAME"
      BY <1>1, <1>4 DEF OthersKept, TypeOK, MayGameLogin
    <2> QED
      BY <1>4, <2>1, IdleMoves, SameSurvives DEF Keeps
  <1>5. CASE /\ ls[l].state = "INIT" /\ OthersKept(l)
             /\ conn' = [conn EXCEPT ![c] = NoConnection]
    BY <1>2, <1>5, IdleMoves, OneSurvives DEF Keeps
  <1>6. \/ RejectClient(l, conn[c])
        \/ /\ MayGameLogin(l) /\ UNCHANGED conn
           /\ ls' = [ls EXCEPT ![l].state = AfterGameLogin(c)]
        \/ /\ ls[l].state = "INIT"
           /\ conn' = [conn EXCEPT ![c] = NoConnection]
           /\ \E L, v : ls' = [Delete(L) EXCEPT ![l] = v]
    BY ZenonT(60) DEF HandleGameLogin
  <1> QED
    BY <1>3, <1>4, <1>5, <1>6, DeleteChanges

LEMMA HandlePlayCharacterKeeps ==
  ASSUME SessionInv, NEW l \in LinkedServers, HandlePlayCharacter(l)
  PROVE  Keeps
  <1> DEFINE c == ls[l].connection
  <1>1. ls[l].server /\ TypeOK
    BY DEF HandlePlayCharacter, HasClient, SessionInv
  <1>2. c \in Conns /\ conn[c].alive /\ ConnOK(conn[c])
    BY <1>1, ClientConn
  <1>3. CASE RejectClient(l, conn[c])
    BY <1>1, <1>3, RejectSame DEF Keeps
  <1>4. CASE /\ ls[l].state = "CHAR_LIST"
             /\ ls' = [ls EXCEPT ![l].state = "PLAY_CHAR"]
             /\ conn' = [conn EXCEPT ![c] = Forward(conn[c], "game", "char")]
    <2>1. OthersKept(l)
      BY <1>1, <1>4 DEF OthersKept, TypeOK
    <2>2. Forward(conn[c], "game", "char").alive
      BY <1>2, ForwardOK DEF SameSession, Link
    <2> QED
      BY <1>2, <1>4, <2>1, <2>2, IdleMoves, OneSurvives DEF Keeps
  <1> QED
    BY <1>3, <1>4 DEF HandlePlayCharacter

LEMMA ClientNextKeeps ==
  ASSUME SessionInv, NEW l \in LinkedServers, ClientNext(l)
  PROVE  Keeps
  <1> DEFINE c == ls[l].connection
  <1>1. CASE HandleCreateCharacter(l)
    <2>1. /\ ls[l].server /\ UNCHANGED ls
          /\ conn' = [conn EXCEPT ![c] = Forward(conn[c], "game", "char")]
      BY <1>1 DEF HandleCreateCharacter, HasClient
    <2>2. c \in Conns /\ Forward(conn[c], "game", "char").alive
      BY <2>1, ClientConn, ForwardOK DEF SameSession, Link
    <2> QED
      BY <2>1, <2>2, SameStays, OneSurvives DEF Keeps
  <1>2. CASE OnCommand(l)
    <2>1. /\ ls[l].server /\ conn[c].in_game /\ UNCHANGED ls
          /\ conn' = [conn EXCEPT ![c] = Reconnect(conn[c])]
      BY <1>2 DEF OnCommand, HasClient
    <2>2. c \in Conns /\ Reconnect(conn[c]).alive
      BY <2>1, ClientConn, ReconnectOK DEF SameSession
    <2> QED
      BY <2>1, <2>2, SameStays, OneSurvives DEF Keeps
  <1>3. CASE RefusePacket(l)
    BY <1>3, RejectSame DEF RefusePacket, HasClient, Keeps
  <1> QED
    BY ZenonT(60), <1>1, <1>2, <1>3, OnAcceptKeeps, OnClientDisconnectKeeps,
       ZombieTimeoutKeeps, HandleAccountLoginKeeps, HandlePlayServerKeeps,
       HandleGameLoginKeeps, HandlePlayCharacterKeeps
       DEF ClientNext

\* A packet of the server that moves on the clients that wait for it.
LEMMA BroadcastStays ==
  ASSUME TypeOK, NEW L, NEW s \in State,
         \A l \in L : ls[l].state # "IN_GAME" \/ s = "IN_GAME",
         ls' = [l \in LinkedServers |->
                  IF l \in L THEN [ls[l] EXCEPT !.state = s] ELSE ls[l]]
  PROVE  \A m \in LinkedServers : Stays(m)
  <1> SUFFICES ASSUME NEW m \in LinkedServers, ls[m].state = "IN_GAME"
               PROVE  ls'[m].state = "IN_GAME" /\ ls'[m].connection = ls[m].connection
    BY DEF Stays
  <1>1. ls[m] \in LinkedServer
    BY DEF TypeOK
  <1>2. CASE m \in L
    BY <1>1, <1>2 DEF LinkedServer
  <1>3. CASE m \notin L
    BY <1>3
  <1> QED
    BY <1>2, <1>3

\* The link of one connection changes, and the session stays what it is.
LEMMA LinkKeeps ==
  ASSUME SessionInv, NEW c \in Conns, UNCHANGED ls, NEW r, r.alive = conn[c].alive,
         conn' = [conn EXCEPT ![c] = r]
  PROVE  Keeps
  BY LinkedAlive, SameStays, OneSurvives DEF Linked, Keeps

LEMMA RetryKeeps ==
  ASSUME SessionInv, NEW c \in Conns, UNCHANGED ls,
         conn[c].reconnecting,
         conn' = [conn EXCEPT ![c] = ScheduleReconnect(conn[c])]
  PROVE  Keeps
  <1>1. conn[c].in_game /\ conn[c].alive /\ ConnOK(conn[c])
    BY ConnFacts, LinkedAlive DEF ConnOK, Linked
  <1>2. ScheduleReconnect(conn[c]).alive
    BY <1>1, ScheduleReconnectOK DEF SameSession
  <1> QED
    BY <1>2, SameStays, OneSurvives DEF Keeps

LEMMA HandleServerListKeeps ==
  ASSUME SessionInv, NEW c \in Conns, HandleServerList(c)
  PROVE  Keeps
  <1>1. TypeOK /\ conn[c] \in Connection
    BY DEF SessionInv, TypeOK
  <1>2. CASE UNCHANGED ls /\ conn' = [conn EXCEPT ![c].client = "play"]
    <2>1. [conn[c] EXCEPT !.client = "play"].alive = conn[c].alive
      BY <1>1 DEF Connection
    <2> QED
      BY <1>2, <2>1, LinkKeeps
  <1>3. CASE /\ ls' = [l \in LinkedServers |->
                         IF l \in Servers(c) /\ ls[l].state = "ACCOUNT_LOGIN"
                         THEN [ls[l] EXCEPT !.state = "SERVER_LIST"]
                         ELSE ls[l]]
             /\ UNCHANGED conn
    <2> DEFINE L == {l \in Servers(c) : ls[l].state = "ACCOUNT_LOGIN"}
    <2>1. ls' = [l \in LinkedServers |->
                   IF l \in L THEN [ls[l] EXCEPT !.state = "SERVER_LIST"] ELSE ls[l]]
      BY <1>3
    <2>2. \A l \in L : ls[l].state # "IN_GAME" \/ "SERVER_LIST" = "IN_GAME"
      OBVIOUS
    <2>3. "SERVER_LIST" \in State
      BY DEF State
    <2> HIDE DEF L
    <2> QED
      BY <1>1, <1>3, <2>1, <2>2, <2>3, BroadcastStays, SameSurvives DEF Keeps
  <1> QED
    BY <1>2, <1>3 DEF HandleServerList

LEMMA HandleCharListKeeps ==
  ASSUME SessionInv, NEW c \in Conns, NEW valid \in BOOLEAN, HandleCharList(c, valid)
  PROVE  Keeps
  <1> DEFINE r == [conn[c] EXCEPT !.char_list = @ \/ valid]
             L == {l \in Servers(c) : AwaitsCharList(l)}
  <1>1. TypeOK /\ conn[c] \in Connection
    BY DEF SessionInv, TypeOK
  <1>2. r.alive = conn[c].alive /\ [r EXCEPT !.client = "char"].alive = conn[c].alive
    BY <1>1 DEF Connection
  <1>3. CASE UNCHANGED ls /\ conn' = [conn EXCEPT ![c] = [r EXCEPT !.client = "char"]]
    <2> HIDE DEF r
    <2> QED
      BY <1>2, <1>3, LinkKeeps
  <1>4. CASE /\ ls' = [l \in LinkedServers |->
                         IF l \in L THEN [ls[l] EXCEPT !.state = "CHAR_LIST"] ELSE ls[l]]
             /\ conn' = [conn EXCEPT ![c] = r]
    <2>1. \A l \in L : ls[l].state # "IN_GAME" \/ "CHAR_LIST" = "IN_GAME"
      BY DEF AwaitsCharList
    <2>2. "CHAR_LIST" \in State
      BY DEF State
    <2>3. conn[c].in_game => r.alive
      BY <1>2, LinkedAlive DEF Linked
    <2> HIDE DEF L, r
    <2>4. \A m \in LinkedServers : Stays(m)
      BY <1>1, <1>4, <2>1, <2>2, BroadcastStays
    <2> QED
      BY <1>4, <2>3, <2>4, OneSurvives DEF Keeps
  <1> QED
    BY ZenonT(60), <1>3, <1>4 DEF HandleCharList

LEMMA HandleStartKeeps ==
  ASSUME SessionInv, NEW c \in Conns, HandleStart(c)
  PROVE  Keeps
  <1>1. TypeOK /\ conn[c] \in Connection /\ conn[c].client # "none"
    BY DEF SessionInv, TypeOK, HandleStart, Receives, IsConnected
  <1>2. CASE UNCHANGED <<ls, conn>>
    BY <1>2, SameStays, SameSurvives DEF Keeps
  <1>3. CASE /\ conn' = [conn EXCEPT ![c].in_game = TRUE, ![c].reconnecting = FALSE,
                                     ![c].client = "world"]
             /\ ls' = [l \in LinkedServers |->
                         IF l \in Servers(c) THEN [ls[l] EXCEPT !.state = "IN_GAME"]
                         ELSE ls[l]]
    <2> DEFINE r == [conn[c] EXCEPT !.in_game = TRUE, !.reconnecting = FALSE,
                                    !.client = "world"]
    <2>1. conn[c].alive
      BY <1>1, LinkedAlive DEF Linked
    <2>2. r.alive /\ conn' = [conn EXCEPT ![c] = r]
      BY <1>1, <1>3, <2>1 DEF Connection, TypeOK
    <2>3. "IN_GAME" \in State
      BY DEF State
    <2>4. \A m \in LinkedServers : Stays(m)
      BY <1>1, <1>3, <2>3, BroadcastStays
    <2> HIDE DEF r
    <2> QED
      BY <2>2, <2>4, OneSurvives DEF Keeps
  <1> QED
    BY <1>2, <1>3 DEF HandleStart

LEMMA HandleRelayKeeps ==
  ASSUME SessionInv, NEW c \in Conns, HandleRelay(c)
  PROVE  Keeps
  <1>1. ConnOK(conn[c])
    BY ConnFacts
  <1>2. CASE LoseServer(c)
    BY <1>2, LoseKeeps DEF Keeps
  <1>3. CASE /\ conn' = [conn EXCEPT ![c] =
                           ConnectAsync([Disconnect(conn[c]) EXCEPT
                                           !.reconnecting = conn[c].in_game], "game")]
             /\ UNCHANGED ls
    <2> DEFINE r == ConnectAsync([Disconnect(conn[c]) EXCEPT
                                    !.reconnecting = conn[c].in_game], "game")
    <2>1. r.alive = conn[c].alive
      BY ZenonT(60), <1>1 DEF ConnOK, Connection, ConnectAsync, Disconnect
    <2>2. conn' = [conn EXCEPT ![c] = r]
      BY <1>3
    <2> HIDE DEF r
    <2> QED
      BY <1>3, <2>1, <2>2, LinkKeeps
  <1> QED
    BY <1>2, <1>3 DEF HandleRelay

LEMMA ConnectKeeps ==
  ASSUME SessionInv, NEW c \in Conns,
         ConnectDone(c) \/ ConnectFailed(c) \/ ReconnectTimerCallback(c)
  PROVE  Keeps
  <1>1. ConnOK(conn[c]) /\ UNCHANGED ls
    BY ConnFacts DEF ConnectDone, ConnectFailed, ReconnectTimerCallback
  <1>2. CASE ConnectDone(c)
    <2> DEFINE r == [conn[c] EXCEPT !.client = conn[c].connect_task,
                                    !.connect_task = "none"]
    <2>1. conn' = [conn EXCEPT ![c] = r]
      BY <1>2 DEF ConnectDone, SessionInv, TypeOK
    <2>2. r.alive = conn[c].alive
      BY <1>1 DEF ConnOK, Connection
    <2> HIDE DEF r
    <2> QED
      BY <1>1, <2>1, <2>2, LinkKeeps
  <1>3. CASE ConnectFailed(c)
    <2> DEFINE r == OnConnectError([conn[c] EXCEPT !.connect_task = "none"])
    <2>1. conn' = [conn EXCEPT ![c] = r]
      BY <1>3 DEF ConnectFailed
    <2>2. r.alive = conn[c].alive
      BY ZenonT(60), <1>1
         DEF ConnOK, Connection, OnConnectError, ScheduleReconnect, Disconnect
    <2> HIDE DEF r
    <2> QED
      BY <1>1, <2>1, <2>2, LinkKeeps
  <1>4. CASE ReconnectTimerCallback(c)
    <2> DEFINE r == DoReconnect([conn[c] EXCEPT !.reconnect_timer = FALSE])
    <2>1. conn' = [conn EXCEPT ![c] = r] \/ UNCHANGED conn
      BY <1>4 DEF ReconnectTimerCallback
    <2>2. r.alive = conn[c].alive
      BY ZenonT(60), <1>1 DEF ConnOK, Connection, DoReconnect, ConnectAsync
    <2> HIDE DEF r
    <2> QED
      BY <1>1, <2>1, <2>2, LinkKeeps, SameStays, SameSurvives DEF Keeps
  <1> QED
    BY <1>2, <1>3, <1>4

LEMMA ServerNextKeeps ==
  ASSUME SessionInv, NEW c \in Conns, ServerNext(c)
  PROVE  Keeps
  <1>1. CASE OnServerDisconnect(c) \/ RefuseServerPacket(c)
    BY <1>1, LoseKeeps DEF OnServerDisconnect, RefuseServerPacket, Keeps
  <1>2. CASE HandleAccountLoginReject(c)
    BY <1>2, LoseKeeps, RetryKeeps DEF HandleAccountLoginReject, Keeps
  <1>3. CASE HandlePopupMessage(c)
    BY <1>3, RetryKeeps DEF HandlePopupMessage
  <1> QED
    BY ZenonT(60), <1>1, <1>2, <1>3, HandleServerListKeeps, HandleRelayKeeps,
       HandleCharListKeeps, HandleStartKeeps, ConnectKeeps
       DEF ServerNext

LEMMA NextKeeps ==
  ASSUME SessionInv, [Next]_vars
  PROVE  Keeps
  <1>1. CASE Next
    BY <1>1, ClientNextKeeps, ServerNextKeeps DEF Next
  <1>2. CASE UNCHANGED vars
    BY <1>2, SameStays, SameSurvives DEF vars, Keeps
  <1> QED
    BY <1>1, <1>2

(***************************************************************************)
(* Theorems.                                                               *)
(***************************************************************************)
\* RemoveCheckEmpty(), LinkedServer::OnPacket() and OnDisconnect() never
\* destroy a session that another client plays in, and with "autoreconnect"
\* the loss of the server does not either, for any number of clients.
THEOREM SessionsSurvive == Spec => SharedSessionSurvives
  <1>1. ASSUME SessionInv, [Next]_vars
        PROVE  [\A c \in Conns :
                  /\ AutoReconnect /\ conn[c].in_game
                  /\ \E l, m \in LinkedServers :
                       l # m /\ ls[l].connection = c /\ ls[m].connection = c
                  => conn'[c].alive]_vars
    BY <1>1, NextKeeps DEF Keeps, Survives, Shared
  <1> QED
    BY <1>1, SessionInvariant, PTL DEF Spec, SharedSessionSurvives

\* No handler takes a client out of IN_GAME or moves it to another connection;
\* a late or repeated server list or character list does not reach it.
THEOREM PlayersStay == Spec => PlayingClientStays
  <1>1. ASSUME SessionInv, [Next]_vars
        PROVE  [\A l \in LinkedServers :
                  ls[l].state = "IN_GAME" =>
                    \/ ls'[l].state = "FREE"
                    \/ ls'[l].state = "IN_GAME" /\ ls'[l].connection = ls[l].connection
               ]_vars
    BY <1>1, NextKeeps DEF Keeps, Stays
  <1> QED
    BY <1>1, SessionInvariant, PTL DEF Spec, PlayingClientStays
=============================================================================
