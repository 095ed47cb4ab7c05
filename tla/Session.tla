------------------------------- MODULE Session -------------------------------
(***************************************************************************)
(* The session core of uoproxy: Connection objects (one link to the real   *)
(* UO server each) shared by LinkedServer objects (one link from a UO      *)
(* client each), from accept through login, redirect, attach, play,        *)
(* disconnect, backgrounding and automatic reconnect.                      *)
(*                                                                         *)
(* The program is a single-threaded event loop: every callback (packet,    *)
(* hangup, timer, connect completion) runs to its end before the next      *)
(* one, so each is one action.  An assertion that fails aborts the         *)
(* process: the step records it in "fault" and nothing happens afterwards. *)
(***************************************************************************)
EXTENDS Naturals, FiniteSets

CONSTANTS
  Conns,           \* storage slots for Connection objects
  LinkedServers,   \* storage slots for LinkedServer objects
  Creds,           \* account credentials
  Indices,         \* game server indices a client may select
  NoConn, NoCred,  \* null pointer, empty credentials
  Razor,           \* config.razor_workaround
  Background,      \* config.background
  AutoReconnect,   \* config.autoreconnect
  HasLogin,        \* config.login_address is set
  NumGame,         \* config.game_servers.size()
  LocalIPv4,       \* clients are accepted on an IPv4 socket
  StrictServer,    \* the real server only sends what the login protocol expects
  MaxAuthId        \* bound: number of redirects in a behaviour

ASSUME ConfigAssumption ==
  /\ Razor \in BOOLEAN /\ Background \in BOOLEAN /\ AutoReconnect \in BOOLEAN
  /\ HasLogin \in BOOLEAN /\ LocalIPv4 \in BOOLEAN /\ StrictServer \in BOOLEAN
  /\ NumGame \in Nat /\ MaxAuthId \in Nat
  /\ Indices \subseteq Nat /\ 0 \in Indices
  /\ NoConn \notin Conns /\ NoCred \notin Creds
  /\ HasLogin \/ NumGame > 0     \* parse_cmdline(): "login server missing"

VARIABLES
  ls,      \* the LinkedServer objects
  conn,    \* the Connection objects
  authid,  \* static counter of RedirectToSelf()
  fault    \* the assertion that aborted the process, or "none"

vars == <<ls, conn, authid, fault>>

Running == fault = "none"

-----------------------------------------------------------------------------
(***************************************************************************)
(* LinkedServer: "presented" is history, the credentials the client has    *)
(* logged in with.                                                         *)
(***************************************************************************)
State == {"INIT", "ACCOUNT_LOGIN", "SERVER_LIST", "PLAY_SERVER",
          "RELAY_SERVER", "GAME_LOGIN", "CHAR_LIST", "PLAY_CHAR", "IN_GAME"}

LinkedServer ==
  [state          : State \cup {"FREE"},
   connection     : Conns \cup {NoConn},
   server         : BOOLEAN,             \* server != nullptr
   zombie_timeout : BOOLEAN,             \* timer pending
   auth_id        : Nat,
   presented      : Creds \cup {NoCred}]

(***************************************************************************)
(* Connection: "client" is "none" for a null pointer, otherwise how far    *)
(* the login on the current link to the real server has come: AccountLogin *)
(* sent, PlayServer sent, GameLogin sent, PlayCharacter sent, Start        *)
(* received.                                                               *)
(***************************************************************************)
Link == {"none", "login", "play", "game", "char", "world"}

Connection ==
  [alive           : BOOLEAN,
   client          : Link,
   reconnecting    : BOOLEAN,
   reconnect_timer : BOOLEAN,
   connect_task    : {"none", "login", "game"},
   in_game         : BOOLEAN,             \* world.HasStart()
   char_list       : BOOLEAN,             \* a character list is cached
   credentials     : Creds \cup {NoCred},
   server_index    : Nat]

NoLinkedServer ==
  [state |-> "FREE", connection |-> NoConn, server |-> FALSE,
   zombie_timeout |-> FALSE, auth_id |-> 0, presented |-> NoCred]

NoConnection ==
  [alive |-> FALSE, client |-> "none", reconnecting |-> FALSE,
   reconnect_timer |-> FALSE, connect_task |-> "none", in_game |-> FALSE,
   char_list |-> FALSE, credentials |-> NoCred, server_index |-> 0]

NewConnection == [NoConnection EXCEPT !.alive = TRUE]

NewLinkedServer(c) ==
  [NoLinkedServer EXCEPT !.state = "INIT", !.connection = c, !.server = TRUE]

Init ==
  /\ ls = [l \in LinkedServers |-> NoLinkedServer]
  /\ conn = [c \in Conns |-> NoConnection]
  /\ authid = 0
  /\ fault = "none"

-----------------------------------------------------------------------------
Servers(c) == {l \in LinkedServers : ls[l].connection = c}

IsZombie(l) == ls[l].state = "RELAY_SERVER" /\ ~ls[l].server

\* Mutant: attach to any connection that has a character list.
CanAttach_CharList(c) == conn[c].alive /\ conn[c].char_list

CanAttach(c) == conn[c].alive /\ conn[c].in_game /\ conn[c].char_list

\* Listener::FindAttachConnection(credentials); the first of a list of live
\* connections, here any of them.
FindAttachCredentials(cr) ==
  {c \in Conns : CanAttach(c) /\ conn[c].credentials = cr}

\* Listener::FindAttachConnection(Connection &c) once c.server_index is i.
FindAttachConnection(c, i) ==
  {d \in Conns \ {c} : /\ CanAttach(d)
                       /\ conn[d].credentials = conn[c].credentials
                       /\ conn[d].server_index = i}

\* Mutant: the account is not compared.
FindZombie_AnyAccount(cr, auth) ==
  {z \in LinkedServers : /\ ls[z].connection \in Conns
                         /\ IsZombie(z)
                         /\ ls[z].auth_id = auth}

\* Instance::FindZombie(): GameLogin must name account and redirect.
FindZombie(cr, auth) ==
  {z \in LinkedServers : /\ ls[z].connection \in Conns
                         /\ conn[ls[z].connection].credentials = cr
                         /\ IsZombie(z)
                         /\ ls[z].auth_id = auth}

-----------------------------------------------------------------------------
(***************************************************************************)
(* What the Connection methods of Reconnect.cxx and CNet.cxx make of a     *)
(* Connection r.  ConnectAsync() replaces a coroutine that is still        *)
(* pending; a connect that completes inside ConnectAsync() is the same two *)
(* steps with nothing between them.                                        *)
(***************************************************************************)
Disconnect(r) ==
  IF r.client = "none" THEN r
  ELSE [r EXCEPT !.reconnecting = FALSE, !.reconnect_timer = FALSE,
                 !.client = "none"]

ConnectAsync(r, kind) == [r EXCEPT !.connect_task = kind]

DoReconnect(r) == ConnectAsync(r, IF HasLogin THEN "login" ELSE "game")

Reconnect(r) == DoReconnect([Disconnect(r) EXCEPT !.reconnecting = TRUE])

\* Mutant: the timer is not scheduled.
ScheduleReconnect_NoTimer(r) == [Disconnect(r) EXCEPT !.reconnecting = TRUE]

ScheduleReconnect(r) ==
  [Disconnect(r) EXCEPT !.reconnecting = TRUE, !.reconnect_timer = TRUE]

\* Mutant: a failed attempt is the last one.
OnConnectError_GivesUp(r) == r

\* OnConnectComplete() with an error; otherwise only ACCOUNT_LOGIN clients are
\* told.
OnConnectError(r) == IF r.reconnecting THEN ScheduleReconnect(r) ELSE r

\* The objects after "delete" of the given LinkedServers.
Delete(L) == [l \in LinkedServers |-> IF l \in L THEN NoLinkedServer ELSE ls[l]]

\* Connection::Destroy(): the destructor disposes of every client left.
Destroy(c) ==
  /\ conn' = [conn EXCEPT ![c] = NoConnection]
  /\ ls' = Delete(Servers(c))

\* Mutants: the connection is never destroyed; it is destroyed under its other
\* clients.
RemoveCheckEmpty_Keeps(l) == UNCHANGED conn

RemoveCheckEmpty_IgnoresOthers(l) ==
  conn' = [conn EXCEPT ![ls[l].connection] = NoConnection]

\* The connection part of Connection::RemoveCheckEmpty().
RemoveCheckEmpty(l) ==
  LET c == ls[l].connection
      keep == \/ Servers(c) # {l}
              \/ Background /\ conn[c].client # "none" /\ conn[c].in_game
  IN conn' = IF keep THEN conn ELSE [conn EXCEPT ![c] = NoConnection]

\* LinkedServer::OnPacket() when the handler answered DISCONNECT and left the
\* connection as r.
RejectClient(l, r) ==
  LET c == ls[l].connection
  IN /\ conn' = [conn EXCEPT ![c] = IF Servers(c) = {l} /\ ~Background
                                     THEN NoConnection ELSE r]
     /\ ls' = Delete({l})

\* LinkedServer::OnPacket() when the handler answered ACCEPT: the packet goes
\* to the server, where it takes a login that is at "from" to "to".
Forward(r, from, to) ==
  IF r.client = from /\ ~r.reconnecting THEN [r EXCEPT !.client = to] ELSE r

\* Connection::OnPacket() when the handler answered DISCONNECT, and
\* Connection::OnDisconnect(): reconnect, or give the session up.
LoseServer(c) ==
  IF AutoReconnect /\ conn[c].in_game
  THEN conn' = [conn EXCEPT ![c] = ScheduleReconnect(@)] /\ UNCHANGED ls
  ELSE Destroy(c)

-----------------------------------------------------------------------------
(***************************************************************************)
(* Callbacks on the client side.                                           *)
(***************************************************************************)
HasClient(l) == Running /\ ls[l].server

OnAccept(l, c) ==
  /\ Running
  /\ ls[l].state = "FREE"
  /\ ~conn[c].alive
  /\ ls' = [ls EXCEPT ![l] = NewLinkedServer(c)]
  /\ conn' = [conn EXCEPT ![c] = NewConnection]
  /\ UNCHANGED <<authid, fault>>

\* Mutant: the timer is not scheduled.
Zombify_NoTimer(s) == [s EXCEPT !.server = FALSE]

\* A redirected client has hung up, as it was asked to.
Zombify(s) == [s EXCEPT !.server = FALSE, !.zombie_timeout = TRUE]

\* LinkedServer::OnDisconnect(): hangup, error or full output buffer.
OnClientDisconnect(l) ==
  /\ HasClient(l)
  /\ \/ /\ ls[l].state = "RELAY_SERVER"
        /\ ls' = [ls EXCEPT ![l] = Zombify(@)]
        /\ UNCHANGED conn
     \/ /\ ls[l].state # "RELAY_SERVER"
        /\ RemoveCheckEmpty(l)
        /\ ls' = Delete({l})
  /\ UNCHANGED <<authid, fault>>

\* The object is unlinked from its connection, and stays allocated.
ZombieTimeoutCallback(l) ==
  /\ Running
  /\ ls[l].zombie_timeout
  /\ RemoveCheckEmpty(l)
  /\ ls' = [ls EXCEPT ![l].zombie_timeout = FALSE, ![l].connection = NoConn]
  /\ UNCHANGED <<authid, fault>>

HandleAccountLogin(l, cr) ==
  LET c == ls[l].connection
      r == [conn[c] EXCEPT !.credentials = cr]
      login == [ls[l] EXCEPT !.state = "ACCOUNT_LOGIN", !.presented = cr]
  IN
  /\ HasClient(l)
  /\ \/ /\ ls[l].state # "INIT" \/ conn[c].client # "none"
        /\ RejectClient(l, conn[c])
     \/ /\ ls[l].state = "INIT" /\ conn[c].client = "none"
        /\ FindAttachCredentials(cr) # {}
        /\ ls' = [ls EXCEPT ![l] = [login EXCEPT !.state = "SERVER_LIST"]]
        /\ conn' = [conn EXCEPT ![c] = r]
     \/ /\ ls[l].state = "INIT" /\ conn[c].client = "none"
        /\ FindAttachCredentials(cr) = {}
        /\ ls' = [ls EXCEPT ![l] = login]
        /\ conn' = [conn EXCEPT ![c] = IF NumGame > 0 THEN r
                                       ELSE ConnectAsync(r, "login")]
  /\ UNCHANGED <<authid, fault>>

\* Mutant: the identifier is not incremented.
FinishPlayServer_SameId(l, L, p) ==
  /\ ls' = [Delete(L) EXCEPT ![l] = [p EXCEPT !.state = "RELAY_SERVER",
                                              !.auth_id = authid]]
  /\ UNCHANGED authid

\* RedirectToSelf() in Razor mode, from the LinkedServer p to be stored at l.
FinishPlayServer(l, L, p) ==
  LET relay == Razor /\ LocalIPv4
      q == IF relay THEN [p EXCEPT !.state = "RELAY_SERVER",
                                   !.auth_id = authid + 1]
                    ELSE p
  IN /\ relay => authid < MaxAuthId
     /\ authid' = IF relay THEN authid + 1 ELSE authid
     /\ ls' = [Delete(L) EXCEPT ![l] = q]

HandlePlayServer(l, i) ==
  LET c == ls[l].connection
      r == [conn[c] EXCEPT !.server_index = i]
      p == [ls[l] EXCEPT !.state = "PLAY_SERVER"]
      found == FindAttachConnection(c, i)
  IN
  /\ HasClient(l)
  /\ \/ /\ ls[l].state # "SERVER_LIST"
        /\ RejectClient(l, conn[c])
        /\ UNCHANGED authid
     \/ /\ ls[l].state = "SERVER_LIST"
        /\ \E c2 \in found :
             /\ conn' = [conn EXCEPT ![c] = NoConnection]
             /\ IF Razor
                THEN FinishPlayServer(l, Servers(c), [p EXCEPT !.connection = c2])
                ELSE /\ ls' = [Delete(Servers(c)) EXCEPT
                                 ![l] = [p EXCEPT !.connection = c2,
                                                  !.state = "IN_GAME"]]
                     /\ UNCHANGED authid
     \/ /\ ls[l].state = "SERVER_LIST" /\ found = {}
        /\ IF ~HasLogin /\ i >= NumGame
           THEN RejectClient(l, r) /\ UNCHANGED authid
           ELSE /\ conn' = [conn EXCEPT ![c] =
                              IF ~HasLogin THEN ConnectAsync(r, "game")
                              ELSE Forward(r, "login", "play")]
                /\ FinishPlayServer(l, {}, p)
  /\ UNCHANGED fault

MayGameLogin(l) == Razor /\ ls[l].state \in {"INIT", "RELAY_SERVER"}

\* The state HandleGameLogin() leaves a client of connection c in.
AfterGameLogin(c) ==
  IF conn[c].in_game THEN "IN_GAME"
  ELSE IF conn[c].char_list THEN "CHAR_LIST" ELSE "GAME_LOGIN"

HandleGameLogin(l, cr, auth) ==
  LET c == ls[l].connection
      zombies == FindZombie(cr, auth)
      ok == MayGameLogin(l) /\ (ls[l].state = "INIT" => zombies # {})
  IN
  /\ HasClient(l)
  /\ \/ /\ ~ok
        /\ RejectClient(l, conn[c])
     \/ /\ ok /\ ls[l].state # "INIT"
        /\ ls' = [ls EXCEPT ![l].state = AfterGameLogin(c)]
        /\ UNCHANGED conn
     \/ /\ ok /\ ls[l].state = "INIT"
        /\ \E z \in zombies :
             LET d == ls[z].connection
             IN /\ conn' = [conn EXCEPT ![c] = NoConnection]
                /\ ls' = [Delete(Servers(c) \cup {z}) EXCEPT
                            ![l] = [ls[l] EXCEPT !.connection = d,
                                                 !.presented = cr,
                                                 !.state = AfterGameLogin(d)]]
  /\ UNCHANGED <<authid, fault>>

HandlePlayCharacter(l) ==
  LET c == ls[l].connection
  IN
  /\ HasClient(l)
  /\ \/ /\ ls[l].state # "CHAR_LIST"
        /\ RejectClient(l, conn[c])
     \/ /\ ls[l].state = "CHAR_LIST"
        /\ ls' = [ls EXCEPT ![l].state = "PLAY_CHAR"]
        /\ conn' = [conn EXCEPT ![c] = Forward(@, "game", "char")]
  /\ UNCHANGED <<authid, fault>>

\* Accepted in every state of the client.
HandleCreateCharacter(l) ==
  LET c == ls[l].connection
  IN /\ HasClient(l)
     /\ conn' = [conn EXCEPT ![c] = Forward(@, "game", "char")]
     /\ UNCHANGED <<ls, authid, fault>>

\* The chat commands %reconnect and %char, typed in any state of the client.
OnCommand(l) ==
  LET c == ls[l].connection
  IN /\ HasClient(l)
     /\ conn[c].in_game
     /\ conn' = [conn EXCEPT ![c] = Reconnect(@)]
     /\ UNCHANGED <<ls, authid, fault>>

\* Every other client packet: forwarded or answered without a change of
\* session state, or refused (a walk outside the game, a malformed packet).
RefusePacket(l) ==
  /\ HasClient(l)
  /\ RejectClient(l, conn[ls[l].connection])
  /\ UNCHANGED <<authid, fault>>

-----------------------------------------------------------------------------
(***************************************************************************)
(* Callbacks on the server side.  Receives(c, S): a packet arrives that a  *)
(* server following the login protocol sends only at the stages S.         *)
(***************************************************************************)
IsConnected(c) == Running /\ conn[c].client # "none"

Receives(c, S) ==
  /\ IsConnected(c)
  /\ StrictServer => conn[c].client \in S

OnServerDisconnect(c) ==
  /\ IsConnected(c)
  /\ LoseServer(c)
  /\ UNCHANGED <<authid, fault>>

\* A packet the handlers refuse at any time (malformed list, container or
\* extended packet).
RefuseServerPacket(c) ==
  /\ IsConnected(c)
  /\ LoseServer(c)
  /\ UNCHANGED <<authid, fault>>

HandleServerList(c) ==
  /\ Receives(c, {"login"})
  /\ \/ /\ conn[c].reconnecting
        /\ conn' = [conn EXCEPT ![c].client = "play"]
        /\ UNCHANGED ls
     \/ /\ ~conn[c].reconnecting
        /\ ls' = [l \in LinkedServers |->
                    IF l \in Servers(c) /\ ls[l].state = "ACCOUNT_LOGIN"
                    THEN [ls[l] EXCEPT !.state = "SERVER_LIST"]
                    ELSE ls[l]]
        /\ UNCHANGED conn
  /\ UNCHANGED <<authid, fault>>

HandleRelay(c) ==
  /\ Receives(c, {"play"})
  /\ \/ /\ conn[c].in_game /\ ~conn[c].reconnecting
        /\ LoseServer(c)
     \/ /\ ~conn[c].in_game \/ conn[c].reconnecting
        /\ conn' = [conn EXCEPT ![c] =
                      ConnectAsync([Disconnect(@) EXCEPT
                                      !.reconnecting = conn[c].in_game], "game")]
        /\ UNCHANGED ls
  /\ UNCHANGED <<authid, fault>>

HandleAccountLoginReject(c) ==
  /\ Receives(c, {"login", "play", "game"})
  /\ \/ /\ conn[c].reconnecting
        /\ conn' = [conn EXCEPT ![c] = ScheduleReconnect(@)]
        /\ UNCHANGED ls
     \/ /\ ~conn[c].reconnecting /\ conn[c].in_game
        /\ LoseServer(c)
  /\ UNCHANGED <<authid, fault>>

HandlePopupMessage(c) ==
  /\ Receives(c, {"game", "char", "world"})
  /\ conn[c].reconnecting
  /\ conn' = [conn EXCEPT ![c] = ScheduleReconnect(@)]
  /\ UNCHANGED <<ls, authid, fault>>

\* Mutant: the list is sent to every client.
AwaitsCharList_Always(l) == TRUE

AwaitsCharList(l) == ls[l].state \in {"GAME_LOGIN", "PLAY_SERVER"}

\* "valid": the list has a character and is complete, so it is cached.
HandleCharList(c, valid) ==
  LET r == [conn[c] EXCEPT !.char_list = @ \/ valid]
  IN
  /\ Receives(c, {"game"})
  /\ \/ /\ conn[c].reconnecting
        /\ conn' = [conn EXCEPT ![c] = [r EXCEPT !.client = "char"]]
        /\ UNCHANGED ls
     \/ /\ ~conn[c].reconnecting
        /\ conn' = [conn EXCEPT ![c] = r]
        /\ ls' = [l \in LinkedServers |->
                    IF l \in Servers(c) /\ AwaitsCharList(l)
                    THEN [ls[l] EXCEPT !.state = "CHAR_LIST"]
                    ELSE ls[l]]
  /\ UNCHANGED <<authid, fault>>

\* All clients become IN_GAME and are sent the packet: LinkedServer::Send()
\* asserts that each still has a socket.
HandleStart(c) ==
  /\ Receives(c, {"char"})
  /\ \/ /\ \E l \in Servers(c) : ~ls[l].server
        /\ fault' = "Send"
        /\ UNCHANGED <<ls, conn>>
     \/ /\ \A l \in Servers(c) : ls[l].server
        /\ conn' = [conn EXCEPT ![c].in_game = TRUE, ![c].reconnecting = FALSE,
                                ![c].client = "world"]
        /\ ls' = [l \in LinkedServers |->
                    IF l \in Servers(c) THEN [ls[l] EXCEPT !.state = "IN_GAME"]
                    ELSE ls[l]]
        /\ UNCHANGED fault
  /\ UNCHANGED authid

-----------------------------------------------------------------------------
(***************************************************************************)
(* Completion of the connect coroutine, and the reconnect timer.           *)
(***************************************************************************)
ConnectDone(c) ==
  /\ Running
  /\ conn[c].connect_task # "none"
  /\ conn' = [conn EXCEPT ![c].client = conn[c].connect_task,
                          ![c].connect_task = "none"]
  /\ UNCHANGED <<ls, authid, fault>>

ConnectFailed(c) ==
  /\ Running
  /\ conn[c].connect_task # "none"
  /\ conn' = [conn EXCEPT ![c] =
                 OnConnectError([conn[c] EXCEPT !.connect_task = "none"])]
  /\ UNCHANGED <<ls, authid, fault>>

ReconnectTimerCallback(c) ==
  LET r == conn[c]
      asserted == r.in_game /\ r.reconnecting /\ r.client = "none"
  IN /\ Running
     /\ r.reconnect_timer
     /\ \/ /\ asserted
           /\ conn' = [conn EXCEPT ![c] =
                         DoReconnect([r EXCEPT !.reconnect_timer = FALSE])]
           /\ UNCHANGED fault
        \/ /\ ~asserted
           /\ fault' = "DoReconnect"
           /\ UNCHANGED conn
     /\ UNCHANGED <<ls, authid>>

ClientNext(l) ==
  \/ \E c \in Conns : OnAccept(l, c)
  \/ OnClientDisconnect(l)
  \/ ZombieTimeoutCallback(l)
  \/ \E cr \in Creds : HandleAccountLogin(l, cr)
  \/ \E i \in Indices : HandlePlayServer(l, i)
  \/ \E cr \in Creds, auth \in 1..MaxAuthId : HandleGameLogin(l, cr, auth)
  \/ HandlePlayCharacter(l)
  \/ HandleCreateCharacter(l)
  \/ OnCommand(l)
  \/ RefusePacket(l)

ServerNext(c) ==
  \/ OnServerDisconnect(c)
  \/ RefuseServerPacket(c)
  \/ HandleServerList(c)
  \/ HandleRelay(c)
  \/ HandleAccountLoginReject(c)
  \/ HandlePopupMessage(c)
  \/ \E valid \in BOOLEAN : HandleCharList(c, valid)
  \/ HandleStart(c)
  \/ ConnectDone(c)
  \/ ConnectFailed(c)
  \/ ReconnectTimerCallback(c)

Next ==
  \/ \E l \in LinkedServers : ClientNext(l)
  \/ \E c \in Conns : ServerNext(c)

(***************************************************************************)
(* The event loop runs every timer that is due, and a connect attempt ends *)
(* by success, error or its 30 s timeout.  Peers owe nothing.              *)
(***************************************************************************)
Fairness ==
  /\ \A l \in LinkedServers : WF_vars(ZombieTimeoutCallback(l))
  /\ \A c \in Conns : /\ WF_vars(ReconnectTimerCallback(c))
                       /\ WF_vars(ConnectDone(c) \/ ConnectFailed(c))

Spec == Init /\ [][Next]_vars /\ Fairness

-----------------------------------------------------------------------------
(***************************************************************************)
(* Invariants.  None of them depends on what the peers send or when.       *)
(***************************************************************************)
Attached(l) == ls[l].connection \in Conns

\* Every field has its type; free storage and dead connections carry nothing
\* over to the next object.
TypeOK ==
  /\ ls \in [LinkedServers -> LinkedServer]
  /\ conn \in [Conns -> Connection]
  /\ authid \in Nat
  /\ fault \in {"none", "Send", "DoReconnect"}
  /\ \A l \in LinkedServers : ls[l].state = "FREE" => ls[l] = NoLinkedServer
  /\ \A c \in Conns : ~conn[c].alive => conn[c] = NoConnection

\* No LinkedServer points to a Connection that was destroyed: Destroy(),
\* Remove() and the moves between connections leave no dangling pointer.
NoDangling ==
  \A l \in LinkedServers : Attached(l) => conn[ls[l].connection].alive

\* A client without a socket is a zombie with its timer running, so no handler
\* can pick it as one to send to by state (ACCOUNT_LOGIN, PLAY_SERVER,
\* GAME_LOGIN, IN_GAME), and it does not stay attached forever.
ZombieTimed ==
  \A l \in LinkedServers :
    /\ ls[l].server => Attached(l) /\ ~ls[l].zombie_timeout
    /\ Attached(l) /\ ~ls[l].server =>
         ls[l].state = "RELAY_SERVER" /\ ls[l].zombie_timeout
    /\ ls[l].zombie_timeout => Attached(l)

\* A client that has not selected its server yet is alone on a connection that
\* is not in game (asserted in HandleAccountLogin() and HandlePlayServer(),
\* which destroys that connection), and one that has sent nothing is on a
\* connection without any link (asserted in HandleGameLogin()).
LoneLogin ==
  \A l \in LinkedServers :
    Attached(l) /\ ls[l].state \in {"INIT", "ACCOUNT_LOGIN", "SERVER_LIST"} =>
      /\ \A m \in LinkedServers : ls[m].connection = ls[l].connection => m = l
      /\ ~conn[ls[l].connection].in_game
      /\ ls[l].state = "INIT" =>
           /\ conn[ls[l].connection].client = "none"
           /\ conn[ls[l].connection].connect_task = "none"

\* A client is only ever attached to a session of the account it has logged
\* in with: attach, redirect and reconnect never mix up two players.
SameAccount ==
  \A l \in LinkedServers :
    Attached(l) /\ ls[l].state # "INIT" =>
      /\ ls[l].presented # NoCred
      /\ ls[l].presented = conn[ls[l].connection].credentials

\* A playing client has a socket and plays in a session that is in game: what
\* BroadcastToInGameClients() relies on.
InGameServed ==
  \A l \in LinkedServers :
    ls[l].state = "IN_GAME" => ls[l].server /\ conn[ls[l].connection].in_game

\* A session that has lost its server is never forgotten: either the timer is
\* pending or a connect is under way.  DoReconnect() and ScheduleReconnect()
\* assert that only sessions in game reconnect.
NoLostReconnect ==
  \A c \in Conns :
    /\ conn[c].reconnecting => conn[c].in_game
    /\ conn[c].reconnect_timer => conn[c].in_game
    /\ conn[c].in_game /\ conn[c].client = "none" =>
         /\ conn[c].reconnecting
         /\ conn[c].reconnect_timer \/ conn[c].connect_task # "none"

\* A connect is under way only while there is no link: asserted in CoConnect(),
\* ConnectAsync() and StatefulClient::Connect().  Without a login server no
\* link exists before the client has selected its game server.
OneLink ==
  /\ \A c \in Conns : conn[c].connect_task # "none" => conn[c].client = "none"
  /\ ~HasLogin => \A l \in LinkedServers :
       Attached(l) /\ ls[l].state \in {"ACCOUNT_LOGIN", "SERVER_LIST"} =>
         /\ conn[ls[l].connection].client = "none"
         /\ conn[ls[l].connection].connect_task = "none"

\* Without "background" a connection lives only as long as it has clients:
\* no handler leaks one, whatever the order of hangups, moves and timeouts.
NoOrphanConnection ==
  ~Background =>
    \A c \in Conns :
      conn[c].alive => \E l \in LinkedServers : ls[l].connection = c

\* The identifier sent in a redirect names one waiting client, so a GameLogin
\* cannot take over the place of another one.
ZombieIdentity ==
  \A l \in LinkedServers :
    ls[l].state = "RELAY_SERVER" =>
      /\ ls[l].auth_id <= authid
      /\ \A m \in LinkedServers \ {l} :
           ls[m].state = "RELAY_SERVER" => ls[m].auth_id # ls[l].auth_id

-----------------------------------------------------------------------------
(***************************************************************************)
(* Action properties.                                                      *)
(***************************************************************************)
\* While two clients share a session in game, no single callback ends it:
\* neither client can take it away from the other by leaving or misbehaving,
\* and a lost server is reconnected (with "autoreconnect").
SharedSessionSurvives ==
  [][\A c \in Conns :
       /\ AutoReconnect /\ conn[c].in_game
       /\ \E l, m \in LinkedServers :
            l # m /\ ls[l].connection = c /\ ls[m].connection = c
       => conn'[c].alive]_vars

\* A playing client stays with its session: it leaves the state IN_GAME and
\* its connection only when the object is deleted.
PlayingClientStays ==
  [][\A l \in LinkedServers :
       ls[l].state = "IN_GAME" =>
         \/ ls'[l].state = "FREE"
         \/ ls'[l].state = "IN_GAME" /\ ls'[l].connection = ls[l].connection]_vars

-----------------------------------------------------------------------------
(***************************************************************************)
(* Liveness.                                                               *)
(***************************************************************************)
\* A session whose server is gone is connected again or tries to, until it
\* ends or the process aborts.
RetriesForever ==
  \A c \in Conns :
    (conn[c].in_game /\ conn[c].client = "none") ~>
      (conn[c].connect_task # "none" \/ ~conn[c].alive \/ fault # "none")

\* Without "background", a connection all of whose clients are redirected ones
\* that have hung up gets a client back or is destroyed.
AbandonedRedirectEnds ==
  \A c \in Conns :
    (conn[c].alive /\ \A l \in Servers(c) : ~ls[l].server) ~>
      \/ ~conn[c].alive
      \/ \E l \in Servers(c) : ls[l].server
      \/ fault # "none"

-----------------------------------------------------------------------------
\* Reconnect.cxx: DoReconnect() asserts that there is no link yet.  The code
\* does not keep this; a run of its own shows how.
ReconnectAssertionHolds == fault # "DoReconnect"
=============================================================================
