---------------------------- MODULE SessionProof ----------------------------
(***************************************************************************)
(* Proofs about Session: its safety invariants hold for any number of      *)
(* clients, connections and accounts, in every configuration, and          *)
(* whatever the clients and the servers send.                              *)
(***************************************************************************)
EXTENDS Session, TLAPS

\* The inductive invariant is the conjunction of the invariants that TLC
\* checks; none of them is inductive alone.
SessionInv ==
  /\ TypeOK
  /\ NoDangling
  /\ ZombieTimed
  /\ LoneLogin
  /\ SameAccount
  /\ InGameServed
  /\ NoLostReconnect
  /\ OneLink
  /\ NoOrphanConnection
  /\ ZombieIdentity

\* The part of the invariant that is about one connection.
ConnOK(r) ==
  /\ r \in Connection
  /\ ~r.alive => r = NoConnection
  /\ r.reconnecting => r.in_game
  /\ r.reconnect_timer => r.in_game
  /\ r.in_game /\ r.client = "none" =>
       r.reconnecting /\ (r.reconnect_timer \/ r.connect_task # "none")
  /\ r.connect_task # "none" => r.client = "none"

\* The connection has, or is about to have, something to do with a server: no
\* client of it can be in INIT.
Linked(c) ==
  conn[c].client # "none" \/ conn[c].connect_task # "none" \/ conn[c].in_game

\* s is the same session as r for its clients.
SameSession(r, s) ==
  ConnOK(s) /\ s.alive /\ s.in_game = r.in_game /\ s.credentials = r.credentials

-----------------------------------------------------------------------------
(***************************************************************************)
(* Types of the records the actions build.                                 *)
(***************************************************************************)
LEMMA RecordTypes ==
  /\ NoLinkedServer \in LinkedServer
  /\ NoConnection \in Connection
  /\ NewConnection \in Connection
  /\ \A c \in Conns : NewLinkedServer(c) \in LinkedServer
  BY ZenonT(60) DEF NoLinkedServer, NoConnection, NewConnection, NewLinkedServer,
         LinkedServer, Connection, State, Link

LEMMA ConnFacts ==
  ASSUME SessionInv, NEW c \in Conns
  PROVE  ConnOK(conn[c])
  BY DEF SessionInv, TypeOK, NoLostReconnect, OneLink, ConnOK

LEMMA ClientFacts ==
  ASSUME SessionInv, NEW l \in LinkedServers
  PROVE  /\ ls[l] \in LinkedServer
         /\ ls[l].server => /\ ls[l].connection \in Conns
                            /\ conn[ls[l].connection].alive
                            /\ ~ls[l].zombie_timeout
         /\ ls[l].zombie_timeout => /\ ls[l].connection \in Conns
                                    /\ conn[ls[l].connection].alive
                                    /\ ~ls[l].server
                                    /\ ls[l].state = "RELAY_SERVER"
         /\ ls[l].state = "IN_GAME" => ls[l].server
         /\ ls[l].state = "FREE" => ls[l].connection = NoConn
  BY SMTT(120) DEF SessionInv, TypeOK, ZombieTimed, NoDangling, InGameServed, Attached,
         NoLinkedServer

\* The client that packets arrive from.
LEMMA ClientConn ==
  ASSUME SessionInv, NEW l \in LinkedServers, ls[l].server
  PROVE  /\ ls[l] \in LinkedServer /\ ls[l].connection \in Conns
         /\ conn[ls[l].connection].alive
         /\ ConnOK(conn[ls[l].connection])
         /\ conn \in [Conns -> Connection]
         /\ authid \in Nat
         /\ ~ls[l].zombie_timeout
         /\ ls[l].state # "FREE"
         /\ ls[l].state # "INIT" =>
              /\ ls[l].presented # NoCred
              /\ ls[l].presented = conn[ls[l].connection].credentials
         /\ ls[l].state \in {"INIT", "ACCOUNT_LOGIN", "SERVER_LIST"} =>
              /\ \A m \in LinkedServers :
                   ls[m].connection = ls[l].connection => m = l
              /\ ~conn[ls[l].connection].in_game
  <1>1. ls[l].connection \in Conns /\ conn[ls[l].connection].alive
        /\ ls[l] \in LinkedServer /\ ~ls[l].zombie_timeout
    BY ClientFacts
  <1>2. ConnOK(conn[ls[l].connection])
    BY <1>1, ConnFacts
  <1>3. ls[l].state # "FREE"
    BY <1>1, ConfigAssumption, ClientFacts
  <1> QED
    BY <1>1, <1>2, <1>3 DEF SessionInv, TypeOK, SameAccount, LoneLogin, Attached

LEMMA LinkedAlive ==
  ASSUME SessionInv, NEW c \in Conns, Linked(c)
  PROVE  conn[c].alive
  BY DEF SessionInv, TypeOK, Linked, NoConnection

\* Disconnect() and what is built from it keep the session.
LEMMA ScheduleReconnectOK ==
  ASSUME NEW r, ConnOK(r), r.alive, r.in_game
  PROVE  SameSession(r, ScheduleReconnect(r))
  BY ZenonT(60)
     DEF ConnOK, SameSession, ScheduleReconnect, Disconnect, Connection, Link

LEMMA ReconnectOK ==
  ASSUME NEW r, ConnOK(r), r.alive, r.in_game
  PROVE  SameSession(r, Reconnect(r))
  BY ZenonT(60)
     DEF ConnOK, SameSession, Reconnect, DoReconnect, ConnectAsync, Disconnect,
         Connection, Link

LEMMA ForwardOK ==
  ASSUME NEW r, ConnOK(r), r.alive,
         NEW from \in Link \ {"none"}, NEW to \in Link \ {"none"}
  PROVE  SameSession(r, Forward(r, from, to))
  BY ZenonT(60), SMTT(60) DEF ConnOK, SameSession, Forward, Connection, Link

-----------------------------------------------------------------------------
(***************************************************************************)
(* Steps that change one connection and no client.                         *)
(***************************************************************************)
LEMMA ConnStep ==
  ASSUME SessionInv, NEW c \in Conns, NEW r,
         conn' = [conn EXCEPT ![c] = r],
         UNCHANGED <<ls, authid, fault>>,
         Linked(c), SameSession(conn[c], r)
  PROVE  SessionInv'
  <1>1. /\ conn[c].alive /\ conn'[c] = r
        /\ \A d \in Conns : d # c => conn'[d] = conn[d]
        /\ conn' \in [Conns -> Connection]
    BY LinkedAlive DEF SessionInv, TypeOK, SameSession, ConnOK
  <1>2. \A d \in Conns : /\ conn'[d].alive = conn[d].alive
                         /\ conn'[d].in_game = conn[d].in_game
                         /\ conn'[d].credentials = conn[d].credentials
                         /\ ConnOK(conn'[d])
    BY ZenonT(60), <1>1, ConnFacts DEF SameSession
  <1>3. TypeOK'
    BY <1>1, <1>2 DEF SessionInv, TypeOK, ConnOK
  <1>4. NoDangling' /\ ZombieTimed' /\ ZombieIdentity'
    BY ZenonT(60), <1>2 DEF SessionInv, NoDangling, ZombieTimed, ZombieIdentity, Attached
  <1>5. LoneLogin'
    <2>1. \A l \in LinkedServers : ls[l].state = "INIT" => ls[l].connection # c
      BY DEF SessionInv, LoneLogin, Attached, Linked
    <2> QED
      BY ZenonT(60), SMTT(60), <1>1, <1>2, <2>1 DEF SessionInv, LoneLogin, Attached
  <1>6. SameAccount'
    BY <1>2 DEF SessionInv, SameAccount, Attached
  <1>7. InGameServed'
    <2>1. \A l \in LinkedServers : ls[l].state = "IN_GAME" => ls[l].connection \in Conns
      BY DEF SessionInv, InGameServed, ZombieTimed, Attached
    <2> QED
      BY ZenonT(60), SMTT(60), <1>2, <2>1 DEF SessionInv, InGameServed
  <1>8. NoLostReconnect'
    BY <1>2 DEF NoLostReconnect, ConnOK
  <1>9. OneLink'
    <2>1. ~HasLogin => \A l \in LinkedServers :
            ls[l].state \in {"ACCOUNT_LOGIN", "SERVER_LIST"} => ls[l].connection # c
      BY ZenonT(60) DEF SessionInv, LoneLogin, OneLink, Attached, Linked
    <2> QED
      BY ZenonT(60), <1>1, <1>2, <2>1 DEF SessionInv, OneLink, Attached, ConnOK
  <1>10. NoOrphanConnection'
    BY <1>2 DEF SessionInv, NoOrphanConnection
  <1> QED
    BY <1>3, <1>4, <1>5, <1>6, <1>7, <1>8, <1>9, <1>10 DEF SessionInv

-----------------------------------------------------------------------------
(***************************************************************************)
(* Steps that destroy a connection with all its clients.                   *)
(***************************************************************************)
LEMMA DestroyStep ==
  ASSUME SessionInv, NEW c \in Conns, Destroy(c), UNCHANGED <<authid, fault>>
  PROVE  SessionInv'
  <1>1. /\ conn'[c] = NoConnection
        /\ \A d \in Conns : d # c => conn'[d] = conn[d]
        /\ conn' \in [Conns -> Connection]
    BY RecordTypes DEF SessionInv, TypeOK, Destroy
  <1>2. /\ ls' \in [LinkedServers -> LinkedServer]
        /\ \A l \in LinkedServers :
             ls'[l] = IF ls[l].connection = c THEN NoLinkedServer ELSE ls[l]
    BY RecordTypes DEF SessionInv, TypeOK, Destroy, Delete, Servers
  <1>3. \A l \in LinkedServers : \/ ls'[l] = NoLinkedServer
                                 \/ ls'[l] = ls[l] /\ ls[l].connection # c
    BY <1>2
  <1>4. NoConn \notin Conns
    BY ConfigAssumption
  <1> USE DEF NoLinkedServer
  <1>5. TypeOK'
    BY <1>1, <1>2, <1>3 DEF SessionInv, TypeOK
  <1>6. NoDangling' /\ ZombieTimed'
    BY <1>1, <1>3, <1>4 DEF SessionInv, NoDangling, ZombieTimed, Attached
  <1>7. LoneLogin'
    BY <1>1, <1>3, <1>4 DEF SessionInv, LoneLogin, Attached
  <1>8. SameAccount'
    BY <1>1, <1>3, <1>4 DEF SessionInv, SameAccount, Attached
  <1>9. InGameServed'
    <2>1. \A l \in LinkedServers : ls[l].state = "IN_GAME" => ls[l].connection \in Conns
      BY DEF SessionInv, InGameServed, ZombieTimed, Attached
    <2> QED
      BY <1>1, <1>3, <2>1 DEF SessionInv, InGameServed
  <1>10. NoLostReconnect'
    BY SMTT(120), <1>1 DEF SessionInv, NoLostReconnect, NoConnection
  <1>11. OneLink'
    BY <1>1, <1>3, <1>4 DEF SessionInv, OneLink, Attached, NoConnection
  <1>12. NoOrphanConnection'
    <2> SUFFICES ASSUME ~Background, NEW d \in Conns, conn'[d].alive
                 PROVE  \E l \in LinkedServers : ls'[l].connection = d
      BY DEF NoOrphanConnection
    <2>1. d # c /\ conn[d].alive
      BY <1>1 DEF NoConnection
    <2>2. PICK l \in LinkedServers : ls[l].connection = d
      BY <2>1 DEF SessionInv, NoOrphanConnection
    <2> QED
      BY <1>2, <2>1, <2>2
  <1>13. ZombieIdentity'
    BY SMTT(120), <1>3 DEF SessionInv, ZombieIdentity
  <1> QED
    BY <1>5, <1>6, <1>7, <1>8, <1>9, <1>10, <1>11, <1>12, <1>13 DEF SessionInv

-----------------------------------------------------------------------------
(***************************************************************************)
(* Steps by which one client leaves its connection, which is destroyed or  *)
(* kept for the others.                                                    *)
(***************************************************************************)
LEMMA LeaveStep ==
  ASSUME SessionInv, UNCHANGED <<authid, fault>>,
         NEW l \in LinkedServers, NEW c \in Conns, ls[l].connection = c,
         NEW x \in LinkedServer, NEW r \in Connection,
         ls' \in [LinkedServers -> LinkedServer], ls'[l] = x,
         \A m \in LinkedServers : m # l => ls'[m] = ls[m],
         conn' \in [Conns -> Connection], conn'[c] = r,
         \A d \in Conns : d # c => conn'[d] = conn[d],
         x.connection = NoConn, ~x.server, ~x.zombie_timeout,
         x.state # "IN_GAME", x.state = "FREE" => x = NoLinkedServer,
         x.state = "RELAY_SERVER" =>
           ls[l].state = "RELAY_SERVER" /\ x.auth_id = ls[l].auth_id,
         \/ /\ r = NoConnection
            /\ \A m \in LinkedServers : ls[m].connection = c => m = l
         \/ /\ SameSession(conn[c], r)
            /\ r.client = conn[c].client /\ r.connect_task = conn[c].connect_task
            /\ Background \/ \E m \in LinkedServers : m # l /\ ls[m].connection = c
  PROVE  SessionInv'
  <1>1. NoConn \notin Conns
    BY ZenonT(60), ConfigAssumption
  <1>2. \A d \in Conns : ConnOK(conn'[d])
    BY SMTT(120), ConnFacts, RecordTypes DEF SameSession, ConnOK, NoConnection
  <1>3. \A m \in LinkedServers : m # l /\ ls[m].connection \in Conns =>
          LET d == ls[m].connection
          IN /\ ls'[m] = ls[m]
             /\ conn'[d].alive = conn[d].alive
             /\ conn'[d].in_game = conn[d].in_game
             /\ conn'[d].credentials = conn[d].credentials
             /\ conn'[d].client = conn[d].client
             /\ conn'[d].connect_task = conn[d].connect_task
    <2>1. conn[c].alive
      BY DEF SessionInv, NoDangling, Attached
    <2> QED
      BY SMTT(120), <2>1, ConnFacts DEF SameSession, ConnOK, Connection
  <1>4. TypeOK'
    BY ZenonT(60), SMTT(60), <1>2 DEF SessionInv, TypeOK, ConnOK
  <1>5. NoDangling' /\ ZombieTimed'
    BY SMTT(120), <1>1, <1>3 DEF SessionInv, NoDangling, ZombieTimed, Attached
  <1>6. LoneLogin'
    BY SMTT(120), <1>1, <1>3 DEF SessionInv, LoneLogin, Attached
  <1>7. SameAccount'
    BY SMTT(120), <1>1, <1>3 DEF SessionInv, SameAccount, Attached
  <1>8. InGameServed'
    BY ZenonT(60), SMTT(60), <1>3, ClientFacts DEF SessionInv, InGameServed
  <1>9. NoLostReconnect'
    BY ZenonT(60), <1>2 DEF NoLostReconnect, ConnOK
  <1>10. OneLink'
    <2>1. \A d \in Conns : conn'[d].connect_task # "none" => conn'[d].client = "none"
      BY <1>2 DEF ConnOK
    <2> QED
      BY SMTT(120), <1>1, <1>3, <2>1 DEF SessionInv, OneLink, Attached
  <1>11. NoOrphanConnection'
    <2> SUFFICES ASSUME ~Background, NEW d \in Conns, conn'[d].alive
                 PROVE  \E m \in LinkedServers : ls'[m].connection = d
      BY DEF NoOrphanConnection
    <2>1. CASE d = c
      BY SMTT(120), <2>1 DEF NoConnection
    <2>2. CASE d # c
      <3>1. PICK m \in LinkedServers : ls[m].connection = d
        BY <2>2 DEF SessionInv, NoOrphanConnection
      <3> QED
        BY <2>2, <3>1
    <2> QED
      BY <2>1, <2>2
  <1>12. ZombieIdentity'
    <2>1. \A m \in LinkedServers : ls'[m].state = "RELAY_SERVER" =>
            ls[m].state = "RELAY_SERVER" /\ ls'[m].auth_id = ls[m].auth_id
      BY ZenonT(60)
    <2> QED
      BY SMTT(120), <2>1 DEF SessionInv, ZombieIdentity
  <1> QED
    BY <1>4, <1>5, <1>6, <1>7, <1>8, <1>9, <1>10, <1>11, <1>12 DEF SessionInv

-----------------------------------------------------------------------------
(***************************************************************************)
(* Steps by which one client advances on its connection.  The connection   *)
(* may change with it in ways that only a lone client would notice.        *)
(***************************************************************************)
Advances(l, c, x, r) ==
  /\ ls[l].connection = c
  /\ ls' \in [LinkedServers -> LinkedServer] /\ ls'[l] = x
  /\ \A m \in LinkedServers : m # l => ls'[m] = ls[m]
  /\ conn' \in [Conns -> Connection] /\ conn'[c] = r
  /\ \A d \in Conns : d # c => conn'[d] = conn[d]
  /\ authid' \in Nat /\ authid <= authid'
  /\ x.connection = c /\ x.state \notin {"FREE", "INIT"}
  /\ x.presented # NoCred /\ x.presented = r.credentials
  /\ \/ x.server /\ ~x.zombie_timeout
     \/ ~x.server /\ x.zombie_timeout /\ x.state = "RELAY_SERVER"
  /\ x.state = "IN_GAME" => x.server /\ r.in_game
  /\ x.state = "RELAY_SERVER" =>
       \/ ls[l].state = "RELAY_SERVER" /\ x.auth_id = ls[l].auth_id
       \/ x.auth_id = authid' /\ authid' # authid
  /\ ConnOK(r) /\ r.alive
  /\ \/ \A m \in LinkedServers : ls[m].connection = c => m = l
     \/ /\ r.in_game = conn[c].in_game
        /\ r.credentials = conn[c].credentials
        /\ x.state \notin {"ACCOUNT_LOGIN", "SERVER_LIST"}
  /\ x.state \in {"ACCOUNT_LOGIN", "SERVER_LIST"} =>
       /\ ~r.in_game
       /\ ~HasLogin => r.client = "none" /\ r.connect_task = "none"

LEMMA ClientStep ==
  ASSUME SessionInv, UNCHANGED fault,
         NEW l \in LinkedServers, NEW c \in Conns,
         NEW x \in LinkedServer, NEW r, Advances(l, c, x, r)
  PROVE  SessionInv'
  <1> USE DEF Advances
  <1>1. NoConn \notin Conns
    BY ConfigAssumption
  <1>2. \A d \in Conns : ConnOK(conn'[d])
    BY ZenonT(60), ConnFacts
  <1>3. \A m \in LinkedServers : m # l /\ ls[m].connection \in Conns =>
          LET d == ls[m].connection
          IN /\ ls'[m] = ls[m]
             /\ conn'[d].alive = conn[d].alive
             /\ conn'[d].in_game = conn[d].in_game
             /\ conn'[d].credentials = conn[d].credentials
    <2>1. conn[c].alive /\ conn[c].alive \in BOOLEAN /\ r.alive \in BOOLEAN
      BY ConnFacts DEF SessionInv, NoDangling, Attached, ConnOK, Connection
    <2> QED
      BY ZenonT(60), <2>1
  <1>4. \A m \in LinkedServers :
          /\ m # l
          /\ ls[m].connection \in Conns
          /\ ls[m].state \in {"INIT", "ACCOUNT_LOGIN", "SERVER_LIST"}
          => ls[m].connection # c
    BY DEF SessionInv, LoneLogin, Attached
  <1>5. TypeOK'
    BY ZenonT(60), SMTT(60), <1>2 DEF SessionInv, TypeOK, ConnOK
  <1>6. NoDangling'
    BY <1>1, <1>3 DEF SessionInv, NoDangling, Attached
  <1>7. ZombieTimed'
    BY ZenonT(60), SMTT(60), <1>1, <1>3 DEF SessionInv, ZombieTimed, Attached
  <1>8. LoneLogin'
    <2> SUFFICES ASSUME NEW m \in LinkedServers, ls'[m].connection \in Conns,
                        ls'[m].state \in {"INIT", "ACCOUNT_LOGIN", "SERVER_LIST"}
                 PROVE  LET d == ls'[m].connection
                        IN /\ \A k \in LinkedServers : ls'[k].connection = d => k = m
                           /\ ~conn'[d].in_game
                           /\ ls'[m].state = "INIT" =>
                                /\ conn'[d].client = "none"
                                /\ conn'[d].connect_task = "none"
      BY ZenonT(60) DEF LoneLogin, Attached
    <2>1. CASE m = l
      BY ZenonT(60), SMTT(60), <2>1
    <2>2. CASE m # l
      BY SMTT(120), <2>2, <1>3, <1>4 DEF SessionInv, LoneLogin, Attached
    <2> QED
      BY ZenonT(60), <2>1, <2>2
  <1>9. SameAccount'
    BY SMTT(120), <1>1, <1>3 DEF SessionInv, SameAccount, Attached
  <1>10. InGameServed'
    BY ZenonT(60), SMTT(60), <1>3, ClientFacts DEF SessionInv, InGameServed
  <1>11. NoLostReconnect'
    BY ZenonT(60), <1>2 DEF NoLostReconnect, ConnOK
  <1>12. OneLink'
    <2>1. \A d \in Conns : conn'[d].connect_task # "none" => conn'[d].client = "none"
      BY ZenonT(60), <1>2 DEF ConnOK
    <2> QED
      BY SMTT(120), <1>1, <1>3, <1>4, <2>1 DEF SessionInv, OneLink, Attached
  <1>13. NoOrphanConnection'
    <2> SUFFICES ASSUME ~Background, NEW d \in Conns, conn'[d].alive
                 PROVE  \E m \in LinkedServers : ls'[m].connection = d
      BY ZenonT(60) DEF NoOrphanConnection
    <2>1. CASE d = c
      BY ZenonT(60), <2>1
    <2>2. CASE d # c
      <3>1. PICK m \in LinkedServers : ls[m].connection = d
        BY ZenonT(60), <2>2 DEF SessionInv, NoOrphanConnection
      <3> QED
        BY ZenonT(60), <2>2, <3>1
    <2> QED
      BY <2>1, <2>2
  <1>14. ZombieIdentity'
    <2>1. \A m \in LinkedServers : m # l => ls'[m] = ls[m]
      BY ZenonT(60)
    <2>2. \A m \in LinkedServers : ls[m].auth_id \in Nat /\ ls'[m].auth_id \in Nat
      BY ZenonT(60) DEF SessionInv, TypeOK, LinkedServer
    <2>3. authid \in Nat
      BY DEF SessionInv, TypeOK
    <2>4. \A m \in LinkedServers : ls[m].state = "RELAY_SERVER" => ls[m].auth_id <= authid
      BY ZenonT(60) DEF SessionInv, ZombieIdentity
    <2> QED
      BY SMTT(120), <2>1, <2>2, <2>3, <2>4 DEF SessionInv, ZombieIdentity
  <1> QED
    BY ZenonT(60), <1>5, <1>6, <1>7, <1>8, <1>9, <1>10, <1>11, <1>12, <1>13, <1>14
       DEF SessionInv

-----------------------------------------------------------------------------
(***************************************************************************)
(* Steps that move one client, alone on its connection, to another one;    *)
(* the zombies D it replaces there are deleted.                            *)
(***************************************************************************)
Moves(l, c, d, D, x) ==
  /\ ls[l].connection = c /\ ls[l].server /\ c # d
  /\ ls[l].state \in {"INIT", "ACCOUNT_LOGIN", "SERVER_LIST"}
  /\ \A m \in D : ls[m].connection = d
  /\ conn[d].in_game \/ \E z \in LinkedServers :
       ls[z].connection = d /\ ls[z].state = "RELAY_SERVER"
  /\ conn' = [conn EXCEPT ![c] = NoConnection]
  /\ ls' \in [LinkedServers -> LinkedServer] /\ ls'[l] = x
  /\ \A m \in LinkedServers :
       /\ m # l /\ m \in Servers(c) \cup D => ls'[m] = NoLinkedServer
       /\ m # l /\ m \notin Servers(c) \cup D => ls'[m] = ls[m]
  /\ authid' \in Nat /\ authid <= authid'
  /\ x.connection = d /\ x.server /\ ~x.zombie_timeout
  /\ x.state \notin {"FREE", "INIT", "ACCOUNT_LOGIN", "SERVER_LIST"}
  /\ x.presented # NoCred /\ x.presented = conn[d].credentials
  /\ x.state = "IN_GAME" => conn[d].in_game
  /\ x.state = "RELAY_SERVER" => x.auth_id = authid' /\ authid' # authid

LEMMA MoveStep ==
  ASSUME SessionInv, UNCHANGED fault,
         NEW l \in LinkedServers, NEW c \in Conns, NEW d \in Conns,
         NEW D \in SUBSET LinkedServers, NEW x \in LinkedServer,
         Moves(l, c, d, D, x)
  PROVE  SessionInv'
  <1> USE DEF Moves
  <1>1. \A m \in LinkedServers : ls[m].connection = c => m = l
    BY ClientConn
  <1>2. l \notin D
    BY ZenonT(60)
  <1>3. \A m \in LinkedServers :
          /\ m # l /\ m \in D => ls'[m] = NoLinkedServer
          /\ m # l /\ m \notin D => ls'[m] = ls[m]
    BY ZenonT(60), <1>1 DEF Servers
  <1>4. conn[d].alive
    <2>1. CASE conn[d].in_game
      BY <2>1, LinkedAlive DEF Linked
    <2>2. CASE ~conn[d].in_game
      BY <2>2 DEF SessionInv, NoDangling, Attached
    <2> QED
      BY <2>1, <2>2
  <1>5. \A m \in LinkedServers : ls[m].connection = d =>
          ls[m].state \notin {"INIT", "ACCOUNT_LOGIN", "SERVER_LIST"}
    <2> SUFFICES ASSUME NEW m \in LinkedServers, ls[m].connection = d,
                        ls[m].state \in {"INIT", "ACCOUNT_LOGIN", "SERVER_LIST"}
                 PROVE  FALSE
      BY ZenonT(60)
    <2>1. /\ \A k \in LinkedServers : ls[k].connection = d => k = m
          /\ ~conn[d].in_game
      BY SMTT(120) DEF SessionInv, LoneLogin, Attached
    <2> QED
      BY <2>1
  <1>6. NoConn \notin Conns
    BY ZenonT(60), ConfigAssumption
  <1>7. /\ conn' \in [Conns -> Connection] /\ conn'[c] = NoConnection
        /\ \A e \in Conns : e # c => conn'[e] = conn[e]
    BY ZenonT(60), RecordTypes DEF SessionInv, TypeOK
  <1>8. \A m \in LinkedServers : m # l =>
          \/ ls'[m] = NoLinkedServer
          \/ ls'[m] = ls[m] /\ ls[m].connection # c
    BY ZenonT(60), <1>1, <1>3
  <1> USE DEF NoLinkedServer
  <1>9. TypeOK'
    BY SMTT(120), <1>7, <1>8 DEF SessionInv, TypeOK
  <1>10. NoDangling' /\ ZombieTimed'
    BY SMTT(120), <1>4, <1>6, <1>7, <1>8
       DEF SessionInv, NoDangling, ZombieTimed, Attached
  <1>11. LoneLogin'
    <2> SUFFICES ASSUME NEW m \in LinkedServers, ls'[m].connection \in Conns,
                        ls'[m].state \in {"INIT", "ACCOUNT_LOGIN", "SERVER_LIST"}
                 PROVE  LET e == ls'[m].connection
                        IN /\ \A k \in LinkedServers : ls'[k].connection = e => k = m
                           /\ ~conn'[e].in_game
                           /\ ls'[m].state = "INIT" =>
                                /\ conn'[e].client = "none"
                                /\ conn'[e].connect_task = "none"
      BY ZenonT(60), SMTT(60) DEF LoneLogin, Attached
    <2>1. m # l /\ ls'[m] = ls[m] /\ ls[m].connection # c /\ ls[m].connection # d
      BY SMTT(120), <1>3, <1>5, <1>6, <1>8
    <2> QED
      BY SMTT(120), <1>6, <1>7, <1>8, <2>1 DEF SessionInv, LoneLogin, Attached
  <1>12. SameAccount'
    BY SMTT(120), <1>6, <1>7, <1>8 DEF SessionInv, SameAccount, Attached
  <1>13. InGameServed'
    BY SMTT(120), <1>7, <1>8, ClientFacts DEF SessionInv, InGameServed
  <1>14. NoLostReconnect'
    BY ZenonT(60), SMTT(60), <1>7 DEF SessionInv, NoLostReconnect, NoConnection
  <1>15. OneLink'
    BY SMTT(120), <1>6, <1>7, <1>8
       DEF SessionInv, OneLink, Attached, NoConnection
  <1>16. NoOrphanConnection'
    <2> SUFFICES ASSUME ~Background, NEW e \in Conns, conn'[e].alive
                 PROVE  \E m \in LinkedServers : ls'[m].connection = e
      BY ZenonT(60), SMTT(60) DEF NoOrphanConnection
    <2>1. e # c /\ conn[e].alive
      BY ZenonT(60), <1>7 DEF NoConnection
    <2>2. PICK m \in LinkedServers : ls[m].connection = e
      BY ZenonT(60), SMTT(60), <2>1 DEF SessionInv, NoOrphanConnection
    <2>3. CASE e = d
      BY ZenonT(60), SMTT(60), <2>3
    <2>4. CASE e # d
      BY ZenonT(60), SMTT(60), <1>3, <2>1, <2>2, <2>4
    <2> QED
      BY ZenonT(60), SMTT(60), <2>3, <2>4
  <1>17. ZombieIdentity'
    <2>1. \A m \in LinkedServers : ls[m].auth_id \in Nat
      BY ZenonT(60) DEF SessionInv, TypeOK, LinkedServer
    <2>2. authid \in Nat
      BY ZenonT(60), SMTT(60) DEF SessionInv, TypeOK
    <2>3. \A m \in LinkedServers : ls[m].state = "RELAY_SERVER" => ls[m].auth_id <= authid
      BY ZenonT(60) DEF SessionInv, ZombieIdentity
    <2> QED
      BY SMTT(120), <1>8, <2>1, <2>2, <2>3 DEF SessionInv, ZombieIdentity
  <1> QED
    BY ZenonT(60), SMTT(60), <1>9, <1>10, <1>11, <1>12, <1>13, <1>14, <1>15, <1>16, <1>17
       DEF SessionInv

-----------------------------------------------------------------------------
(***************************************************************************)
(* Steps of the server that advance several clients of one connection.     *)
(***************************************************************************)
Broadcasts(c, T, X, r) ==
  /\ conn[c].client # "none"
  /\ ls' \in [LinkedServers -> LinkedServer]
  /\ \A l \in LinkedServers \ T : ls'[l] = ls[l]
  /\ \A l \in T : /\ ls'[l].state = X
                  /\ ls'[l].connection = ls[l].connection
                  /\ ls'[l].server = ls[l].server
                  /\ ls'[l].zombie_timeout = ls[l].zombie_timeout
                  /\ ls'[l].presented = ls[l].presented
                  /\ ls[l].server /\ ls[l].state # "INIT"
  /\ X = "SERVER_LIST" => \A l \in T : ls[l].state = "ACCOUNT_LOGIN"
  /\ X = "IN_GAME" => r.in_game
  /\ conn' = [conn EXCEPT ![c] = r]
  /\ ConnOK(r) /\ r.alive /\ r.client # "none"
  /\ r.credentials = conn[c].credentials
  /\ (r.in_game = conn[c].in_game) \/ (T = Servers(c) /\ X = "IN_GAME")

LEMMA BroadcastStep ==
  ASSUME SessionInv, UNCHANGED <<authid, fault>>,
         NEW c \in Conns, NEW T \in SUBSET Servers(c),
         NEW X \in {"SERVER_LIST", "CHAR_LIST", "IN_GAME"}, NEW r,
         Broadcasts(c, T, X, r)
  PROVE  SessionInv'
  <1> USE DEF Broadcasts
  <1>1. NoConn \notin Conns
    BY ZenonT(60), SMTT(60), ConfigAssumption
  <1>2. /\ conn' \in [Conns -> Connection] /\ conn'[c] = r
        /\ \A d \in Conns : d # c => conn'[d] = conn[d]
        /\ \A d \in Conns : ConnOK(conn'[d])
    BY ZenonT(60), ConnFacts DEF SessionInv, TypeOK, ConnOK
  <1>3. conn[c].alive
    BY ZenonT(60), LinkedAlive DEF Linked
  <1>4. \A l \in LinkedServers : \/ ls'[l] = ls[l]
                                 \/ ls[l].connection = c /\ l \in T
    BY ZenonT(60) DEF Servers
  <1>5. \A l \in LinkedServers : ls'[l].connection = ls[l].connection
    BY ZenonT(60), <1>4
  <1>6. \A l \in LinkedServers : ls[l].connection = c => ls[l].state # "INIT"
    BY ZenonT(60), SMTT(60) DEF SessionInv, LoneLogin, Attached
  <1>7. TypeOK'
    BY SMTT(120), <1>2, <1>4 DEF SessionInv, TypeOK, ConnOK
  <1>8. NoDangling'
    BY ZenonT(60), SMTT(60), <1>2, <1>5 DEF SessionInv, NoDangling, Attached
  <1>9. ZombieTimed'
    BY ZenonT(60), SMTT(60), <1>4, <1>5 DEF SessionInv, ZombieTimed, Attached
  <1>10. LoneLogin'
    <2> SUFFICES ASSUME NEW m \in LinkedServers, ls'[m].connection \in Conns,
                        ls'[m].state \in {"INIT", "ACCOUNT_LOGIN", "SERVER_LIST"}
                 PROVE  LET e == ls'[m].connection
                        IN /\ \A k \in LinkedServers : ls'[k].connection = e => k = m
                           /\ ~conn'[e].in_game
                           /\ ls'[m].state = "INIT" =>
                                /\ conn'[e].client = "none"
                                /\ conn'[e].connect_task = "none"
      BY ZenonT(60) DEF LoneLogin, Attached
    <2>1. ls[m].state \in {"INIT", "ACCOUNT_LOGIN", "SERVER_LIST"}
      BY ZenonT(60), <1>4
    <2>2. ls'[m].state = "INIT" => ls[m].connection # c
      BY ZenonT(60), <1>4, <1>6
    <2>3. ls[m].connection = c => r.in_game = conn[c].in_game
      BY ZenonT(60) DEF Servers
    <2> QED
      BY SMTT(120), <1>2, <1>4, <1>5, <2>1, <2>2, <2>3
         DEF SessionInv, LoneLogin, Attached
  <1>11. SameAccount'
    BY SMTT(120), <1>2, <1>4, <1>5, <1>6 DEF SessionInv, SameAccount, Attached
  <1>12. InGameServed'
    <2> SUFFICES ASSUME NEW m \in LinkedServers, ls'[m].state = "IN_GAME"
                 PROVE  ls'[m].server /\ conn'[ls'[m].connection].in_game
      BY ZenonT(60) DEF InGameServed
    <2>1. CASE m \in T
      BY SMTT(120), <2>1, <1>2 DEF Servers
    <2>2. CASE m \notin T
      <3>1. /\ ls'[m] = ls[m] /\ ls[m].server /\ ls[m].connection \in Conns
            /\ conn[ls[m].connection].in_game
        BY ZenonT(60), SMTT(60), <2>2, ClientFacts DEF SessionInv, InGameServed
      <3>2. ls[m].connection = c => r.in_game
        BY ZenonT(60), SMTT(60), <2>2, <3>1 DEF Servers
      <3> QED
        BY ZenonT(60), SMTT(60), <1>2, <3>1, <3>2
    <2> QED
      BY ZenonT(60), <2>1, <2>2
  <1>13. NoLostReconnect'
    BY ZenonT(60), SMTT(60), <1>2 DEF NoLostReconnect, ConnOK
  <1>14. OneLink'
    <2>1. \A d \in Conns : conn'[d].connect_task # "none" => conn'[d].client = "none"
      BY ZenonT(60), <1>2 DEF ConnOK
    <2>2. ~HasLogin => \A l \in LinkedServers :
            ls[l].state \in {"ACCOUNT_LOGIN", "SERVER_LIST"} => ls[l].connection # c
      BY ZenonT(60), SMTT(60) DEF SessionInv, OneLink, Attached
    <2>3. ~HasLogin => \A l \in LinkedServers :
            ls'[l].state \in {"ACCOUNT_LOGIN", "SERVER_LIST"} => ls'[l] = ls[l]
      BY ZenonT(60), SMTT(60), <1>4, <2>2
    <2> QED
      BY SMTT(120), <1>2, <2>1, <2>2, <2>3 DEF SessionInv, OneLink, Attached
  <1>15. NoOrphanConnection'
    BY SMTT(120), <1>2, <1>3, <1>5 DEF SessionInv, NoOrphanConnection
  <1>16. ZombieIdentity'
    <2>1. \A m \in LinkedServers : ls'[m].state = "RELAY_SERVER" => ls'[m] = ls[m]
      BY ZenonT(60), SMTT(60), <1>4
    <2> QED
      BY SMTT(120), <2>1 DEF SessionInv, ZombieIdentity
  <1> QED
    BY ZenonT(60), SMTT(60), <1>7, <1>8, <1>9, <1>10, <1>11, <1>12, <1>13, <1>14, <1>15, <1>16
       DEF SessionInv

\* A step that changes nothing but the assertion that has failed.
LEMMA FaultStep ==
  ASSUME SessionInv, UNCHANGED <<ls, conn, authid>>,
         fault' \in {"none", "Send", "DoReconnect"}
  PROVE  SessionInv'
  BY ZenonT(60)
     DEF SessionInv, TypeOK, NoDangling, ZombieTimed, LoneLogin, SameAccount,
         InGameServed, NoLostReconnect, OneLink, NoOrphanConnection,
         ZombieIdentity, Attached

LEMMA InitSessionInv ==
  ASSUME Init
  PROVE  SessionInv
  <1>1. NoConn \notin Conns
    BY ConfigAssumption
  <1>2. TypeOK
    BY RecordTypes DEF Init, TypeOK
  <1>3. \A l \in LinkedServers :
          /\ ls[l].state = "FREE" /\ ls[l].connection = NoConn
          /\ ~ls[l].server /\ ~ls[l].zombie_timeout
    BY DEF Init, NoLinkedServer
  <1>4. \A c \in Conns :
          /\ ~conn[c].alive /\ ~conn[c].reconnecting /\ ~conn[c].reconnect_timer
          /\ ~conn[c].in_game /\ conn[c].connect_task = "none"
    BY DEF Init, NoConnection
  <1>5. NoDangling /\ LoneLogin /\ SameAccount
    BY <1>1, <1>3 DEF NoDangling, LoneLogin, SameAccount, Attached
  <1>6. ZombieTimed /\ InGameServed /\ ZombieIdentity
    BY <1>1, <1>3 DEF ZombieTimed, InGameServed, ZombieIdentity, Attached
  <1>7. NoLostReconnect /\ OneLink /\ NoOrphanConnection
    BY <1>1, <1>3, <1>4
       DEF NoLostReconnect, OneLink, NoOrphanConnection, Attached
  <1> QED
    BY <1>2, <1>5, <1>6, <1>7 DEF SessionInv

-----------------------------------------------------------------------------
(***************************************************************************)
(* The callbacks of the client side.                                       *)
(***************************************************************************)
LEMMA DeleteOne ==
  ASSUME SessionInv, NEW l \in LinkedServers, ls' = Delete({l})
  PROVE  /\ ls' \in [LinkedServers -> LinkedServer]
         /\ ls'[l] = NoLinkedServer
         /\ \A m \in LinkedServers : m # l => ls'[m] = ls[m]
  BY ZenonT(60), SMTT(60), RecordTypes DEF SessionInv, TypeOK, Delete

LEMMA RejectClientStep ==
  ASSUME SessionInv, UNCHANGED <<authid, fault>>,
         NEW l \in LinkedServers, ls[l].server, NEW r,
         SameSession(conn[ls[l].connection], r),
         r.client = conn[ls[l].connection].client,
         r.connect_task = conn[ls[l].connection].connect_task,
         RejectClient(l, r)
  PROVE  SessionInv'
  <1> DEFINE c == ls[l].connection
             s == IF Servers(c) = {l} /\ ~Background THEN NoConnection ELSE r
  <1>1. c \in Conns
    BY ZenonT(60), SMTT(60), ClientFacts
  <1>2. s \in Connection
    BY RecordTypes DEF SameSession, ConnOK
  <1>3. conn' = [conn EXCEPT ![c] = s]
    BY ZenonT(60), SMTT(60) DEF RejectClient
  <1>4. /\ conn' \in [Conns -> Connection] /\ conn'[c] = s
        /\ \A d \in Conns : d # c => conn'[d] = conn[d]
    BY ZenonT(60), <1>1, <1>2, <1>3 DEF SessionInv, TypeOK
  <1>5. ls' = Delete({l})
    BY ZenonT(60), SMTT(60) DEF RejectClient
  <1>6. \/ /\ s = NoConnection
           /\ \A m \in LinkedServers : ls[m].connection = c => m = l
        \/ /\ s = r
           /\ Background \/ \E m \in LinkedServers : m # l /\ ls[m].connection = c
    BY ZenonT(60) DEF Servers
  <1>7. NoLinkedServer \in LinkedServer
    BY ZenonT(60), RecordTypes
  <1> HIDE DEF c, s
  <1>8. ls[l].connection = c /\ SameSession(conn[c], r)
        /\ r.client = conn[c].client /\ r.connect_task = conn[c].connect_task
    BY ZenonT(60), SMTT(60) DEF c
  <1>9. /\ ls' \in [LinkedServers -> LinkedServer]
        /\ ls'[l] = NoLinkedServer
        /\ \A m \in LinkedServers : m # l => ls'[m] = ls[m]
    BY ZenonT(60), SMTT(60), <1>5, DeleteOne
  <1>10. /\ NoLinkedServer.connection = NoConn /\ ~NoLinkedServer.server
         /\ ~NoLinkedServer.zombie_timeout /\ NoLinkedServer.state = "FREE"
    BY ZenonT(60), SMTT(60) DEF NoLinkedServer
  <1>11. \/ /\ s = NoConnection
            /\ \A m \in LinkedServers : ls[m].connection = c => m = l
         \/ /\ SameSession(conn[c], s)
            /\ s.client = conn[c].client /\ s.connect_task = conn[c].connect_task
            /\ Background \/ \E m \in LinkedServers : m # l /\ ls[m].connection = c
    BY ZenonT(60), <1>6, <1>8
  <1> QED
    BY ZenonT(60), SMTT(60), <1>1, <1>2, <1>4, <1>7, <1>8, <1>9, <1>10, <1>11, LeaveStep

LEMMA RejectUnchanged ==
  ASSUME SessionInv, UNCHANGED <<authid, fault>>,
         NEW l \in LinkedServers, ls[l].server,
         RejectClient(l, conn[ls[l].connection])
  PROVE  SessionInv'
  <1>1. SameSession(conn[ls[l].connection], conn[ls[l].connection])
    BY ZenonT(60), SMTT(60), ClientFacts, ConnFacts DEF SameSession
  <1> QED
    BY ZenonT(60), SMTT(60), <1>1, RejectClientStep

\* The two ways of RemoveCheckEmpty().
LEMMA RemoveCheckEmptyStep ==
  ASSUME SessionInv, UNCHANGED <<authid, fault>>,
         NEW l \in LinkedServers, NEW c \in Conns, ls[l].connection = c,
         NEW x \in LinkedServer,
         RemoveCheckEmpty(l),
         ls' \in [LinkedServers -> LinkedServer], ls'[l] = x,
         \A m \in LinkedServers : m # l => ls'[m] = ls[m],
         x.connection = NoConn, ~x.server, ~x.zombie_timeout,
         x.state # "IN_GAME", x.state = "FREE" => x = NoLinkedServer,
         x.state = "RELAY_SERVER" =>
           ls[l].state = "RELAY_SERVER" /\ x.auth_id = ls[l].auth_id
  PROVE  SessionInv'
  <1>1. conn[c].alive
    BY ZenonT(60), SMTT(60) DEF SessionInv, NoDangling, Attached
  <1>2. CASE /\ conn' = [conn EXCEPT ![c] = NoConnection]
             /\ Servers(c) = {l}
    <2>1. /\ conn' \in [Conns -> Connection] /\ conn'[c] = NoConnection
          /\ \A d \in Conns : d # c => conn'[d] = conn[d]
      BY ZenonT(60), <1>2, RecordTypes DEF SessionInv, TypeOK
    <2>2. \A m \in LinkedServers : ls[m].connection = c => m = l
      BY ZenonT(60), <1>2 DEF Servers
    <2>3. NoConnection \in Connection
      BY ZenonT(60), SMTT(60), RecordTypes
    <2> QED
      BY ZenonT(60), <2>1, <2>2, <2>3, LeaveStep
  <1>3. CASE conn' = conn /\ (Servers(c) # {l} \/ Background)
    <2>1. Background \/ \E m \in LinkedServers : m # l /\ ls[m].connection = c
      BY ZenonT(60), <1>3 DEF Servers
    <2>2. SameSession(conn[c], conn[c])
      BY ZenonT(60), <1>1, ConnFacts DEF SameSession
    <2>3. conn \in [Conns -> Connection]
      BY ZenonT(60) DEF SessionInv, TypeOK
    <2>4. conn[c] \in Connection
      BY ZenonT(60), <2>3
    <2> DEFINE r == conn[c]
    <2>5. /\ conn' \in [Conns -> Connection] /\ conn'[c] = r
          /\ \A d \in Conns : d # c => conn'[d] = conn[d]
      BY ZenonT(60), <1>3, <2>3
    <2>6. r \in Connection /\ SameSession(conn[c], r)
          /\ r.client = conn[c].client /\ r.connect_task = conn[c].connect_task
      BY ZenonT(60), <2>2, <2>4
    <2> HIDE DEF r
    <2> QED
      BY ZenonT(60), SMTT(60), <2>1, <2>5, <2>6, LeaveStep
  <1> QED
    BY ZenonT(60), <1>2, <1>3 DEF RemoveCheckEmpty

LEMMA OnAcceptInv ==
  ASSUME SessionInv, NEW l \in LinkedServers, NEW c \in Conns, OnAccept(l, c)
  PROVE  SessionInv'
  <1>1. /\ ls' \in [LinkedServers -> LinkedServer]
        /\ ls'[l] = NewLinkedServer(c)
        /\ \A m \in LinkedServers : m # l => ls'[m] = ls[m]
        /\ conn' \in [Conns -> Connection]
        /\ conn'[c] = NewConnection
        /\ \A d \in Conns : d # c => conn'[d] = conn[d]
    BY RecordTypes DEF OnAccept, SessionInv, TypeOK
  <1>2. \A m \in LinkedServers : ls[m].connection # c
    BY ZenonT(60) DEF OnAccept, SessionInv, NoDangling, Attached
  <1>3. ls[l].connection \notin Conns
    BY ConfigAssumption, ClientFacts DEF OnAccept
  <1>4. UNCHANGED <<authid, fault>>
    BY DEF OnAccept
  <1>5. LET x == NewLinkedServer(c)
         IN /\ x.state = "INIT" /\ x.connection = c /\ x.server
            /\ ~x.zombie_timeout
    BY DEF NewLinkedServer, NoLinkedServer
  <1>6. /\ NewConnection.alive /\ NewConnection.client = "none"
         /\ NewConnection.connect_task = "none" /\ ~NewConnection.in_game
         /\ ~NewConnection.reconnecting /\ ~NewConnection.reconnect_timer
    BY ZenonT(60) DEF NewConnection, NoConnection
  <1>7. TypeOK'
    BY ZenonT(60), SMTT(60), <1>1, <1>4, <1>5, <1>6 DEF SessionInv, TypeOK
  <1>8. NoDangling' /\ ZombieTimed'
    BY SMTT(120), <1>1, <1>2, <1>5, <1>6
       DEF SessionInv, NoDangling, ZombieTimed, Attached
  <1>9. LoneLogin' /\ SameAccount'
    BY SMTT(120), <1>1, <1>2, <1>5, <1>6
       DEF SessionInv, LoneLogin, SameAccount, Attached
  <1>10. InGameServed'
    BY SMTT(120), <1>1, <1>2, <1>5, ClientFacts DEF SessionInv, InGameServed
  <1>11. NoLostReconnect' /\ OneLink'
    BY SMTT(120), <1>1, <1>2, <1>5, <1>6
       DEF SessionInv, NoLostReconnect, OneLink, Attached
  <1>12. NoOrphanConnection'
    <2> SUFFICES ASSUME ~Background, NEW d \in Conns, conn'[d].alive
                 PROVE  \E m \in LinkedServers : ls'[m].connection = d
      BY ZenonT(60) DEF NoOrphanConnection
    <2>1. CASE d = c
      BY ZenonT(60), <1>1, <1>5, <2>1
    <2>2. CASE d # c
      <3>1. PICK m \in LinkedServers : ls[m].connection = d
        BY ZenonT(60), SMTT(60), <1>1, <2>2 DEF SessionInv, NoOrphanConnection
      <3> QED
        BY ZenonT(60), <1>1, <1>3, <3>1
    <2> QED
      BY <2>1, <2>2
  <1>13. ZombieIdentity'
    BY SMTT(120), <1>1, <1>4, <1>5 DEF SessionInv, ZombieIdentity
  <1> QED
    BY ZenonT(60), <1>7, <1>8, <1>9, <1>10, <1>11, <1>12, <1>13 DEF SessionInv

\* What one client and its connection look like after a step that stores x and r.
LEMMA OneClient ==
  ASSUME SessionInv, NEW l \in LinkedServers, NEW x \in LinkedServer,
         ls' = [ls EXCEPT ![l] = x]
  PROVE  /\ ls' \in [LinkedServers -> LinkedServer]
         /\ ls'[l] = x
         /\ \A m \in LinkedServers : m # l => ls'[m] = ls[m]
  BY DEF SessionInv, TypeOK

LEMMA OneConn ==
  ASSUME SessionInv, NEW c \in Conns, NEW r \in Connection,
         conn' = [conn EXCEPT ![c] = r]
  PROVE  /\ conn' \in [Conns -> Connection]
         /\ conn'[c] = r
         /\ \A d \in Conns : d # c => conn'[d] = conn[d]
  BY DEF SessionInv, TypeOK

\* A step that issues no auth_id leaves the counter where it was.
LEMMA SameAuthid ==
  ASSUME SessionInv, UNCHANGED <<authid, fault>>
  PROVE  authid' \in Nat /\ authid <= authid'
  BY SMTT(120) DEF SessionInv, TypeOK

LEMMA OnClientDisconnectInv ==
  ASSUME SessionInv, NEW l \in LinkedServers, OnClientDisconnect(l)
  PROVE  SessionInv'
  <1> DEFINE c == ls[l].connection
             x == Zombify(ls[l])
  <1>1. ls[l].server /\ UNCHANGED <<authid, fault>>
    BY ZenonT(60), SMTT(60) DEF OnClientDisconnect, HasClient
  <1>2. CASE ls[l].state = "RELAY_SERVER" /\ ls' = [ls EXCEPT ![l] = x] /\ UNCHANGED conn
    <2>1. /\ x \in LinkedServer /\ x.connection = c /\ ~x.server /\ x.zombie_timeout
          /\ x.state = "RELAY_SERVER" /\ x.auth_id = ls[l].auth_id
          /\ x.presented = ls[l].presented
      BY ZenonT(60), <1>1, <1>2, ClientConn DEF Zombify, LinkedServer
    <2>2. /\ ls' \in [LinkedServers -> LinkedServer]
          /\ ls'[l] = x
          /\ \A m \in LinkedServers : m # l => ls'[m] = ls[m]
      BY ZenonT(60), <1>2, <2>1, OneClient
    <2> DEFINE r == conn[c]
    <2>3. /\ conn' \in [Conns -> Connection] /\ conn'[c] = r /\ ConnOK(r) /\ r.alive
          /\ \A d \in Conns : d # c => conn'[d] = conn[d]
          /\ authid' \in Nat /\ authid <= authid'
          /\ x.presented # NoCred /\ x.presented = r.credentials
          /\ r.in_game = conn[c].in_game /\ r.credentials = conn[c].credentials
      <3>1. /\ ConnOK(conn[c]) /\ conn[c].alive /\ conn \in [Conns -> Connection]
            /\ authid \in Nat /\ ls[l].presented # NoCred
            /\ ls[l].presented = conn[c].credentials
        BY ZenonT(60), <1>1, <1>2, ClientConn
      <3>2. authid' \in Nat /\ authid <= authid'
        BY ZenonT(60), <1>1, SameAuthid
      <3> HIDE DEF x, c
      <3> QED
        BY SMTT(120), <1>2, <2>1, <3>1, <3>2
    <2>4. c \in Conns /\ ls[l].connection = c
      BY ZenonT(60), <1>1, ClientConn
    <2> HIDE DEF c, x, r
    <2> QED
      <3>1. Advances(l, c, x, r)
        BY ZenonT(60), <1>1, <1>2, <2>1, <2>2, <2>3, <2>4 DEF Advances
      <3> QED
        BY ZenonT(60), SMTT(60), <1>1, <2>1, <2>4, <3>1, ClientStep
  <1>3. CASE RemoveCheckEmpty(l) /\ ls' = Delete({l})
    <2>1. /\ ls' \in [LinkedServers -> LinkedServer]
          /\ ls'[l] = NoLinkedServer
          /\ \A m \in LinkedServers : m # l => ls'[m] = ls[m]
      BY ZenonT(60), <1>3, DeleteOne
    <2>2. /\ NoLinkedServer.connection = NoConn /\ ~NoLinkedServer.server
          /\ ~NoLinkedServer.zombie_timeout /\ NoLinkedServer.state = "FREE"
      BY DEF NoLinkedServer
    <2>3. NoLinkedServer \in LinkedServer
      BY ZenonT(60), SMTT(60), RecordTypes
    <2>4. c \in Conns /\ ls[l].connection = c
      BY ZenonT(60), <1>1, ClientConn
    <2> HIDE DEF c
    <2> QED
      BY ZenonT(60), <1>1, <1>3, <2>1, <2>2, <2>3, <2>4, RemoveCheckEmptyStep
  <1> QED
    BY <1>2, <1>3 DEF OnClientDisconnect

LEMMA ZombieTimeoutCallbackInv ==
  ASSUME SessionInv, NEW l \in LinkedServers, ZombieTimeoutCallback(l)
  PROVE  SessionInv'
  <1> DEFINE c == ls[l].connection
             x == [ls[l] EXCEPT !.zombie_timeout = FALSE, !.connection = NoConn]
  <1>1. ls[l].zombie_timeout /\ RemoveCheckEmpty(l) /\ UNCHANGED <<authid, fault>>
    BY ZenonT(60), SMTT(60) DEF ZombieTimeoutCallback
  <1>2. /\ c \in Conns /\ ls[l] \in LinkedServer /\ ~ls[l].server
        /\ ls[l].state = "RELAY_SERVER"
    BY <1>1, ClientFacts
  <1>3. /\ x \in LinkedServer /\ x.connection = NoConn /\ ~x.zombie_timeout
        /\ ~x.server /\ x.state = "RELAY_SERVER" /\ x.auth_id = ls[l].auth_id
    BY ZenonT(60), <1>2 DEF LinkedServer
  <1>4. ls' = [ls EXCEPT ![l] = x]
    BY ZenonT(60) DEF ZombieTimeoutCallback, SessionInv, TypeOK
  <1>5. /\ ls' \in [LinkedServers -> LinkedServer]
        /\ ls'[l] = x
        /\ \A m \in LinkedServers : m # l => ls'[m] = ls[m]
    BY ZenonT(60), <1>3, <1>4, OneClient
  <1>6. ls[l].connection = c
    OBVIOUS
  <1> HIDE DEF c, x
  <1> QED
    BY <1>1, <1>2, <1>3, <1>5, <1>6, RemoveCheckEmptyStep

LEMMA HandleAccountLoginInv ==
  ASSUME SessionInv, NEW l \in LinkedServers, NEW cr \in Creds,
         HandleAccountLogin(l, cr)
  PROVE  SessionInv'
  <1> DEFINE c == ls[l].connection
             r == [conn[c] EXCEPT !.credentials = cr]
             login == [ls[l] EXCEPT !.state = "ACCOUNT_LOGIN", !.presented = cr]
  <1>1. ls[l].server /\ UNCHANGED <<authid, fault>>
    BY DEF HandleAccountLogin, HasClient
  <1>2. CASE RejectClient(l, conn[c])
    BY <1>1, <1>2, RejectUnchanged
  <1>3. CASE ls[l].state = "INIT" /\ conn[c].client = "none"
    <2>1. /\ ls[l] \in LinkedServer /\ c \in Conns /\ conn[c].alive
          /\ ConnOK(conn[c]) /\ authid \in Nat /\ ~ls[l].zombie_timeout
          /\ \A m \in LinkedServers : ls[m].connection = c => m = l
          /\ ~conn[c].in_game
      BY ZenonT(60), <1>1, <1>3, ClientConn
    <2>2. conn[c].connect_task = "none"
      BY <1>3, <2>1 DEF SessionInv, LoneLogin, Attached
    <2>3. cr # NoCred
      BY ZenonT(60), SMTT(60), ConfigAssumption
    <2>4. ASSUME NEW x \in LinkedServer, NEW s,
                 ls' = [ls EXCEPT ![l] = x], conn' = [conn EXCEPT ![c] = s],
                 x.connection = c, x.presented = cr, x.server, ~x.zombie_timeout,
                 x.state \in {"ACCOUNT_LOGIN", "SERVER_LIST"},
                 ConnOK(s), s.alive, ~s.in_game, s.credentials = cr,
                 ~HasLogin => s.client = "none" /\ s.connect_task = "none"
          PROVE  SessionInv'
      <3>1. /\ ls' \in [LinkedServers -> LinkedServer] /\ ls'[l] = x
            /\ \A m \in LinkedServers : m # l => ls'[m] = ls[m]
        BY ZenonT(60), <2>4, OneClient
      <3>2. /\ conn' \in [Conns -> Connection] /\ conn'[c] = s
            /\ \A d \in Conns : d # c => conn'[d] = conn[d]
        BY ZenonT(60), <2>1, <2>4, OneConn DEF ConnOK
      <3>3. ls[l].connection = c /\ authid' \in Nat /\ authid <= authid'
        BY <1>1, SameAuthid
      <3> HIDE DEF c
      <3> QED
        <4>1. Advances(l, c, x, s)
          BY ZenonT(60), <2>1, <2>3, <2>4, <3>1, <3>2, <3>3 DEF Advances
        <4> QED
          BY ZenonT(60), <1>1, <2>1, <2>4, <4>1, ClientStep
    <2>5. CASE /\ ls' = [ls EXCEPT ![l] = [login EXCEPT !.state = "SERVER_LIST"]]
               /\ conn' = [conn EXCEPT ![c] = r]
      <3> DEFINE x == [login EXCEPT !.state = "SERVER_LIST"]
      <3>1. /\ x \in LinkedServer /\ x.connection = c /\ x.presented = cr
            /\ x.server /\ ~x.zombie_timeout /\ x.state = "SERVER_LIST"
        BY ZenonT(60), <1>1, <2>1 DEF LinkedServer, State
      <3>2. /\ ConnOK(r) /\ r.alive /\ ~r.in_game /\ r.credentials = cr
            /\ r.client = "none" /\ r.connect_task = "none"
        BY <1>3, <2>1, <2>2 DEF ConnOK, Connection
      <3> HIDE DEF c, r, x
      <3> QED
        BY ZenonT(60), <2>4, <2>5, <3>1, <3>2 DEF x
    <2>6. CASE /\ ls' = [ls EXCEPT ![l] = login]
               /\ conn' = [conn EXCEPT ![c] = IF NumGame > 0 THEN r
                                              ELSE ConnectAsync(r, "login")]
      <3> DEFINE s == IF NumGame > 0 THEN r ELSE ConnectAsync(r, "login")
      <3>1. /\ login \in LinkedServer /\ login.connection = c
            /\ login.presented = cr /\ login.server /\ ~login.zombie_timeout
            /\ login.state = "ACCOUNT_LOGIN"
        BY ZenonT(60), <1>1, <2>1 DEF LinkedServer, State
      <3>2. /\ ConnOK(s) /\ s.alive /\ ~s.in_game /\ s.credentials = cr
            /\ ~HasLogin => s.client = "none" /\ s.connect_task = "none"
        BY ZenonT(60), <1>3, <2>1, <2>2, ConfigAssumption
           DEF ConnOK, Connection, ConnectAsync
      <3> HIDE DEF c, s, login
      <3> QED
        BY ZenonT(60), <2>4, <2>6, <3>1, <3>2 DEF s
    <2> QED
      BY SMTT(120), <1>3, <2>5, <2>6 DEF HandleAccountLogin
  <1> QED
    BY <1>2, <1>3 DEF HandleAccountLogin

LEMMA HandlePlayCharacterInv ==
  ASSUME SessionInv, NEW l \in LinkedServers, HandlePlayCharacter(l)
  PROVE  SessionInv'
  <1> DEFINE c == ls[l].connection
             x == [ls[l] EXCEPT !.state = "PLAY_CHAR"]
             r == Forward(conn[c], "game", "char")
  <1>1. ls[l].server /\ UNCHANGED <<authid, fault>>
    BY DEF HandlePlayCharacter, HasClient
  <1>2. CASE RejectClient(l, conn[c])
    BY SMTT(120), <1>1, <1>2, RejectUnchanged
  <1>3. CASE /\ ls[l].state = "CHAR_LIST"
             /\ ls' = [ls EXCEPT ![l].state = "PLAY_CHAR"]
             /\ conn' = [conn EXCEPT ![c] = Forward(@, "game", "char")]
    <2>1. /\ ls[l] \in LinkedServer /\ c \in Conns /\ conn[c].alive
          /\ ConnOK(conn[c]) /\ authid \in Nat /\ ~ls[l].zombie_timeout
          /\ ls[l].presented # NoCred /\ ls[l].presented = conn[c].credentials
          /\ conn \in [Conns -> Connection]
      BY ZenonT(60), <1>1, <1>3, ClientConn
    <2>2. /\ x \in LinkedServer /\ x.connection = c /\ x.server /\ ~x.zombie_timeout
          /\ x.state = "PLAY_CHAR" /\ x.presented = ls[l].presented
      BY ZenonT(60), SMTT(60), <1>1, <2>1 DEF LinkedServer, State
    <2>3. SameSession(conn[c], r)
      BY ZenonT(60), <2>1, ForwardOK DEF ConnOK, Connection, Link
    <2>4. ls' = [ls EXCEPT ![l] = x] /\ conn' = [conn EXCEPT ![c] = r]
      BY <1>3, <2>1 DEF SessionInv, TypeOK
    <2>5. /\ ls' \in [LinkedServers -> LinkedServer] /\ ls'[l] = x
          /\ \A m \in LinkedServers : m # l => ls'[m] = ls[m]
      BY ZenonT(60), <2>2, <2>4, OneClient
    <2>6. /\ conn' \in [Conns -> Connection] /\ conn'[c] = r
          /\ \A d \in Conns : d # c => conn'[d] = conn[d]
      BY <2>1, <2>3, <2>4, OneConn DEF SameSession, ConnOK
    <2>7. ls[l].connection = c /\ authid' \in Nat /\ authid <= authid'
      BY <1>1, SameAuthid
    <2> HIDE DEF c, x, r
    <2> QED
      <3>1. Advances(l, c, x, r)
        BY ZenonT(60), <2>1, <2>2, <2>3, <2>5, <2>6, <2>7 DEF SameSession, Advances
      <3> QED
        BY SMTT(120), <1>1, <2>1, <2>2, <3>1, ClientStep
  <1> QED
    BY <1>2, <1>3 DEF HandlePlayCharacter

LEMMA HandleCreateCharacterInv ==
  ASSUME SessionInv, NEW l \in LinkedServers, HandleCreateCharacter(l)
  PROVE  SessionInv'
  <1> DEFINE c == ls[l].connection
             r == Forward(conn[c], "game", "char")
  <1>1. ls[l].server /\ UNCHANGED <<ls, authid, fault>>
    BY SMTT(120) DEF HandleCreateCharacter, HasClient
  <1>2. /\ c \in Conns /\ conn[c].alive /\ ConnOK(conn[c])
        /\ conn \in [Conns -> Connection]
    BY ZenonT(60), <1>1, ClientConn
  <1>3. conn' = [conn EXCEPT ![c] = r]
    BY ZenonT(60), SMTT(60), <1>2 DEF HandleCreateCharacter
  <1>4. SameSession(conn[c], r)
    BY ZenonT(60), <1>2, ForwardOK DEF ConnOK, Connection, Link
  <1>5. CASE conn[c].client = "game"
    BY ZenonT(60), <1>1, <1>2, <1>3, <1>4, <1>5, ConnStep DEF Linked
  <1>6. CASE conn[c].client # "game"
    <2>1. conn' = conn
      BY <1>2, <1>3, <1>6 DEF Forward
    <2>2. fault' \in {"none", "Send", "DoReconnect"}
      BY <1>1 DEF SessionInv, TypeOK
    <2> QED
      BY <1>1, <2>1, <2>2, FaultStep
  <1> QED
    BY <1>5, <1>6

LEMMA OnCommandInv ==
  ASSUME SessionInv, NEW l \in LinkedServers, OnCommand(l)
  PROVE  SessionInv'
  <1> DEFINE c == ls[l].connection
  <1>1. ls[l].server /\ UNCHANGED <<ls, authid, fault>> /\ conn[c].in_game
    BY SMTT(120) DEF OnCommand, HasClient
  <1>2. /\ c \in Conns /\ conn[c].alive /\ ConnOK(conn[c])
        /\ conn \in [Conns -> Connection]
    BY <1>1, ClientConn
  <1>3. conn' = [conn EXCEPT ![c] = Reconnect(conn[c])]
    BY ZenonT(60), <1>2 DEF OnCommand
  <1> QED
    BY ZenonT(60), <1>1, <1>2, <1>3, ReconnectOK, ConnStep DEF Linked

\* Delete() followed by storing x at l.
LEMMA DeleteAndStore ==
  ASSUME SessionInv, NEW l \in LinkedServers, NEW x \in LinkedServer,
         NEW L, ls' = [Delete(L) EXCEPT ![l] = x]
  PROVE  /\ ls' \in [LinkedServers -> LinkedServer]
         /\ ls'[l] = x
         /\ \A m \in LinkedServers :
              /\ m # l /\ m \in L => ls'[m] = NoLinkedServer
              /\ m # l /\ m \notin L => ls'[m] = ls[m]
  <1>1. Delete(L) \in [LinkedServers -> LinkedServer]
    BY RecordTypes DEF SessionInv, TypeOK, Delete
  <1>2. \A m \in LinkedServers : Delete(L)[m] = IF m \in L THEN NoLinkedServer ELSE ls[m]
    BY DEF Delete
  <1> QED
    BY ZenonT(60), <1>1, <1>2

\* What FinishPlayServer() makes of the client.
Relayed(l, L, p) ==
  /\ authid' \in Nat /\ authid <= authid'
  /\ ls' \in [LinkedServers -> LinkedServer]
  /\ \A m \in LinkedServers :
       /\ m # l /\ m \in L => ls'[m] = NoLinkedServer
       /\ m # l /\ m \notin L => ls'[m] = ls[m]
  /\ ls'[l].state \in {"PLAY_SERVER", "RELAY_SERVER"}
  /\ ls'[l].connection = p.connection /\ ls'[l].server = p.server
  /\ ls'[l].zombie_timeout = p.zombie_timeout
  /\ ls'[l].presented = p.presented
  /\ ls'[l].state = "RELAY_SERVER" =>
       ls'[l].auth_id = authid' /\ authid' # authid

LEMMA FinishPlayServerFacts ==
  ASSUME SessionInv, NEW l \in LinkedServers, NEW L, NEW p \in LinkedServer,
         p.state = "PLAY_SERVER", FinishPlayServer(l, L, p)
  PROVE  Relayed(l, L, p)
  <1>1. authid \in Nat
    BY ZenonT(60), SMTT(60) DEF SessionInv, TypeOK
  <1>2. CASE Razor /\ LocalIPv4
    <2> DEFINE n == authid + 1
               q == [p EXCEPT !.state = "RELAY_SERVER", !.auth_id = n]
    <2>1. n \in Nat /\ authid <= n /\ n # authid
      BY <1>1
    <2>2. authid' = n /\ ls' = [Delete(L) EXCEPT ![l] = q]
      BY <1>2 DEF FinishPlayServer
    <2> HIDE DEF n
    <2>3. /\ q \in LinkedServer /\ q.state = "RELAY_SERVER"
          /\ q.connection = p.connection /\ q.server = p.server
          /\ q.zombie_timeout = p.zombie_timeout /\ q.presented = p.presented
          /\ q.auth_id = n
      BY ZenonT(60), <2>1 DEF LinkedServer, State
    <2> HIDE DEF q
    <2>4. /\ ls' \in [LinkedServers -> LinkedServer] /\ ls'[l] = q
          /\ \A m \in LinkedServers :
               /\ m # l /\ m \in L => ls'[m] = NoLinkedServer
               /\ m # l /\ m \notin L => ls'[m] = ls[m]
      BY ZenonT(60), <2>2, <2>3, DeleteAndStore
    <2> QED
      BY <2>1, <2>2, <2>3, <2>4 DEF Relayed
  <1>3. CASE ~(Razor /\ LocalIPv4)
    <2>1. authid' = authid /\ ls' = [Delete(L) EXCEPT ![l] = p]
      BY ZenonT(60), <1>3 DEF FinishPlayServer
    <2>2. /\ ls' \in [LinkedServers -> LinkedServer] /\ ls'[l] = p
          /\ \A m \in LinkedServers :
               /\ m # l /\ m \in L => ls'[m] = NoLinkedServer
               /\ m # l /\ m \notin L => ls'[m] = ls[m]
      BY ZenonT(60), <2>1, DeleteAndStore
    <2> QED
      BY <1>1, <2>1, <2>2 DEF Relayed
  <1> QED
    BY <1>2, <1>3

LEMMA HandlePlayServerInv ==
  ASSUME SessionInv, NEW l \in LinkedServers, NEW i \in Indices,
         HandlePlayServer(l, i)
  PROVE  SessionInv'
  <1> DEFINE c == ls[l].connection
             r == [conn[c] EXCEPT !.server_index = i]
             p == [ls[l] EXCEPT !.state = "PLAY_SERVER"]
             found == FindAttachConnection(c, i)
  <1>1. ls[l].server /\ UNCHANGED fault
    BY ZenonT(60) DEF HandlePlayServer, HasClient
  <1>2. CASE RejectClient(l, conn[c]) /\ UNCHANGED authid
    BY ZenonT(60), SMTT(60), <1>1, <1>2, RejectUnchanged
  <1>3. CASE ls[l].state = "SERVER_LIST"
    <2>1. /\ ls[l] \in LinkedServer /\ c \in Conns /\ conn[c].alive
          /\ ConnOK(conn[c]) /\ authid \in Nat /\ ~ls[l].zombie_timeout
          /\ \A m \in LinkedServers : ls[m].connection = c => m = l
          /\ ~conn[c].in_game /\ conn \in [Conns -> Connection]
          /\ ls[l].presented # NoCred /\ ls[l].presented = conn[c].credentials
      BY ZenonT(60), <1>1, <1>3, ClientConn
    <2>2. /\ p \in LinkedServer /\ p.state = "PLAY_SERVER" /\ p.connection = c
          /\ p.server /\ ~p.zombie_timeout /\ p.presented = ls[l].presented
      BY <1>1, <2>1 DEF LinkedServer, State
    <2>3. i \in Nat
      BY ZenonT(60), SMTT(60), ConfigAssumption
    <2>4. /\ SameSession(conn[c], r) /\ r.client = conn[c].client
          /\ r.connect_task = conn[c].connect_task
      BY <2>1, <2>3 DEF SameSession, ConnOK, Connection
    <2>5. ASSUME NEW d \in found,
                 conn' = [conn EXCEPT ![c] = NoConnection],
                 IF Razor
                 THEN FinishPlayServer(l, Servers(c), [p EXCEPT !.connection = d])
                 ELSE /\ ls' = [Delete(Servers(c)) EXCEPT
                                  ![l] = [p EXCEPT !.connection = d,
                                                   !.state = "IN_GAME"]]
                      /\ UNCHANGED authid
          PROVE  SessionInv'
      <3>1. /\ d \in Conns /\ c # d /\ conn[d].in_game
            /\ conn[d].credentials = conn[c].credentials
        BY <2>5 DEF FindAttachConnection, CanAttach
      <3>2. ls[l].connection = c
        BY ZenonT(60), SMTT(60)
      <3>3. CASE Razor
        <4> DEFINE y == [p EXCEPT !.connection = d]
        <4>1. /\ y \in LinkedServer /\ y.state = "PLAY_SERVER" /\ y.connection = d
              /\ y.server /\ ~y.zombie_timeout /\ y.presented = ls[l].presented
          BY ZenonT(60), <2>2, <3>1 DEF LinkedServer
        <4>2. FinishPlayServer(l, Servers(c), y)
          BY SMTT(120), <2>5, <3>3
        <4> HIDE DEF y, c
        <4> DEFINE q == ls'[l]
        <4>3. Relayed(l, Servers(c), y)
          BY <4>1, <4>2, FinishPlayServerFacts
        <4>4. q \in LinkedServer
          BY ZenonT(60), <4>3 DEF Relayed
        <4>5. Moves(l, c, d, {}, q)
          BY ZenonT(60), SMTT(60), <1>1, <1>3, <2>1, <2>5, <3>1, <3>2, <4>1, <4>3
             DEF Relayed, Moves
        <4> HIDE DEF q
        <4> QED
          BY <1>1, <2>1, <3>1, <4>4, <4>5, MoveStep
      <3>4. CASE ~Razor
        <4> DEFINE y == [p EXCEPT !.connection = d, !.state = "IN_GAME"]
        <4>1. /\ y \in LinkedServer /\ y.state = "IN_GAME" /\ y.connection = d
              /\ y.server /\ ~y.zombie_timeout /\ y.presented = ls[l].presented
          BY ZenonT(60), <2>2, <3>1 DEF LinkedServer, State
        <4>2. ls' = [Delete(Servers(c)) EXCEPT ![l] = y] /\ UNCHANGED authid
          BY <2>5, <3>4
        <4>3. authid' \in Nat /\ authid <= authid'
          BY <2>1, <4>2
        <4> HIDE DEF y, c
        <4>4. /\ ls' \in [LinkedServers -> LinkedServer] /\ ls'[l] = y
              /\ \A m \in LinkedServers :
                   /\ m # l /\ m \in Servers(c) => ls'[m] = NoLinkedServer
                   /\ m # l /\ m \notin Servers(c) => ls'[m] = ls[m]
          BY ZenonT(60), <4>1, <4>2, DeleteAndStore
        <4>5. Moves(l, c, d, {}, y)
          BY <1>1, <1>3, <2>1, <2>5, <3>1, <3>2, <4>1, <4>3, <4>4 DEF Moves
        <4> QED
          BY ZenonT(60), <1>1, <2>1, <3>1, <4>1, <4>5, MoveStep
      <3> QED
        BY <3>3, <3>4
    <2>6. CASE RejectClient(l, r) /\ UNCHANGED authid
      BY ZenonT(60), <1>1, <2>4, <2>6, RejectClientStep
    <2>7. CASE /\ conn' = [conn EXCEPT ![c] =
                             IF ~HasLogin THEN ConnectAsync(r, "game")
                             ELSE Forward(r, "login", "play")]
               /\ FinishPlayServer(l, {}, p)
      <3> DEFINE s == IF ~HasLogin THEN ConnectAsync(r, "game")
                      ELSE Forward(r, "login", "play")
      <3>1. SameSession(conn[c], s)
        <4>1. CASE HasLogin
          BY ZenonT(60), <2>3, <2>4, <4>1, ForwardOK DEF SameSession, Link
        <4>2. CASE ~HasLogin
          <5>1. conn[c].client = "none"
            BY <1>3, <2>1, <4>2 DEF SessionInv, OneLink, Attached
          <5> QED
            BY ZenonT(60), <2>4, <4>2, <5>1
               DEF SameSession, ConnOK, Connection, ConnectAsync
        <4> QED
          BY <4>1, <4>2
      <3>2. conn' = [conn EXCEPT ![c] = s]
        BY SMTT(120), <2>7
      <3>3. /\ conn' \in [Conns -> Connection] /\ conn'[c] = s
            /\ \A d \in Conns : d # c => conn'[d] = conn[d]
        BY ZenonT(60), <2>1, <3>1, <3>2, OneConn DEF SameSession, ConnOK
      <3>4. ls[l].connection = c
        OBVIOUS
      <3> HIDE DEF s, p, c
      <3> DEFINE q == ls'[l]
      <3>5. Relayed(l, {}, p)
        BY ZenonT(60), SMTT(60), <2>2, <2>7, FinishPlayServerFacts
      <3>6. q \in LinkedServer
        BY ZenonT(60), SMTT(60), <3>5 DEF Relayed
      <3>7. Advances(l, c, q, s)
        BY ZenonT(60), <1>1, <1>3, <2>1, <2>2, <3>1, <3>3, <3>4, <3>5
           DEF Relayed, Advances, SameSession
      <3> HIDE DEF q
      <3> QED
        BY <1>1, <2>1, <3>6, <3>7, ClientStep
    <2> QED
      BY ZenonT(60), <1>3, <2>5, <2>6, <2>7 DEF HandlePlayServer
  <1> QED
    BY ZenonT(60), <1>2, <1>3 DEF HandlePlayServer

LEMMA HandleGameLoginInv ==
  ASSUME SessionInv, NEW l \in LinkedServers, NEW cr \in Creds,
         NEW auth \in 1..MaxAuthId, HandleGameLogin(l, cr, auth)
  PROVE  SessionInv'
  <1> DEFINE c == ls[l].connection
  <1>1. ls[l].server /\ UNCHANGED <<authid, fault>>
    BY ZenonT(60) DEF HandleGameLogin, HasClient
  <1>2. /\ ls[l] \in LinkedServer /\ c \in Conns /\ conn[c].alive
        /\ ConnOK(conn[c]) /\ authid \in Nat /\ ~ls[l].zombie_timeout
        /\ conn \in [Conns -> Connection]
    BY ZenonT(60), <1>1, ClientConn
  <1>4. CASE RejectClient(l, conn[c])
    BY ZenonT(60), <1>1, <1>4, RejectUnchanged
  <1>5. CASE /\ ls[l].state = "RELAY_SERVER"
             /\ ls' = [ls EXCEPT ![l].state = AfterGameLogin(c)]
             /\ UNCHANGED conn
    <2> DEFINE y == AfterGameLogin(c)
               x == [ls[l] EXCEPT !.state = y]
               r == conn[c]
    <2>1. /\ y \in {"IN_GAME", "CHAR_LIST", "GAME_LOGIN"}
          /\ y = "IN_GAME" => r.in_game
      BY DEF AfterGameLogin
    <2>2. ls' = [ls EXCEPT ![l] = x]
      BY <1>5 DEF SessionInv, TypeOK
    <2> HIDE DEF y
    <2>3. /\ x \in LinkedServer /\ x.state = y /\ x.connection = c /\ x.server
          /\ ~x.zombie_timeout /\ x.presented = ls[l].presented
      BY <1>1, <1>2, <2>1 DEF LinkedServer, State
    <2>4. /\ ls' \in [LinkedServers -> LinkedServer] /\ ls'[l] = x
          /\ \A m \in LinkedServers : m # l => ls'[m] = ls[m]
      BY ZenonT(60), <2>2, <2>3, OneClient
    <2>5. ls[l].presented # NoCred /\ ls[l].presented = r.credentials
      BY ZenonT(60), <1>1, <1>5, ClientConn
    <2>6. /\ conn' \in [Conns -> Connection] /\ conn'[c] = r
          /\ \A d \in Conns : d # c => conn'[d] = conn[d]
          /\ ConnOK(r) /\ r.alive
          /\ r.in_game = conn[c].in_game /\ r.credentials = conn[c].credentials
          /\ ls[l].connection = c /\ authid' \in Nat /\ authid <= authid'
      BY <1>1, <1>2, <1>5
    <2> HIDE DEF c, x, r
    <2>7. Advances(l, c, x, r)
      BY ZenonT(60), <2>1, <2>3, <2>4, <2>5, <2>6 DEF Advances
    <2> QED
      BY ZenonT(60), SMTT(60), <1>1, <1>2, <2>3, <2>7, ClientStep
  <1>6. ASSUME NEW z \in FindZombie(cr, auth), ls[l].state = "INIT",
               conn' = [conn EXCEPT ![c] = NoConnection],
               ls' = [Delete(Servers(c) \cup {z}) EXCEPT
                        ![l] = [ls[l] EXCEPT !.connection = ls[z].connection,
                                             !.presented = cr,
                                             !.state = AfterGameLogin(ls[z].connection)]]
        PROVE  SessionInv'
    <2> DEFINE d == ls[z].connection
               y == AfterGameLogin(d)
               x == [ls[l] EXCEPT !.connection = d, !.presented = cr, !.state = y]
    <2>1. /\ z \in LinkedServers /\ d \in Conns /\ conn[d].credentials = cr
          /\ ls[z].state = "RELAY_SERVER"
      BY <1>6 DEF FindZombie, IsZombie
    <2>2. c # d
      BY ZenonT(60), SMTT(60), <1>1, <1>6, <2>1, ClientConn
    <2>3. /\ y \in {"IN_GAME", "CHAR_LIST", "GAME_LOGIN"}
          /\ y = "IN_GAME" => conn[d].in_game
      BY ZenonT(60) DEF AfterGameLogin
    <2>4. cr # NoCred
      BY ConfigAssumption
    <2>5. ls' = [Delete(Servers(c) \cup {z}) EXCEPT ![l] = x]
      BY <1>6
    <2>6. ls[z].connection = d /\ ls[l].connection = c
      OBVIOUS
    <2> HIDE DEF y, d
    <2>7. /\ x \in LinkedServer /\ x.state = y /\ x.connection = d /\ x.server
          /\ ~x.zombie_timeout /\ x.presented = cr
      BY ZenonT(60), <1>1, <1>2, <2>1, <2>3 DEF LinkedServer, State
    <2> HIDE DEF x, c
    <2>8. /\ ls' \in [LinkedServers -> LinkedServer] /\ ls'[l] = x
          /\ \A m \in LinkedServers :
               /\ m # l /\ m \in Servers(c) \cup {z} => ls'[m] = NoLinkedServer
               /\ m # l /\ m \notin Servers(c) \cup {z} => ls'[m] = ls[m]
      BY ZenonT(60), <2>5, <2>7, DeleteAndStore
    <2>9. authid' \in Nat /\ authid <= authid'
      BY <1>1, <1>2
    <2>10. Moves(l, c, d, {z}, x)
      BY ZenonT(60), SMTT(60), <1>1, <1>6, <2>1, <2>2, <2>3, <2>4, <2>6, <2>7, <2>8, <2>9
         DEF Moves
    <2> QED
      BY <1>1, <1>2, <2>1, <2>7, <2>10, MoveStep
  <1> QED
    BY ZenonT(60), <1>4, <1>5, <1>6 DEF HandleGameLogin, MayGameLogin

LEMMA ClientNextInv ==
  ASSUME SessionInv, NEW l \in LinkedServers, ClientNext(l)
  PROVE  SessionInv'
  <1>1. CASE RefusePacket(l)
    BY ZenonT(60), <1>1, RejectUnchanged DEF RefusePacket, HasClient
  <1> QED
    BY ZenonT(60), <1>1, OnAcceptInv, OnClientDisconnectInv, ZombieTimeoutCallbackInv,
       HandleAccountLoginInv, HandlePlayServerInv, HandleGameLoginInv,
       HandlePlayCharacterInv, HandleCreateCharacterInv, OnCommandInv
       DEF ClientNext

-----------------------------------------------------------------------------
(***************************************************************************)
(* The callbacks of the server side.                                       *)
(***************************************************************************)
LEMMA LoseServerInv ==
  ASSUME SessionInv, NEW c \in Conns, conn[c].alive, LoseServer(c),
         UNCHANGED <<authid, fault>>
  PROVE  SessionInv'
  <1>1. CASE AutoReconnect /\ conn[c].in_game
    <2>1. conn \in [Conns -> Connection] /\ ConnOK(conn[c])
      BY ConnFacts DEF SessionInv, TypeOK
    <2>2. conn' = [conn EXCEPT ![c] = ScheduleReconnect(conn[c])] /\ UNCHANGED ls
      BY <1>1, <2>1 DEF LoseServer
    <2> QED
      BY ZenonT(60), <1>1, <2>1, <2>2, ScheduleReconnectOK, ConnStep DEF Linked
  <1>2. CASE ~(AutoReconnect /\ conn[c].in_game)
    BY SMTT(120), <1>2, DestroyStep DEF LoseServer
  <1> QED
    BY ZenonT(60), <1>1, <1>2

\* A connection that packets arrive on.
LEMMA ServerConn ==
  ASSUME SessionInv, NEW c \in Conns, conn[c].client # "none"
  PROVE  /\ Linked(c) /\ conn[c].alive /\ ConnOK(conn[c])
         /\ conn[c].connect_task = "none"
         /\ conn \in [Conns -> Connection]
         /\ ls \in [LinkedServers -> LinkedServer]
         /\ \A l \in Servers(c) :
              /\ ls[l].state # "INIT"
              /\ ~ls[l].server => ls[l].state = "RELAY_SERVER"
  <1>1. Linked(c) /\ conn[c].alive /\ ConnOK(conn[c])
    BY ZenonT(60), SMTT(60), LinkedAlive, ConnFacts DEF Linked
  <1>2. \A l \in Servers(c) : /\ ls[l].state # "INIT"
                              /\ ~ls[l].server => ls[l].state = "RELAY_SERVER"
    BY DEF SessionInv, LoneLogin, ZombieTimed, Attached, Servers
  <1> QED
    BY ZenonT(60), <1>1, <1>2 DEF SessionInv, TypeOK, ConnOK

LEMMA HandleServerListInv ==
  ASSUME SessionInv, NEW c \in Conns, HandleServerList(c)
  PROVE  SessionInv'
  <1>1. conn[c].client # "none" /\ UNCHANGED <<authid, fault>>
    BY DEF HandleServerList, Receives, IsConnected
  <1>2. CASE /\ conn[c].reconnecting
             /\ conn' = [conn EXCEPT ![c].client = "play"]
             /\ UNCHANGED ls
    <2> DEFINE r == [conn[c] EXCEPT !.client = "play"]
    <2>1. conn' = [conn EXCEPT ![c] = r]
      BY <1>1, <1>2, ServerConn
    <2>2. SameSession(conn[c], r)
      <3>1. conn[c].alive /\ ConnOK(conn[c]) /\ conn[c].connect_task = "none"
        BY <1>1, ServerConn
      <3> QED
        BY ZenonT(60), <1>1, <3>1 DEF SameSession, ConnOK, Connection, Link
    <2> HIDE DEF r
    <2> QED
      BY ZenonT(60), <1>1, <1>2, <2>1, <2>2, ServerConn, ConnStep
  <1>3. CASE /\ ls' = [l \in LinkedServers |->
                    IF l \in Servers(c) /\ ls[l].state = "ACCOUNT_LOGIN"
                    THEN [ls[l] EXCEPT !.state = "SERVER_LIST"]
                    ELSE ls[l]]
             /\ UNCHANGED conn
    <2> DEFINE T == {l \in Servers(c) : ls[l].state = "ACCOUNT_LOGIN"}
               r == conn[c]
    <2>1. \A l \in LinkedServers :
            LET x == [ls[l] EXCEPT !.state = "SERVER_LIST"]
            IN /\ x \in LinkedServer /\ x.state = "SERVER_LIST"
               /\ x.connection = ls[l].connection /\ x.server = ls[l].server
               /\ x.zombie_timeout = ls[l].zombie_timeout
               /\ x.presented = ls[l].presented
      BY ZenonT(60), SMTT(60), <1>1, ServerConn DEF LinkedServer, State
    <2>2. ls' \in [LinkedServers -> LinkedServer]
      BY <1>1, <1>3, <2>1, ServerConn
    <2>3. \A l \in LinkedServers \ T : ls'[l] = ls[l]
      BY <1>3
    <2>4. \A l \in T : /\ ls'[l].state = "SERVER_LIST"
                       /\ ls'[l].connection = ls[l].connection
                       /\ ls'[l].server = ls[l].server
                       /\ ls'[l].zombie_timeout = ls[l].zombie_timeout
                       /\ ls'[l].presented = ls[l].presented
      BY <1>3, <2>1 DEF Servers
    <2>5. \A l \in T : ls[l].server /\ ls[l].state = "ACCOUNT_LOGIN"
      BY <1>1, ServerConn
    <2>6. conn' = [conn EXCEPT ![c] = r] /\ ConnOK(r) /\ r.alive /\ r.client # "none"
      BY <1>1, <1>3, ServerConn
    <2>7. r.credentials = conn[c].credentials /\ r.in_game = conn[c].in_game
      OBVIOUS
    <2>8. T \in SUBSET Servers(c)
      BY ZenonT(60), SMTT(60)
    <2> HIDE DEF T, r
    <2>9. Broadcasts(c, T, "SERVER_LIST", r)
      BY ZenonT(60), <1>1, <2>2, <2>3, <2>4, <2>5, <2>6, <2>7 DEF Broadcasts
    <2> QED
      BY <1>1, <2>8, <2>9, BroadcastStep
  <1> QED
    BY <1>2, <1>3 DEF HandleServerList

LEMMA HandleCharListInv ==
  ASSUME SessionInv, NEW c \in Conns, NEW valid \in BOOLEAN,
         HandleCharList(c, valid)
  PROVE  SessionInv'
  <1> DEFINE b == conn[c].char_list \/ valid
             r == [conn[c] EXCEPT !.char_list = b]
  <1>1. conn[c].client # "none" /\ UNCHANGED <<authid, fault>>
    BY DEF HandleCharList, Receives, IsConnected
  <1>2. CASE /\ conn' = [conn EXCEPT ![c] = [r EXCEPT !.client = "char"]]
             /\ UNCHANGED ls
    <2> DEFINE s == [r EXCEPT !.client = "char"]
    <2>1. b \in BOOLEAN
      OBVIOUS
    <2>2. conn' = [conn EXCEPT ![c] = s]
      BY <1>2
    <2> HIDE DEF b
    <2>3. SameSession(conn[c], s)
      <3>1. conn[c].alive /\ ConnOK(conn[c]) /\ conn[c].connect_task = "none"
        BY <1>1, ServerConn
      <3> QED
        BY ZenonT(60), <1>1, <2>1, <3>1 DEF SameSession, ConnOK, Connection, Link
    <2> HIDE DEF s
    <2> QED
      BY ZenonT(60), <1>1, <1>2, <2>2, <2>3, ServerConn, ConnStep
  <1>3. CASE /\ conn' = [conn EXCEPT ![c] = r]
             /\ ls' = [l \in LinkedServers |->
                    IF l \in Servers(c) /\ AwaitsCharList(l)
                    THEN [ls[l] EXCEPT !.state = "CHAR_LIST"]
                    ELSE ls[l]]
    <2> DEFINE T == {l \in Servers(c) : AwaitsCharList(l)}
    <2>1. \A l \in LinkedServers :
            LET x == [ls[l] EXCEPT !.state = "CHAR_LIST"]
            IN /\ x \in LinkedServer /\ x.state = "CHAR_LIST"
               /\ x.connection = ls[l].connection /\ x.server = ls[l].server
               /\ x.zombie_timeout = ls[l].zombie_timeout
               /\ x.presented = ls[l].presented
      BY ZenonT(60), SMTT(60), <1>1, ServerConn DEF LinkedServer, State
    <2>2. ls' \in [LinkedServers -> LinkedServer]
      BY <1>1, <1>3, <2>1, ServerConn
    <2>3. \A l \in LinkedServers \ T : ls'[l] = ls[l]
      BY <1>3
    <2>4. \A l \in T : /\ ls'[l].state = "CHAR_LIST"
                       /\ ls'[l].connection = ls[l].connection
                       /\ ls'[l].server = ls[l].server
                       /\ ls'[l].zombie_timeout = ls[l].zombie_timeout
                       /\ ls'[l].presented = ls[l].presented
      BY ZenonT(60), <1>3, <2>1 DEF Servers
    <2>5. \A l \in T : ls[l].server /\ ls[l].state # "INIT"
      BY <1>1, ServerConn DEF AwaitsCharList
    <2>6. b \in BOOLEAN
      OBVIOUS
    <2> HIDE DEF b
    <2>7. /\ ConnOK(r) /\ r.alive /\ r.client # "none"
          /\ r.credentials = conn[c].credentials /\ r.in_game = conn[c].in_game
      <3>1. ConnOK(conn[c]) /\ conn[c].alive
        BY <1>1, ServerConn
      <3> QED
        BY ZenonT(60), <1>1, <2>6, <3>1 DEF ConnOK, Connection
    <2>8. T \in SUBSET Servers(c) /\ conn' = [conn EXCEPT ![c] = r]
      BY ZenonT(60), SMTT(60), <1>3
    <2> HIDE DEF T, r
    <2>9. Broadcasts(c, T, "CHAR_LIST", r)
      BY ZenonT(60), <1>1, <2>2, <2>3, <2>4, <2>5, <2>7, <2>8 DEF Broadcasts
    <2> QED
      BY <1>1, <2>8, <2>9, BroadcastStep
  <1> QED
    BY <1>2, <1>3 DEF HandleCharList

LEMMA HandleStartInv ==
  ASSUME SessionInv, NEW c \in Conns, HandleStart(c)
  PROVE  SessionInv'
  <1>1. conn[c].client # "none" /\ UNCHANGED authid
    BY DEF HandleStart, Receives, IsConnected
  <1>2. CASE fault' = "Send" /\ UNCHANGED <<ls, conn>>
    BY <1>1, <1>2, FaultStep
  <1>3. CASE /\ \A l \in Servers(c) : ls[l].server
             /\ conn' = [conn EXCEPT ![c].in_game = TRUE, ![c].reconnecting = FALSE,
                                     ![c].client = "world"]
             /\ ls' = [l \in LinkedServers |->
                    IF l \in Servers(c) THEN [ls[l] EXCEPT !.state = "IN_GAME"]
                    ELSE ls[l]]
             /\ UNCHANGED fault
    <2> DEFINE T == Servers(c)
               r == [conn[c] EXCEPT !.in_game = TRUE, !.reconnecting = FALSE,
                                    !.client = "world"]
    <2>1. \A l \in LinkedServers :
            LET x == [ls[l] EXCEPT !.state = "IN_GAME"]
            IN /\ x \in LinkedServer /\ x.state = "IN_GAME"
               /\ x.connection = ls[l].connection /\ x.server = ls[l].server
               /\ x.zombie_timeout = ls[l].zombie_timeout
               /\ x.presented = ls[l].presented
      BY ZenonT(60), SMTT(60), <1>1, ServerConn DEF LinkedServer, State
    <2>2. ls' \in [LinkedServers -> LinkedServer]
      BY <1>1, <1>3, <2>1, ServerConn
    <2>3. \A l \in LinkedServers \ T : ls'[l] = ls[l]
      BY <1>3
    <2>4. \A l \in T : /\ ls'[l].state = "IN_GAME"
                       /\ ls'[l].connection = ls[l].connection
                       /\ ls'[l].server = ls[l].server
                       /\ ls'[l].zombie_timeout = ls[l].zombie_timeout
                       /\ ls'[l].presented = ls[l].presented
      BY <1>3, <2>1 DEF Servers
    <2>5. \A l \in T : ls[l].server /\ ls[l].state # "INIT"
      BY <1>1, <1>3, ServerConn
    <2>6. /\ ConnOK(r) /\ r.alive /\ r.client # "none" /\ r.in_game
          /\ r.credentials = conn[c].credentials
      <3>1. conn[c].alive /\ ConnOK(conn[c]) /\ conn[c].connect_task = "none"
        BY <1>1, ServerConn
      <3> QED
        BY ZenonT(60), <1>1, <3>1 DEF ConnOK, Connection, Link
    <2>7. conn' = [conn EXCEPT ![c] = r]
      BY ZenonT(60), <1>1, <1>3, ServerConn
    <2>8. T \in SUBSET Servers(c) /\ T = Servers(c)
      OBVIOUS
    <2> HIDE DEF T, r
    <2>9. Broadcasts(c, T, "IN_GAME", r)
      BY ZenonT(60), <1>1, <2>2, <2>3, <2>4, <2>5, <2>6, <2>7, <2>8 DEF Broadcasts
    <2> QED
      BY ZenonT(60), <1>1, <1>3, <2>8, <2>9, BroadcastStep
  <1> QED
    BY ZenonT(60), <1>2, <1>3 DEF HandleStart

\* The callbacks that change nothing but their connection.
LEMMA ConnActionsInv ==
  ASSUME SessionInv, NEW c \in Conns,
         \/ HandleRelay(c) \/ HandleAccountLoginReject(c) \/ HandlePopupMessage(c)
         \/ ConnectDone(c) \/ ConnectFailed(c) \/ ReconnectTimerCallback(c)
  PROVE  SessionInv'
  <1>1. conn \in [Conns -> Connection] /\ ConnOK(conn[c])
        /\ fault \in {"none", "Send", "DoReconnect"}
    BY ConnFacts DEF SessionInv, TypeOK
  <1>2. CASE HandleRelay(c)
    <2> DEFINE r == ConnectAsync([Disconnect(conn[c]) EXCEPT
                                    !.reconnecting = conn[c].in_game], "game")
    <2>1. /\ conn[c].client # "none" /\ UNCHANGED <<authid, fault>>
          /\ Linked(c) /\ conn[c].alive
      BY ZenonT(60), SMTT(60), <1>2, LinkedAlive
         DEF HandleRelay, Receives, IsConnected, Linked
    <2>2. CASE LoseServer(c)
      BY ZenonT(60), <2>1, <2>2, LoseServerInv
    <2>3. CASE conn' = [conn EXCEPT ![c] = r] /\ UNCHANGED ls
      <3>1. SameSession(conn[c], r)
        BY ZenonT(60), <1>1, <2>1
           DEF SameSession, ConnOK, Connection, Link, Disconnect, ConnectAsync
      <3> HIDE DEF r
      <3> QED
        BY ZenonT(60), <2>1, <2>3, <3>1, ConnStep
    <2> QED
      BY ZenonT(60), <1>1, <1>2, <2>2, <2>3 DEF HandleRelay
  <1>3. CASE HandleAccountLoginReject(c) \/ HandlePopupMessage(c)
    <2>1. /\ conn[c].client # "none" /\ UNCHANGED <<authid, fault>>
          /\ Linked(c) /\ conn[c].alive
      BY ZenonT(60), <1>3, LinkedAlive
         DEF HandleAccountLoginReject, HandlePopupMessage, Receives, IsConnected, Linked
    <2>2. CASE LoseServer(c)
      BY <2>1, <2>2, LoseServerInv
    <2>3. CASE /\ conn[c].reconnecting /\ UNCHANGED ls
               /\ conn' = [conn EXCEPT ![c] = ScheduleReconnect(conn[c])]
      <3>1. conn[c].in_game
        BY <1>1, <2>3 DEF ConnOK
      <3> QED
        BY ZenonT(60), <1>1, <2>1, <2>3, <3>1, ScheduleReconnectOK, ConnStep
    <2> QED
      BY SMTT(120), <1>1, <1>3, <2>2, <2>3 DEF HandleAccountLoginReject, HandlePopupMessage
  <1>4. CASE ConnectDone(c)
    <2> DEFINE r == [conn[c] EXCEPT !.client = conn[c].connect_task,
                                    !.connect_task = "none"]
    <2>1. /\ conn[c].connect_task # "none" /\ UNCHANGED <<ls, authid, fault>>
          /\ Linked(c) /\ conn[c].alive
      BY <1>4, LinkedAlive DEF ConnectDone, Linked
    <2>2. conn' = [conn EXCEPT ![c] = r]
      BY ZenonT(60), <1>1, <1>4 DEF ConnectDone
    <2>3. SameSession(conn[c], r)
      BY ZenonT(60), <1>1, <2>1 DEF SameSession, ConnOK, Connection, Link
    <2> HIDE DEF r
    <2> QED
      BY ZenonT(60), <2>1, <2>2, <2>3, ConnStep
  <1>5. CASE ConnectFailed(c)
    <2> DEFINE r == OnConnectError([conn[c] EXCEPT !.connect_task = "none"])
    <2>1. /\ conn[c].connect_task # "none" /\ UNCHANGED <<ls, authid, fault>>
          /\ Linked(c) /\ conn[c].alive
      BY <1>5, LinkedAlive DEF ConnectFailed, Linked
    <2>2. conn' = [conn EXCEPT ![c] = r]
      BY <1>5 DEF ConnectFailed
    <2>3. SameSession(conn[c], r)
      BY ZenonT(60), <1>1, <2>1
         DEF SameSession, ConnOK, Connection, Link, OnConnectError,
                        ScheduleReconnect, Disconnect
    <2> HIDE DEF r
    <2> QED
      BY ZenonT(60), <2>1, <2>2, <2>3, ConnStep
  <1>6. CASE ReconnectTimerCallback(c)
    <2> DEFINE r == DoReconnect([conn[c] EXCEPT !.reconnect_timer = FALSE])
    <2>1. conn[c].reconnect_timer /\ UNCHANGED <<ls, authid>>
      BY <1>6 DEF ReconnectTimerCallback
    <2>2. conn[c].in_game /\ Linked(c) /\ conn[c].alive
      BY <1>1, <2>1, LinkedAlive DEF ConnOK, Linked
    <2>3. CASE /\ conn[c].reconnecting /\ conn[c].client = "none"
               /\ conn' = [conn EXCEPT ![c] = r] /\ UNCHANGED fault
      <3>1. SameSession(conn[c], r)
        BY ZenonT(60), <1>1, <2>2, <2>3
           DEF SameSession, ConnOK, Connection, DoReconnect, ConnectAsync
      <3> HIDE DEF r
      <3> QED
        BY ZenonT(60), <2>1, <2>2, <2>3, <3>1, ConnStep
    <2>4. CASE fault' = "DoReconnect" /\ UNCHANGED conn
      BY ZenonT(60), <2>1, <2>4, FaultStep
    <2> QED
      BY <1>6, <2>3, <2>4 DEF ReconnectTimerCallback
  <1> QED
    BY ZenonT(60), <1>2, <1>3, <1>4, <1>5, <1>6

LEMMA ServerNextInv ==
  ASSUME SessionInv, NEW c \in Conns, ServerNext(c)
  PROVE  SessionInv'
  <1>1. CASE OnServerDisconnect(c) \/ RefuseServerPacket(c)
    <2>1. conn[c].client # "none" /\ LoseServer(c) /\ UNCHANGED <<authid, fault>>
      BY <1>1 DEF OnServerDisconnect, RefuseServerPacket, IsConnected
    <2> QED
      BY <2>1, ServerConn, LoseServerInv
  <1> QED
    BY ZenonT(60), <1>1, HandleServerListInv, HandleCharListInv, HandleStartInv, ConnActionsInv
       DEF ServerNext

(***************************************************************************)
(* Theorems.                                                               *)
(***************************************************************************)
\* The invariants of the session core hold in every reachable state, for any
\* number of clients, connections and accounts.
THEOREM SessionInvariant == Spec => []SessionInv
  <1>1. ASSUME SessionInv, [Next]_vars
        PROVE  SessionInv'
    <2>1. CASE Next
      BY <1>1, <2>1, ClientNextInv, ServerNextInv DEF Next
    <2>2. CASE UNCHANGED vars
      <3>1. fault \in {"none", "Send", "DoReconnect"}
        BY <1>1 DEF SessionInv, TypeOK
      <3> QED
        BY <1>1, <2>2, <3>1, FaultStep DEF vars
    <2> QED
      BY <1>1, <2>1, <2>2
  <1> QED
    BY InitSessionInv, <1>1, PTL DEF Spec

\* Every object of the session core has its type, and storage that is freed
\* keeps nothing: no field of a destroyed Connection or deleted LinkedServer
\* leaks into the next one.
THEOREM SessionTypeCorrect == Spec => []TypeOK
  BY SessionInvariant, PTL DEF SessionInv

\* Destroy(), Remove() and the moves of HandlePlayServer() and
\* HandleGameLogin() never leave a client pointing to a destroyed Connection.
THEOREM NoDanglingConnection == Spec => []NoDangling
  BY SessionInvariant, PTL DEF SessionInv

\* A LinkedServer that has lost its socket is a zombie with its timer running,
\* as OnDisconnect() leaves it.
THEOREM ZombiesAreTimed == Spec => []ZombieTimed
  BY SessionInvariant, PTL DEF SessionInv

\* The assertions of HandleAccountLogin(), HandlePlayServer() and
\* HandleGameLogin() about a client that has not selected its server hold.
THEOREM LoginIsAlone == Spec => []LoneLogin
  BY SessionInvariant, PTL DEF SessionInv

\* FindAttachConnection() and FindZombie() never attach a client to the session
\* of another account.
THEOREM AccountsNeverMixed == Spec => []SameAccount
  BY SessionInvariant, PTL DEF SessionInv

\* A client in IN_GAME has a socket and a session in game.
THEOREM PlayingClientsServed == Spec => []InGameServed
  BY SessionInvariant, PTL DEF SessionInv

\* A session in game without a server always has its reconnect timer pending or
\* a connect under way, whatever fails in whatever order.
THEOREM ReconnectNeverLost == Spec => []NoLostReconnect
  BY SessionInvariant, PTL DEF SessionInv

\* The assertions of CoConnect(), ConnectAsync() and StatefulClient::Connect()
\* that there is no link yet hold.
THEOREM OneLinkAtATime == Spec => []OneLink
  BY SessionInvariant, PTL DEF SessionInv

\* Without "background" no Connection outlives its last client.
THEOREM NoConnectionLeak == Spec => []NoOrphanConnection
  BY SessionInvariant, PTL DEF SessionInv

\* Two clients that wait for their GameLogin after RedirectToSelf() never carry
\* the same identifier.
THEOREM RedirectsUnique == Spec => []ZombieIdentity
  BY SessionInvariant, PTL DEF SessionInv

=============================================================================
