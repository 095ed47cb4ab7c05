---------------------------- MODULE ConnectProof ----------------------------
(***************************************************************************)
(* Connect for any number of sockets, servers and attempts: no socket is   *)
(* leaked or closed twice, no event reaches an object that is gone, and    *)
(* the whole implements AsyncConnect.                                      *)
(***************************************************************************)
EXTENDS Connect, TLAPS

MaybeSocket == Sockets \cup {NoSocket}

\* Every variable has its type.
Types ==
  /\ socks \in BOOLEAN /\ alive \in BOOLEAN /\ on_stack \in BOOLEAN
  /\ timeout_event \in BOOLEAN
  /\ at \in {"none", "connect", "socks"}
  /\ server \in Servers
  /\ event \in MaybeSocket /\ awaited \in MaybeSocket
  /\ fd \in MaybeSocket /\ client \in MaybeSocket
  /\ attempt \in Nat /\ reported \in Nat
  /\ open \in SUBSET Sockets /\ epoll \in SUBSET Sockets
  /\ peer \in [Sockets -> Servers]
  /\ DOMAIN state = Sockets

\* What the coroutine owns where it is suspended.
Suspended ==
  /\ at = "none" =>
       /\ event = NoSocket /\ fd = NoSocket /\ awaited = NoSocket
       /\ ~timeout_event
       /\ open = {client} \ {NoSocket} /\ epoll = {}
  /\ at = "connect" =>
       /\ event # NoSocket /\ fd = NoSocket /\ awaited = NoSocket
       /\ timeout_event
       /\ open = {event} /\ epoll = {event}
  /\ at = "socks" =>
       /\ event = NoSocket /\ fd # NoSocket /\ awaited = fd
       /\ ~timeout_event
       /\ open = {fd} /\ epoll = {fd}
  /\ at # "none" => alive /\ client = NoSocket

\* Whom the sockets are connected to, or will be.
Directed ==
  /\ at = "connect" => peer[event] = server
  /\ at = "socks" /\ ~on_stack => peer[fd] = server
  /\ at = "socks" => socks
  /\ client # NoSocket /\ ~(socks /\ on_stack) => peer[client] = server

\* The inductive invariant.
Inv == Types /\ Suspended /\ Directed

\* The initial states satisfy the inductive invariant.
LEMMA InitInv == Init => Inv
<1>1. SUFFICES ASSUME Init PROVE Inv
  OBVIOUS
<1>2. peer \in [Sockets -> Servers]
  BY <1>1 DEF Init
<1>3. DOMAIN state = Sockets
  BY <1>1 DEF Init
<1>4. Types
  BY <1>1, <1>2, <1>3 DEF Init, Types, MaybeSocket
<1>5. Suspended
  BY <1>1 DEF Init, Suspended
<1>6. Directed
  BY <1>1 DEF Init, Directed
<1>7. QED
  BY <1>4, <1>5, <1>6 DEF Inv

\* A coroutine that waits has the sockets it owns, and they are open.
LEMMA OwnedSockets ==
  ASSUME Inv
  PROVE  /\ at = "none" => Owned = {}
         /\ at = "connect" => Owned = {event}
         /\ at = "socks" => Owned = {fd}
         /\ open \ Owned = {client} \ {NoSocket}
         /\ epoll \ Owned = {}
  BY NoSocketAssumption DEF Inv, Types, Suspended, Owned, MaybeSocket

\* ConnectAsync() replaces what was pending.
LEMMA ConnectAsyncInv ==
  ASSUME Inv, NEW address \in Servers, NEW stack \in BOOLEAN,
         ConnectAsync(address, stack)
  PROVE  Inv'
<1>1. /\ open \ Owned = {} /\ epoll \ Owned = {}
      /\ attempt' \in Nat /\ client' = NoSocket /\ alive'
  BY OwnedSockets DEF ConnectAsync, Inv, Types
<1>2. CASE /\ DestroyCoroutine /\ Complete(attempt + 1)
           /\ open' = open \ Owned /\ epoll' = epoll \ Owned
           /\ UNCHANGED <<state, peer>>
  BY <1>1, <1>2, NoSocketAssumption
  DEF ConnectAsync, DestroyCoroutine, Gone, Complete, Inv, Types, Suspended, Directed,
      MaybeSocket
<1>3. CASE \E s \in Sockets :
             /\ SocketConnect(address, s)
             /\ at' = "connect"
             /\ awaited' = NoSocket /\ fd' = NoSocket
             /\ UNCHANGED reported
  <2>1. PICK s \in Sockets :
          /\ SocketConnect(address, s)
          /\ at' = "connect"
          /\ awaited' = NoSocket /\ fd' = NoSocket
          /\ UNCHANGED reported
    BY <1>3
  <2>2. /\ event' = s /\ s # NoSocket /\ timeout_event' = TRUE
        /\ open' = {s} /\ epoll' = {s}
        /\ peer' = [peer EXCEPT ![s] = address]
        /\ DOMAIN state' = Sockets
    BY <1>1, <2>1, NoSocketAssumption DEF SocketConnect, WaitConnected, Inv, Types
  <2>3. Types'
    BY <1>1, <2>1, <2>2 DEF ConnectAsync, Inv, Types, MaybeSocket
  <2>4. Suspended'
    BY <1>1, <2>1, <2>2 DEF Suspended
  <2>5. Directed'
    <3>1. peer'[s] = address
      BY <2>2 DEF Inv, Types
    <3> QED BY <1>1, <2>1, <2>2, <3>1 DEF ConnectAsync, Directed
  <2> QED BY <2>3, <2>4, <2>5 DEF Inv
<1> QED BY <1>2, <1>3 DEF ConnectAsync

\* An exception leaves nothing of the coroutine.
LEMMA ThrowInv ==
  ASSUME Inv, at # "none", Throw, UNCHANGED <<socks, alive, attempt>>
  PROVE  Inv'
<1>1. open \ Owned = {} /\ epoll \ Owned = {} /\ client = NoSocket
  BY OwnedSockets DEF Inv, Suspended
<1> QED BY <1>1 DEF Throw, Gone, Complete, Inv, Types, Suspended, Directed, MaybeSocket

\* The socket is handed over to the client, or the coroutine goes on.
LEMMA OnEventInv ==
  ASSUME Inv, OnEvent
  PROVE  Inv'
<1>1. /\ at = "connect" /\ event \in Sockets /\ open = {event} /\ epoll = {event}
      /\ client = NoSocket /\ alive /\ peer[event] = server
      /\ fd = NoSocket /\ awaited = NoSocket
  BY NoSocketAssumption DEF OnEvent, Inv, Types, Suspended, Directed, MaybeSocket
<1>2. UNCHANGED <<socks, alive, attempt>>
  BY DEF OnEvent
<1>3. CASE Throw
  BY <1>1, <1>2, <1>3, ThrowInv
<1>4. CASE /\ ~socks
           /\ client' = event
           /\ Gone /\ Complete(attempt)
           /\ epoll' = epoll \ {event}
           /\ UNCHANGED <<server, on_stack, open, state, peer>>
  BY <1>1, <1>2, <1>4, NoSocketAssumption
  DEF Gone, Complete, Inv, Types, Suspended, Directed, MaybeSocket
<1>5. CASE /\ socks
           /\ at' = "socks" /\ timeout_event' = FALSE
           /\ fd' = event /\ event' = NoSocket /\ awaited' = event
           /\ state' = [state EXCEPT ![event] = "new"]
           /\ \E address \in Requested : peer' = [peer EXCEPT ![event] = address]
           /\ UNCHANGED <<server, on_stack, client, reported, open, epoll>>
  <2>1. PICK address \in Requested : peer' = [peer EXCEPT ![event] = address]
    BY <1>5
  <2>2. address \in Servers /\ (~on_stack => address = server)
    BY <2>1 DEF Requested, Inv, Types
  <2>3. peer' \in [Sockets -> Servers] /\ peer'[event] = address
    BY <1>1, <2>1, <2>2 DEF Inv, Types
  <2> QED
    BY <1>1, <1>2, <1>5, <2>2, <2>3, NoSocketAssumption
    DEF Inv, Types, Suspended, Directed, MaybeSocket
<1> QED BY <1>3, <1>4, <1>5 DEF OnEvent, Inv, Types

\* The answer of the proxy ends the coroutine.
LEMMA OnSocketReadyInv ==
  ASSUME Inv, OnSocketReady
  PROVE  Inv'
<1>1. /\ at = "socks" /\ fd \in Sockets /\ awaited = fd /\ open = {fd} /\ epoll = {fd}
      /\ client = NoSocket /\ alive /\ socks
  BY NoSocketAssumption DEF OnSocketReady, Inv, Types, Suspended, Directed, MaybeSocket
<1>2. UNCHANGED <<socks, alive, attempt>>
  BY DEF OnSocketReady
<1>3. CASE Throw
  BY <1>1, <1>2, <1>3, ThrowInv
<1>4. CASE /\ client' = fd
           /\ Gone /\ Complete(attempt)
           /\ epoll' = epoll \ {awaited}
           /\ UNCHANGED <<server, on_stack, open, state, peer>>
  BY <1>1, <1>2, <1>4, NoSocketAssumption
  DEF Gone, Complete, Inv, Types, Suspended, Directed, MaybeSocket
<1> QED BY <1>3, <1>4 DEF OnSocketReady

\* Every step preserves the inductive invariant.
LEMMA NextInv == Inv /\ [Next]_vars => Inv'
<1> SUFFICES ASSUME Inv, [Next]_vars PROVE Inv'
  OBVIOUS
<1>1. ASSUME NEW address \in Servers, NEW stack \in BOOLEAN, ConnectAsync(address, stack)
      PROVE  Inv'
  BY <1>1, ConnectAsyncInv
<1>2. CASE OnEvent
  BY <1>2, OnEventInv
<1>3. CASE OnSocketReady
  BY <1>3, OnSocketReadyInv
<1>4. CASE OnTimeout
  <2>1. at # "none"
    BY <1>4 DEF OnTimeout, Inv, Suspended
  <2> QED BY <1>4, <2>1, ThrowInv DEF OnTimeout
<1>5. CASE Disconnect
  <2>1. at = "none"
    BY <1>5 DEF Disconnect, Inv, Suspended
  <2> QED
    BY <1>5, <2>1, NoSocketAssumption
    DEF Disconnect, coroutine, Inv, Types, Suspended, Directed, MaybeSocket
<1>6. CASE Destroy
  <2>1. open' = {} /\ epoll' = {}
    BY <1>6, OwnedSockets, NoSocketAssumption DEF Destroy, Inv, Types, MaybeSocket
  <2> QED
    BY <1>6, <2>1 DEF Destroy, DestroyCoroutine, Gone, Inv, Types, Suspended, Directed,
                      MaybeSocket
<1>7. ASSUME NEW s \in Sockets, Answer(s)
      PROVE  Inv'
  <2>1. DOMAIN state' = Sockets
    BY <1>7 DEF Answer, Inv, Types
  <2> QED
    BY <1>7, <2>1 DEF Answer, coroutine, Inv, Types, Suspended, Directed
<1>8. CASE UNCHANGED vars
  BY <1>8 DEF vars, coroutine, kernel, Inv, Types, Suspended, Directed
<1> QED BY <1>1, <1>2, <1>3, <1>4, <1>5, <1>6, <1>7, <1>8 DEF Next

\* The inductive invariant holds for any number of sockets and attempts.
THEOREM ConnectInvariant == Spec => []Inv
<1> QED BY InitInv, NextInv, PTL DEF Spec

\* No socket is leaked, closed twice or shared, whatever attempt replaces which
\* (ConnectSocket, CoConnectSocket, UniqueSocketDescriptor).
THEOREM SocketsAlwaysOwned == Spec => []EverySocketOwned
<1>1. Inv => EverySocketOwned
  <2> SUFFICES ASSUME Inv PROVE EverySocketOwned
    OBVIOUS
  <2>1. {Owners[i] : i \in 1 .. 3} = {event, fd, client}
    BY DEF Owners
  <2>2. open = {event, fd, client} \ {NoSocket}
    BY NoSocketAssumption DEF Inv, Types, Suspended, MaybeSocket
  <2>3. /\ event # NoSocket => event # fd /\ event # client
        /\ fd # NoSocket => fd # event /\ fd # client
        /\ client # NoSocket => client # event /\ client # fd
    BY DEF Inv, Types, Suspended
  <2>4. ASSUME NEW i \in 1 .. 3, NEW j \in 1 .. 3, i # j, Owners[i] # NoSocket
        PROVE  Owners[i] # Owners[j]
    <3>1. (i = 1 \/ i = 2 \/ i = 3) /\ (j = 1 \/ j = 2 \/ j = 3)
      OBVIOUS
    <3>2. Owners[1] = event /\ Owners[2] = fd /\ Owners[3] = client
      BY DEF Owners
    <3> QED BY <2>3, <2>4, <3>1, <3>2
  <2> QED BY <2>1, <2>2, <2>4 DEF EverySocketOwned
<1> QED BY <1>1, ConnectInvariant, PTL

\* No event of the loop reaches a coroutine that is gone.
THEOREM EventsAlwaysExpected == Spec => []EventsReachTheWaiting
<1>1. Inv => EventsReachTheWaiting
  BY DEF Inv, Types, Suspended, EventsReachTheWaiting
<1> QED BY <1>1, ConnectInvariant, PTL

\* The link leads to the server that was asked for, unless the address is gone
\* before the proxy is asked.
THEOREM AlwaysRightServer == Spec => []RightServer
<1>1. Inv => RightServer
  BY DEF Inv, Directed, RightServer
<1> QED BY <1>1, ConnectInvariant, PTL

\* A step of the coroutine is a step of the asynchronous call, or none.
LEMMA StepRefines == Inv /\ [Next]_vars => [A!Next]_(A!vars)
<1> SUFFICES ASSUME Inv, [Next]_vars PROVE [A!Next]_(A!vars)
  OBVIOUS
<1> USE DEF A!vars, A!Next, A!Start, A!StartAndReport, A!Report, A!Cancel
<1>1. ASSUME NEW address \in Servers, NEW stack \in BOOLEAN, ConnectAsync(address, stack)
      PROVE  A!Next
  BY <1>1 DEF ConnectAsync, DestroyCoroutine, Gone, Complete
<1>2. ASSUME at # "none", Throw, UNCHANGED attempt
      PROVE  A!Next
  BY <1>2 DEF Throw, Gone, Complete
<1>3. CASE OnEvent
  BY <1>2, <1>3 DEF OnEvent, Gone, Complete
<1>4. CASE OnSocketReady
  BY <1>2, <1>4 DEF OnSocketReady, Gone, Complete
<1>5. CASE OnTimeout
  <2>1. at # "none"
    BY <1>5 DEF OnTimeout, Inv, Suspended
  <2> QED BY <1>2, <1>5, <2>1 DEF OnTimeout
<1>6. CASE Disconnect
  BY <1>6 DEF Disconnect, coroutine
<1>7. CASE Destroy
  BY <1>7 DEF Destroy, DestroyCoroutine, Gone
<1>8. ASSUME NEW s \in Sockets, Answer(s)
      PROVE  UNCHANGED A!vars
  BY <1>8 DEF Answer, coroutine
<1>9. CASE UNCHANGED vars
  BY <1>9 DEF vars, coroutine
<1> QED BY <1>1, <1>3, <1>4, <1>5, <1>6, <1>7, <1>8, <1>9 DEF Next

\* The coroutine implements the asynchronous call: the outcome of an attempt is
\* reported at most once, and never after it was replaced or cancelled.
THEOREM ConnectRefines == Spec => ReportsOnce
<1>1. Init => A!Init
  BY DEF Init, A!Init
<1> QED BY <1>1, StepRefines, ConnectInvariant, PTL DEF Spec, ReportsOnce, A!Spec
=============================================================================
