------------------------------ MODULE Connect ------------------------------
(***************************************************************************)
(* How a Connection gets its link to the server: the coroutine CoConnect() *)
(* (CClient.cxx) in its Co::InvokeTask, which waits for a CoConnectSocket  *)
(* and, with a SOCKS4 proxy configured, for ProxySocksConnect().           *)
(*                                                                         *)
(* The coroutine runs from one co_await to the next in one step of the     *)
(* event loop.  Whoever resumes it may find it, and the awaited object     *)
(* that is calling, destroyed afterwards.  Sockets are numbered; a number  *)
(* is free again once it was closed.                                       *)
(***************************************************************************)
EXTENDS Integers, FiniteSets

CONSTANTS
  Sockets,        \* the numbers of sockets, a bound
  Servers,        \* addresses
  NoSocket,
  MaxAttempts     \* bound: calls of ConnectAsync()

ASSUME NoSocketAssumption == NoSocket \notin Sockets

VARIABLES
  socks,          \* whether config.socks4_address is set
  alive,          \* the Connection
  at,             \* where CoConnect() waits: "none", "connect" or "socks"
  server,         \* its argument server_address ...
  on_stack,       \* ... and whether that points into HandleRelay()'s frame
  event,          \* the socket of ConnectSocket::event
  timeout_event,  \* pending or not
  awaited,        \* the socket of the AwaitableSocketEvent
  fd,             \* the coroutine's socket
  client,         \* the socket of client.client
  attempt, reported,
  open,           \* kernel: the open sockets
  epoll,          \* kernel: the registered sockets
  state,          \* kernel: "new", "connected", "failed" or the proxy's answer
  peer            \* kernel: the server at the other end

coroutine == <<at, server, on_stack, event, timeout_event, awaited, fd>>
kernel == <<open, epoll, state, peer>>
vars == <<socks, alive, coroutine, client, attempt, reported, kernel>>

Init ==
  /\ socks \in BOOLEAN
  /\ alive = TRUE /\ at = "none" /\ server \in Servers /\ on_stack = FALSE
  /\ event = NoSocket /\ timeout_event = FALSE /\ awaited = NoSocket /\ fd = NoSocket
  /\ client = NoSocket /\ attempt = 0 /\ reported = 0
  /\ open = {} /\ epoll = {}
  /\ state = [s \in Sockets |-> "new"] /\ peer \in [Sockets -> {server}]

\* Neither a coroutine nor anything that it awaits.
Gone ==
  /\ at' = "none" /\ event' = NoSocket /\ timeout_event' = FALSE
  /\ awaited' = NoSocket /\ fd' = NoSocket

\* Destroying a suspended coroutine: its awaited object cancels the events and
\* closes its socket, then the coroutine's socket is closed.
DestroyCoroutine_TimerRuns ==
  /\ at' = "none" /\ event' = NoSocket /\ awaited' = NoSocket /\ fd' = NoSocket
  /\ UNCHANGED timeout_event

DestroyCoroutine == Gone

\* The sockets that are closed with it.
Owned_NotAwaited == {event} \ {NoSocket}
Owned == {event, fd} \ {NoSocket}

\* The coroutine is through, by co_return or by an exception: final_suspend
\* releases the handle and calls OnConnectComplete().
Complete(n) == reported' = n

\* ConnectSocket::WaitConnected(), with the timeout of 30 seconds.
WaitConnected_NoTimeout(s) == event' = s /\ UNCHANGED timeout_event
WaitConnected(s) == event' = s /\ timeout_event' = TRUE

\* ::Connect() gets a new socket and begins to connect it.
SocketConnect(address, s) ==
  /\ s \in Sockets \ (open \ Owned)
  /\ open' = (open \ Owned) \cup {s} /\ epoll' = (epoll \ Owned) \cup {s}
  /\ state' = [state EXCEPT ![s] = "new"]
  /\ peer' = [peer EXCEPT ![s] = address]
  /\ WaitConnected(s)

\* ConnectAsync(): a coroutine that is still suspended is destroyed; the new one
\* starts and connects.  If that fails at once, the callback is called from
\* here.  server_address is a pointer.
ConnectAsync(address, stack) ==
  /\ alive /\ client = NoSocket
  /\ attempt < MaxAttempts /\ attempt' = attempt + 1
  /\ server' = address /\ on_stack' = stack
  /\ \/ /\ DestroyCoroutine /\ Complete(attempt + 1)
        /\ open' = open \ Owned /\ epoll' = epoll \ Owned
        /\ UNCHANGED <<state, peer>>
     \/ \E s \in Sockets :
          /\ SocketConnect(address, s)
          /\ at' = "connect"
          /\ awaited' = NoSocket /\ fd' = NoSocket
          /\ UNCHANGED reported
  /\ UNCHANGED <<socks, alive, client>>

\* An exception: the coroutine's objects and sockets go.
Throw ==
  /\ Gone /\ Complete(attempt)
  /\ open' = open \ Owned /\ epoll' = epoll \ Owned
  /\ UNCHANGED <<server, on_stack, client, state, peer>>

\* ProxySocksConnect() reads server_address when it sends the request; then the
\* frame of HandleRelay() is long gone, and the pointer leads anywhere.
Requested == IF on_stack THEN Servers ELSE {server}

\* ConnectSocket::OnEvent(): an error closes the socket; success hands it over,
\* through CoConnectSocket, to the coroutine.
OnEvent ==
  /\ at = "connect" /\ event \in epoll /\ state[event] # "new"
  /\ IF state[event] = "failed" THEN Throw
     ELSE IF ~socks THEN
       /\ client' = event
       /\ Gone /\ Complete(attempt)
       /\ epoll' = epoll \ {event}
       /\ UNCHANGED <<server, on_stack, open, state, peer>>
     ELSE
       \/ \* the request could not be sent
          Throw
       \/ /\ at' = "socks" /\ timeout_event' = FALSE
          /\ fd' = event /\ event' = NoSocket /\ awaited' = event
          /\ state' = [state EXCEPT ![event] = "new"]
          /\ \E address \in Requested : peer' = [peer EXCEPT ![event] = address]
          /\ UNCHANGED <<server, on_stack, client, reported, open, epoll>>
  /\ UNCHANGED <<socks, alive, attempt>>

\* AwaitableSocketEvent::OnSocketReady() and the rest of the coroutine.
OnSocketReady ==
  /\ at = "socks" /\ awaited \in epoll /\ state[awaited] # "new"
  /\ IF state[awaited] = "connected"
       THEN /\ client' = fd
            /\ Gone /\ Complete(attempt)
            /\ epoll' = epoll \ {awaited}
            /\ UNCHANGED <<server, on_stack, open, state, peer>>
       ELSE Throw        \* rejected, a short answer or an error
  /\ UNCHANGED <<socks, alive, attempt>>

\* ConnectSocket::OnTimeout(), which resumes whatever the continuation is.
OnTimeout ==
  /\ timeout_event
  /\ Throw
  /\ UNCHANGED <<socks, alive, attempt>>

\* Connection::Disconnect(): without a link it returns early, and a pending
\* attempt goes on.
Disconnect ==
  /\ alive /\ client # NoSocket
  /\ client' = NoSocket
  /\ open' = open \ {client}
  /\ UNCHANGED <<socks, alive, coroutine, attempt, reported, epoll, state, peer>>

\* ~Connection()
Destroy ==
  /\ alive /\ alive' = FALSE
  /\ DestroyCoroutine
  /\ client' = NoSocket
  /\ open' = open \ (Owned \cup {client}) /\ epoll' = epoll \ Owned
  /\ UNCHANGED <<socks, server, on_stack, attempt, reported, state, peer>>

\* The network: a connect succeeds or fails, the proxy answers.
Answer(s) ==
  /\ s \in epoll /\ state[s] = "new"
  /\ \E r \in {"connected", "failed"} : state' = [state EXCEPT ![s] = r]
  /\ UNCHANGED <<socks, alive, coroutine, client, attempt, reported, open, epoll, peer>>

Next ==
  \/ \E address \in Servers, stack \in BOOLEAN : ConnectAsync(address, stack)
  \/ OnEvent
  \/ OnSocketReady
  \/ OnTimeout
  \/ Disconnect
  \/ Destroy
  \/ \E s \in Sockets : Answer(s)

\* The event loop runs the timer when it is due.  The network owes nothing.
Spec == Init /\ [][Next]_vars /\ WF_vars(OnTimeout)

----------------------------------------------------------------------------
Owners == <<event, fd, client>>

\* Every open socket has exactly one owner, which will close it: the connecting
\* event, the coroutine or the client; and no owner has a closed socket.
EverySocketOwned ==
  /\ open = {Owners[i] : i \in 1 .. 3} \ {NoSocket}
  /\ \A i, j \in 1 .. 3 : i # j /\ Owners[i] # NoSocket => Owners[i] # Owners[j]

\* epoll knows the socket that the coroutine waits for, and no other: no event
\* can reach an object that is gone.
EventsReachTheWaiting ==
  epoll = IF at = "connect" THEN {event} ELSE IF at = "socks" THEN {awaited} ELSE {}

\* The link leads to the server that was asked for.  Through a proxy this is so
\* only if the address outlives the first co_await.
RightServer == client # NoSocket /\ ~(socks /\ on_stack) => peer[client] = server

A == INSTANCE AsyncConnect WITH pending <- at # "none"

\* The callback of an attempt comes at most once, never for one that was
\* replaced and never for a Connection that is gone.
ReportsOnce == A!Spec

\* Connecting ends: with the network's answer or with the timeout.
ConnectEnds == at = "connect" ~> at # "connect"
============================================================================
