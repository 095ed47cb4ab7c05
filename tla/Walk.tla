-------------------------------- MODULE Walk --------------------------------
(***************************************************************************)
(* Walking on one Connection that is in game: several clients share one    *)
(* character, so the steps of one client at a time are numbered anew, sent *)
(* to the real server and kept in WalkState until the server answers.      *)
(*                                                                         *)
(* The link to the server is a pair of FIFO channels; the server answers   *)
(* each step with an ack or a cancel, in order.  Every step has an "id"    *)
(* (history), so that a property can tell which step an answer is about.   *)
(***************************************************************************)
EXTENDS Integers, Sequences

CONSTANTS
  LinkedServers,  \* clients that may be attached
  NoServer,       \* null pointer
  QueueSize,      \* walk.queue.size(), 4 in the source
  SeqMod,         \* size of the type of seq_next, 256 in the source
  LinkBreaks,     \* the link to the server may break
  MaxInFlight,    \* bound: steps on the link at a time
  MaxId           \* bound: steps sent in a behaviour

ASSUME WalkAssumption ==
  /\ NoServer \notin LinkedServers
  /\ QueueSize \in Nat \ {0} /\ SeqMod \in Nat \ {0, 1}
  /\ LinkBreaks \in BOOLEAN
  /\ MaxInFlight \in Nat /\ MaxId \in Nat

VARIABLES
  server,        \* walk.server
  queue,         \* walk.queue[0..queue_size)
  seq_next,      \* walk.seq_next
  attached,      \* the clients in game on this connection
  reconnecting,  \* client.reconnecting: no link, or not in game again yet
  toServer,      \* steps and resync requests on their way to the server
  toProxy,       \* answers on their way back
  reply,         \* the last answer to a client, and why (history)
  id             \* steps sent so far (history)

walk == <<server, queue, seq_next>>
link == <<toServer, toProxy>>
vars == <<walk, attached, reconnecting, link, reply, id>>

Seq8 == 0 .. SeqMod - 1

\* owner: the client that asked for the step, NoServer once it has left.
Item == [id : Nat, seq : Seq8, owner : LinkedServers \cup {NoServer}]

Request == [cmd : {"Walk", "Resynchronize"}, id : Nat, seq : Seq8]
Resync == [cmd |-> "Resynchronize", id |-> 0, seq |-> 0]

Answer == [cmd : {"WalkAck", "WalkCancel"}, id : Nat, seq : Seq8]

\* to: the receiver; owner, id: of the queue entry answered; cause: the step
\* the server's answer is about, or the entry itself when the proxy answers.
Reply == [cmd : {"none", "WalkAck", "WalkCancel"},
          to : LinkedServers \cup {NoServer},
          owner : LinkedServers \cup {NoServer}, id : Nat, cause : Nat]

NoReply == [cmd |-> "none", to |-> NoServer, owner |-> NoServer, id |-> 0,
            cause |-> 0]

Init ==
  /\ server = NoServer /\ queue = <<>> /\ seq_next = 0
  /\ attached = {}
  /\ reconnecting = FALSE
  /\ toServer = <<>> /\ toProxy = <<>>
  /\ reply = NoReply
  /\ id = 0

-----------------------------------------------------------------------------
(***************************************************************************)
(* WalkState.                                                              *)
(***************************************************************************)

\* The queue without the entry at index i: the later ones move up.
Without(q, i) ==
  [j \in 1 .. Len(q) - 1 |-> IF j < i THEN q[j] ELSE q[j + 1]]

\* An empty queue has no walker.
WalkerOf(s, q) == IF q = <<>> THEN NoServer ELSE s

\* FindSequence(): the first entry sent with this number, if any.
Matches(n) == {i \in DOMAIN queue : queue[i].seq = n}

IsFirst(i, n) == i \in Matches(n) /\ \A j \in Matches(n) : i <= j

\* seq_next++, skipping 0 when the counter wraps around.
Succ(n) == IF n = SeqMod - 1 THEN 1 ELSE n + 1

\* Mutant: the pointer is left to dangle.
OnServerRemoved_Dangles(s) == server

OnServerRemoved(s) == IF server = s THEN NoServer ELSE server

-----------------------------------------------------------------------------
(***************************************************************************)
(* The clients.                                                            *)
(***************************************************************************)
\* Connection::Add() of a client that enters the game.
Add(s) ==
  /\ s \notin attached
  /\ attached' = attached \cup {s}
  /\ reply' = NoReply
  /\ UNCHANGED <<walk, reconnecting, link, id>>

\* Connection::Remove(): the queue is kept, its steps are still on the link.
Remove(s) ==
  /\ s \in attached
  /\ attached' = attached \ {s}
  /\ server' = OnServerRemoved(s)
  /\ queue' = [i \in DOMAIN queue |->
                 IF queue[i].owner = s THEN [queue[i] EXCEPT !.owner = NoServer]
                 ELSE queue[i]]
  /\ reply' = NoReply
  /\ UNCHANGED <<seq_next, reconnecting, link, id>>

\* Mutant: two clients walk at the same time.
Rejects_Nobody(s) == FALSE

\* Another client is walking, or one that has left was.
Rejects(s) == queue # <<>> /\ server # s

\* When the queue is full its oldest step is cancelled, and forgotten.
MakeRoom(q) == IF Len(q) >= QueueSize THEN Tail(q) ELSE q

\* HandleWalk() and OnWalkRequest(): refused while reconnecting or while
\* another client walks, else numbered, queued and sent.
HandleWalk(s) ==
  LET item == [id |-> id + 1, seq |-> seq_next, owner |-> s]
      full == Len(queue) >= QueueSize
  IN
  /\ s \in attached
  /\ \/ /\ reconnecting \/ Rejects(s)
        /\ reply' = [NoReply EXCEPT !.cmd = "WalkCancel", !.to = s, !.owner = s]
        /\ UNCHANGED <<walk, link, id>>
     \/ /\ ~reconnecting /\ ~Rejects(s)
        /\ Len(toServer) + Len(toProxy) < MaxInFlight /\ id < MaxId
        /\ reply' = IF full
                    THEN [NoReply EXCEPT !.cmd = "WalkCancel", !.to = s,
                            !.owner = queue[1].owner, !.id = queue[1].id,
                            !.cause = queue[1].id]
                    ELSE NoReply
        /\ server' = s
        /\ queue' = Append(MakeRoom(queue), item)
        /\ toServer' = Append(toServer, [cmd |-> "Walk", id |-> id + 1,
                                         seq |-> seq_next])
        /\ seq_next' = Succ(seq_next)
        /\ id' = id + 1
        /\ UNCHANGED toProxy
  /\ UNCHANGED <<attached, reconnecting>>

\* The client asks for a resync: forwarded unless reconnecting.
HandleResynchronize(s) ==
  /\ s \in attached
  /\ Len(toServer) + Len(toProxy) < MaxInFlight
  /\ seq_next' = 0
  /\ toServer' = IF reconnecting THEN toServer ELSE Append(toServer, Resync)
  /\ reply' = NoReply
  /\ UNCHANGED <<server, queue, attached, reconnecting, toProxy, id>>

\* A target response that is not a cancel forgets all steps.
HandleTarget(s) ==
  /\ s \in attached
  /\ seq_next' = 0 /\ queue' = <<>> /\ server' = NoServer
  /\ reply' = NoReply
  /\ UNCHANGED <<attached, reconnecting, link, id>>

-----------------------------------------------------------------------------
(***************************************************************************)
(* The real server (external): it answers in order.                        *)
(***************************************************************************)
ServerAnswers(cmd) ==
  /\ toServer # <<>>
  /\ toServer' = Tail(toServer)
  /\ toProxy' = IF Head(toServer).cmd = "Walk"
                THEN Append(toProxy, [Head(toServer) EXCEPT !.cmd = cmd])
                ELSE toProxy
  /\ reply' = NoReply
  /\ UNCHANGED <<walk, attached, reconnecting, id>>

(***************************************************************************)
(* Answers from the server.                                                *)
(***************************************************************************)
\* Mutant: the entry stays in the queue.
Remaining_All(i) == queue

Remaining(i) == Without(queue, i)

OnWalkAck ==
  LET p == Head(toProxy)
  IN
  /\ toProxy # <<>> /\ p.cmd = "WalkAck"
  /\ toProxy' = Tail(toProxy)
  /\ \/ /\ Matches(p.seq) = {}           \* out of sync: Resynchronize()
        /\ queue' = <<>> /\ server' = NoServer
        /\ toServer' = Append(toServer, Resync)
        /\ reply' = NoReply
     \/ \E i \in DOMAIN queue :
          /\ IsFirst(i, p.seq)
          /\ reply' = [cmd |-> IF server = NoServer THEN "none" ELSE "WalkAck",
                       to |-> server, owner |-> queue[i].owner, id |-> queue[i].id,
                       cause |-> p.id]
          /\ queue' = Remaining(i)
          /\ server' = WalkerOf(server, queue')
          /\ UNCHANGED toServer
  /\ UNCHANGED <<seq_next, attached, reconnecting, id>>

\* Mutant: a cancel removes only its own step.
AfterCancel_Rest(n) == SelectSeq(queue, LAMBDA i : i.seq # n)

AfterCancel(n) == <<>>

OnWalkCancel ==
  LET p == Head(toProxy)
      tell == server # NoServer /\ Matches(p.seq) # {}
  IN
  /\ toProxy # <<>> /\ p.cmd = "WalkCancel"
  /\ toProxy' = Tail(toProxy)
  /\ \/ /\ ~tell
        /\ reply' = NoReply
     \/ /\ tell
        /\ \E i \in DOMAIN queue :
             /\ IsFirst(i, p.seq)
             /\ reply' = [NoReply EXCEPT !.cmd = "WalkCancel", !.to = server,
                            !.owner = queue[i].owner, !.id = queue[i].id,
                            !.cause = p.id]
  /\ seq_next' = 0 /\ queue' = AfterCancel(p.seq) /\ server' = NoServer
  /\ UNCHANGED <<attached, reconnecting, toServer, id>>

-----------------------------------------------------------------------------
(***************************************************************************)
(* The link breaks (Connection::Disconnect() does not touch WalkState) and *)
(* the session is in game again.                                           *)
(***************************************************************************)
Disconnect ==
  /\ LinkBreaks /\ ~reconnecting
  /\ reconnecting' = TRUE
  /\ toServer' = <<>> /\ toProxy' = <<>>
  /\ reply' = NoReply
  /\ UNCHANGED <<walk, attached, id>>

HandleStart ==
  /\ reconnecting
  /\ reconnecting' = FALSE
  /\ seq_next' = 0
  /\ reply' = NoReply
  /\ UNCHANGED <<server, queue, attached, link, id>>

Next ==
  \/ \E s \in LinkedServers : \/ Add(s)
                              \/ Remove(s)
                              \/ HandleWalk(s)
                              \/ HandleResynchronize(s)
                              \/ HandleTarget(s)
  \/ \E cmd \in {"WalkAck", "WalkCancel"} : ServerAnswers(cmd)
  \/ OnWalkAck
  \/ OnWalkCancel
  \/ Disconnect
  \/ HandleStart

(***************************************************************************)
(* The server answers what it receives, the event loop handles what has    *)
(* arrived, and a reconnect succeeds in the end.  Clients owe nothing.     *)
(***************************************************************************)
Fairness ==
  /\ WF_vars(\E cmd \in {"WalkAck", "WalkCancel"} : ServerAnswers(cmd))
  /\ WF_vars(OnWalkAck) /\ WF_vars(OnWalkCancel)
  /\ WF_vars(HandleStart)

Spec == Init /\ [][Next]_vars /\ Fairness

-----------------------------------------------------------------------------
\* Every variable has its type, and the queue never outgrows its array.
TypeOK ==
  /\ server \in LinkedServers \cup {NoServer}
  /\ queue \in Seq(Item) /\ Len(queue) <= QueueSize
  /\ seq_next \in Seq8
  /\ attached \subseteq LinkedServers
  /\ reconnecting \in BOOLEAN
  /\ toServer \in Seq(Request) /\ toProxy \in Seq(Answer)
  /\ reply \in Reply
  /\ id \in Nat

\* walk.server never dangles: it is a client that is still attached, and it is
\* set only while steps are queued.
WalkerLive == server # NoServer => server \in attached /\ queue # <<>>

\* All queued steps are those of walk.server (or of a client that has left, and
\* then nobody is the walker), so that an answer goes to who asked for it.
OneWalker == \A i \in DOMAIN queue : queue[i].owner = server

\* An answer reaches an attached client that asked for the step, and a step
\* that was answered is out of the queue: nobody is answered twice.
AnsweredOnce ==
  reply.cmd # "none" =>
    /\ reply.to \in attached /\ reply.to = reply.owner
    /\ \A i \in DOMAIN queue : queue[i].id # reply.id

\* The queue is in the order of sending, each step once.
QueueOrdered ==
  /\ \A i \in DOMAIN queue : queue[i].id \in 1 .. id
  /\ \A i, j \in DOMAIN queue : i < j => queue[i].id < queue[j].id

\* A client that is refused because of the steps of another one can walk once
\* those are answered, whoever has left meanwhile (NEWS, 0.4: "don't clear
\* queue when client disconnects").
WalkingResumes ==
  \A s \in LinkedServers :
    (s \in attached /\ Rejects(s)) ~> (s \notin attached \/ ~Rejects(s))
=============================================================================
