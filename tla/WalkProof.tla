----------------------------- MODULE WalkProof -----------------------------
(***************************************************************************)
(* Proofs about Walk, for any number of clients, any queue size and any    *)
(* width of the sequence number.                                           *)
(***************************************************************************)
EXTENDS Walk, TLAPS

\* The inductive invariant.  Each part needs the others: an answer reaches its
\* requester because all entries are the walker's, the walker is attached
\* because removal clears it, and an entry is answered once because ids grow.
WalkInv ==
  /\ TypeOK
  /\ WalkerLive
  /\ OneWalker
  /\ QueueOrdered
  /\ AnsweredOnce

\* Removing one entry leaves a queue that is shorter by one, whose entries are
\* entries of the old one in the old order, and not the removed one.
LEMMA WithoutFacts ==
  ASSUME NEW S, NEW q \in Seq(S), NEW i \in 1 .. Len(q)
  PROVE  /\ Without(q, i) \in Seq(S)
         /\ Len(Without(q, i)) = Len(q) - 1
         /\ DOMAIN Without(q, i) = 1 .. Len(q) - 1
         /\ \A j \in 1 .. Len(q) - 1 :
              Without(q, i)[j] = IF j < i THEN q[j] ELSE q[j + 1]
  <1> DEFINE n == Len(q) - 1
             f == [j \in 1 .. n |-> IF j < i THEN q[j] ELSE q[j + 1]]
  <1>1. n \in Nat
    OBVIOUS
  <1>2. \A j \in 1 .. n : (IF j < i THEN q[j] ELSE q[j + 1]) \in S
    OBVIOUS
  <1>3. f \in Seq(S) /\ Len(f) = n /\ DOMAIN f = 1 .. n
    BY <1>1, <1>2
  <1> QED
    BY <1>3 DEF Without

\* Dropping the head of a non-empty queue.
LEMMA TailFacts ==
  ASSUME NEW S, NEW q \in Seq(S), q # <<>>
  PROVE  /\ Tail(q) \in Seq(S)
         /\ Len(Tail(q)) = Len(q) - 1
         /\ \A j \in 1 .. Len(q) - 1 : Tail(q)[j] = q[j + 1]
  OBVIOUS

\* A map over a queue keeps its length.
LEMMA MapFacts ==
  ASSUME NEW S, NEW q \in Seq(S), NEW f,
         DOMAIN f = DOMAIN q, f = [i \in DOMAIN q |-> f[i]],
         \A i \in DOMAIN q : f[i] \in S
  PROVE  f \in Seq(S) /\ Len(f) = Len(q)
  <1>1. DOMAIN q = 1 .. Len(q) /\ Len(q) \in Nat
    OBVIOUS
  <1> QED
    BY <1>1

-----------------------------------------------------------------------------
\* Types of the messages and replies the actions build.
LEMMA ReplyTypes ==
  /\ NoReply \in Reply
  /\ Resync \in Request
  /\ 0 \in Seq8
  /\ \A n \in Seq8 : Succ(n) \in Seq8
  BY WalkAssumption DEF NoReply, Reply, Resync, Request, Seq8, Succ

\* Types of the entries of the queue.
LEMMA ItemTypes ==
  ASSUME TypeOK
  PROVE  \A i \in DOMAIN queue : /\ queue[i] \in Item
                                 /\ queue[i].id \in Nat /\ queue[i].seq \in Seq8
                                 /\ queue[i].owner \in LinkedServers \cup {NoServer}
  <1>1. \A i \in DOMAIN queue : queue[i] \in Item
    BY DEF TypeOK
  <1> QED
    BY <1>1 DEF Item

LEMMA InitWalkInv == Init => WalkInv
  <1> SUFFICES ASSUME Init PROVE WalkInv
    OBVIOUS
  <1>1. queue = <<>> /\ DOMAIN queue = {} /\ Len(queue) = 0
    BY DEF Init
  <1>2. <<>> \in Seq(Item) /\ <<>> \in Seq(Request) /\ <<>> \in Seq(Answer)
    OBVIOUS
  <1>3. 0 <= QueueSize
    BY WalkAssumption
  <1>4. TypeOK
    BY <1>1, <1>2, <1>3, ReplyTypes DEF Init, TypeOK
  <1> QED
    BY <1>1, <1>4
       DEF Init, WalkInv, WalkerLive, OneWalker, QueueOrdered, AnsweredOnce, NoReply

LEMMA AddInv == ASSUME WalkInv, NEW s \in LinkedServers, Add(s) PROVE WalkInv'
  BY ReplyTypes
     DEF WalkInv, TypeOK, WalkerLive, OneWalker, QueueOrdered, AnsweredOnce,
         Add, walk, link, NoReply

LEMMA RemoveInv ==
  ASSUME WalkInv, NEW s \in LinkedServers, Remove(s) PROVE WalkInv'
  <1> USE DEF WalkInv
  <1>1. /\ DOMAIN queue' = DOMAIN queue
        /\ queue' = [i \in DOMAIN queue |-> queue'[i]]
        /\ \A i \in DOMAIN queue : queue[i] \in Item
    BY DEF Remove, TypeOK
  <1>2. \A i \in DOMAIN queue :
          /\ queue'[i] \in Item
          /\ queue'[i].id = queue[i].id
          /\ queue'[i].owner = IF queue[i].owner = s THEN NoServer ELSE queue[i].owner
    BY <1>1 DEF Remove, Item
  <1>3. queue' \in Seq(Item) /\ Len(queue') = Len(queue)
    BY <1>1, <1>2, MapFacts DEF TypeOK
  <1>4. TypeOK'
    BY <1>3, ReplyTypes DEF TypeOK, Remove, link, OnServerRemoved
  <1>5. WalkerLive'
    BY <1>3, WalkAssumption DEF TypeOK, WalkerLive, Remove, OnServerRemoved
  <1>6. OneWalker'
    BY <1>1, <1>2 DEF OneWalker, Remove, OnServerRemoved
  <1>7. QueueOrdered'
    BY <1>1, <1>2 DEF QueueOrdered, Remove
  <1>8. AnsweredOnce'
    BY DEF AnsweredOnce, Remove, NoReply
  <1> QED
    BY <1>4, <1>5, <1>6, <1>7, <1>8

\* What remains of the queue when a step is to be added.
LEMMA MakeRoomFacts ==
  ASSUME TypeOK
  PROVE  /\ MakeRoom(queue) \in Seq(Item)
         /\ Len(MakeRoom(queue)) <= QueueSize - 1
         /\ \E k \in {0, 1} :
              /\ k = 1 <=> Len(queue) >= QueueSize
              /\ Len(MakeRoom(queue)) = Len(queue) - k
              /\ \A j \in 1 .. Len(MakeRoom(queue)) :
                   MakeRoom(queue)[j] = queue[j + k]
  <1>1. CASE Len(queue) >= QueueSize
    <2>1. queue \in Seq(Item) /\ queue # <<>> /\ Len(queue) = QueueSize
      BY <1>1, WalkAssumption DEF TypeOK
    <2>2. MakeRoom(queue) = Tail(queue)
      BY <1>1 DEF MakeRoom
    <2> QED
      BY <1>1, <2>1, <2>2, TailFacts, WalkAssumption
  <1>2. CASE ~(Len(queue) >= QueueSize)
    <2>1. MakeRoom(queue) = queue
      BY <1>2 DEF MakeRoom
    <2> QED
      BY <1>2, <2>1, WalkAssumption DEF TypeOK
  <1> QED
    BY <1>1, <1>2

LEMMA HandleWalkInv ==
  ASSUME WalkInv, NEW s \in LinkedServers, HandleWalk(s) PROVE WalkInv'
  <1> USE DEF WalkInv
  <1>1. CASE reconnecting \/ Rejects(s)
    <2>1. /\ UNCHANGED <<server, queue, seq_next, toServer, toProxy, id>>
          /\ UNCHANGED <<attached, reconnecting>>
          /\ s \in attached
          /\ reply' = [NoReply EXCEPT !.cmd = "WalkCancel", !.to = s, !.owner = s]
      BY <1>1 DEF HandleWalk, walk, link
    <2>2. reply' \in Reply /\ reply'.to = s /\ reply'.owner = s /\ reply'.id = 0
      BY <2>1, ReplyTypes DEF NoReply, Reply
    <2>3. TypeOK' /\ WalkerLive' /\ OneWalker' /\ QueueOrdered'
      BY <2>1, <2>2 DEF TypeOK, WalkerLive, OneWalker, QueueOrdered
    <2>4. \A i \in DOMAIN queue' : queue'[i].id # reply'.id
      BY <2>1, <2>2, 0 \notin 1 .. id DEF QueueOrdered, TypeOK
    <2> QED
      BY <2>1, <2>2, <2>3, <2>4 DEF AnsweredOnce
  <1>2. CASE ~reconnecting /\ ~Rejects(s)
    <2> DEFINE item == [id |-> id + 1, seq |-> seq_next, owner |-> s]
               room == MakeRoom(queue)
    <2>1. /\ s \in attached /\ server' = s
          /\ queue' = Append(room, item)
          /\ toServer' = Append(toServer, [cmd |-> "Walk", id |-> id + 1,
                                            seq |-> seq_next])
          /\ seq_next' = Succ(seq_next) /\ id' = id + 1
          /\ UNCHANGED <<toProxy, attached, reconnecting>>
      BY <1>2 DEF HandleWalk
    <2>2. PICK k \in {0, 1} :
            /\ k = 1 <=> Len(queue) >= QueueSize
            /\ Len(room) = Len(queue) - k
            /\ \A j \in 1 .. Len(room) : room[j] = queue[j + k]
      BY MakeRoomFacts
    <2>3. room \in Seq(Item) /\ Len(room) <= QueueSize - 1
      BY MakeRoomFacts
    <2>4. item \in Item
      BY DEF TypeOK, Item
    <2>5. /\ queue' \in Seq(Item) /\ Len(queue') = Len(room) + 1
          /\ DOMAIN queue' = 1 .. Len(room) + 1
          /\ \A j \in 1 .. Len(room) : queue'[j] = queue[j + k]
          /\ queue'[Len(room) + 1] = item
      BY <2>1, <2>2, <2>3, <2>4
    <2>6. \A j \in 1 .. Len(room) : j + k \in DOMAIN queue
      BY <2>2, <2>3 DEF TypeOK
    <2>7. queue = <<>> \/ server = s
      BY <1>2 DEF Rejects
    <2>8. k = 1 =>
            /\ 1 \in DOMAIN queue
            /\ reply' = [NoReply EXCEPT !.cmd = "WalkCancel", !.to = s,
                           !.owner = queue[1].owner, !.id = queue[1].id,
                           !.cause = queue[1].id]
      BY <1>2, <2>2, WalkAssumption DEF HandleWalk, TypeOK
    <2>9. k = 0 => reply' = NoReply
      BY <1>2, <2>2 DEF HandleWalk
    <2>10. k = 1 => /\ queue[1] \in Item /\ queue[1].owner = s
                    /\ queue[1].id \in Nat
      <3> SUFFICES ASSUME k = 1 PROVE /\ queue[1] \in Item /\ queue[1].owner = s
                                      /\ queue[1].id \in Nat
        OBVIOUS
      <3>1. 1 \in DOMAIN queue
        BY <2>8
      <3>2. queue # <<>>
        BY <3>1
      <3> QED
        BY <2>7, <3>1, <3>2, ItemTypes DEF OneWalker
    <2>11. k = 1 => /\ reply'.to = s /\ reply'.owner = s
                    /\ reply'.id = queue[1].id /\ reply' \in Reply
      BY <2>8, <2>10 DEF NoReply, Reply
    <2>12. reply' \in Reply
      BY <2>2, <2>9, <2>11, ReplyTypes
    <2>13. toServer' \in Seq(Request) /\ seq_next' \in Seq8 /\ id' \in Nat
      BY <2>1, ReplyTypes DEF TypeOK, Request
    <2>14. TypeOK'
      BY <2>1, <2>3, <2>5, <2>12, <2>13, WalkAssumption DEF TypeOK
    <2>15. WalkerLive'
      BY <2>1, <2>3, <2>5 DEF WalkerLive
    <2>16. OneWalker'
      BY <2>1, <2>5, <2>6, <2>7 DEF OneWalker
    <2>17. QueueOrdered'
      <3>1. \A j \in 1 .. Len(room) : queue'[j].id \in 1 .. id
        BY <2>5, <2>6 DEF QueueOrdered
      <3>2. queue'[Len(room) + 1].id = id + 1
        BY <2>5
      <3>3. \A i, j \in 1 .. Len(room) : i < j => queue'[i].id < queue'[j].id
        <4> SUFFICES ASSUME NEW i \in 1 .. Len(room), NEW j \in 1 .. Len(room), i < j
                     PROVE  queue'[i].id < queue'[j].id
          OBVIOUS
        <4>1. i + k \in DOMAIN queue /\ j + k \in DOMAIN queue /\ i + k < j + k
          BY <2>3, <2>6
        <4>2. queue[i + k].id < queue[j + k].id
          BY <4>1 DEF QueueOrdered
        <4> QED
          BY <2>5, <4>2
      <3>4. \A i \in 1 .. Len(room) + 1 : queue'[i].id \in 1 .. id'
        BY <2>1, <2>3, <3>1, <3>2 DEF TypeOK
      <3>5. \A i, j \in 1 .. Len(room) + 1 : i < j => queue'[i].id < queue'[j].id
        <4> SUFFICES ASSUME NEW i \in 1 .. Len(room) + 1,
                            NEW j \in 1 .. Len(room) + 1, i < j
                     PROVE  queue'[i].id < queue'[j].id
          OBVIOUS
        <4>1. i \in 1 .. Len(room)
          BY <2>3
        <4>2. CASE j \in 1 .. Len(room)
          BY <3>3, <4>1, <4>2
        <4>3. CASE j = Len(room) + 1
          BY <3>1, <3>2, <4>1, <4>3 DEF TypeOK
        <4> QED
          BY <2>3, <4>2, <4>3
      <3> QED
        BY <2>5, <3>4, <3>5 DEF QueueOrdered
    <2>18. AnsweredOnce'
      <3>1. CASE k = 0
        BY <2>9, <3>1 DEF AnsweredOnce, NoReply
      <3>2. CASE k = 1
        <4>1. \A j \in 1 .. Len(room) : queue'[j].id # queue[1].id
          <5> SUFFICES ASSUME NEW j \in 1 .. Len(room)
                       PROVE  queue'[j].id # queue[1].id
            OBVIOUS
          <5>1. j + 1 \in DOMAIN queue /\ 1 < j + 1 /\ queue'[j] = queue[j + 1]
            BY <2>3, <2>5, <2>6, <3>2
          <5>2. queue[1].id < queue[j + 1].id
            BY <2>8, <3>2, <5>1 DEF QueueOrdered
          <5>3. queue[1].id \in Nat /\ queue[j + 1].id \in Nat
            BY <2>8, <3>2, <5>1, ItemTypes
          <5> QED
            BY <5>1, <5>2, <5>3
        <4>2. queue'[Len(room) + 1].id # queue[1].id
          BY <2>5, <2>8, <3>2 DEF QueueOrdered, TypeOK
        <4> QED
          BY <2>1, <2>3, <2>5, <2>11, <3>2, <4>1, <4>2 DEF AnsweredOnce
      <3> QED
        BY <2>2, <3>1, <3>2
    <2> QED
      BY <2>14, <2>15, <2>16, <2>17, <2>18
  <1> QED
    BY <1>1, <1>2

LEMMA HandleResynchronizeInv ==
  ASSUME WalkInv, NEW s \in LinkedServers, HandleResynchronize(s) PROVE WalkInv'
  BY ReplyTypes
     DEF WalkInv, TypeOK, WalkerLive, OneWalker, QueueOrdered, AnsweredOnce,
         HandleResynchronize, NoReply

LEMMA HandleTargetInv ==
  ASSUME WalkInv, NEW s \in LinkedServers, HandleTarget(s) PROVE WalkInv'
  <1>1. queue' \in Seq(Item) /\ Len(queue') = 0 /\ DOMAIN queue' = {}
    BY DEF HandleTarget
  <1>2. TypeOK'
    BY <1>1, ReplyTypes, WalkAssumption DEF WalkInv, TypeOK, HandleTarget, link
  <1> QED
    BY <1>1, <1>2
       DEF WalkInv, WalkerLive, OneWalker, QueueOrdered, AnsweredOnce,
           HandleTarget, NoReply

\* The server's answers leave a suffix of the answers.
LEMMA AnswerFacts ==
  ASSUME TypeOK, toProxy # <<>>
  PROVE  /\ Head(toProxy) \in Answer
         /\ Head(toProxy).seq \in Seq8 /\ Head(toProxy).id \in Nat
         /\ Tail(toProxy) \in Seq(Answer)
  <1>1. toProxy \in Seq(Answer)
    BY DEF TypeOK
  <1>2. Head(toProxy) \in Answer /\ Tail(toProxy) \in Seq(Answer)
    BY <1>1
  <1> QED
    BY <1>2 DEF Answer

LEMMA ServerAnswersInv ==
  ASSUME WalkInv, NEW cmd \in {"WalkAck", "WalkCancel"}, ServerAnswers(cmd)
  PROVE  WalkInv'
  <1> DEFINE h == Head(toServer)
  <1>1. /\ toServer \in Seq(Request) /\ toServer # <<>>
        /\ toProxy \in Seq(Answer)
    BY DEF WalkInv, TypeOK, ServerAnswers
  <1>2. h \in Request /\ Tail(toServer) \in Seq(Request)
    BY <1>1
  <1>3. [h EXCEPT !.cmd = cmd] \in Answer
    BY <1>2 DEF Request, Answer
  <1>4. toProxy' \in Seq(Answer) /\ toServer' \in Seq(Request)
    BY <1>1, <1>2, <1>3 DEF ServerAnswers
  <1>5. /\ UNCHANGED <<server, queue, seq_next, attached, reconnecting, id>>
        /\ reply' = NoReply
    BY DEF ServerAnswers, walk
  <1> QED
    BY <1>4, <1>5, ReplyTypes
       DEF WalkInv, TypeOK, WalkerLive, OneWalker, QueueOrdered, AnsweredOnce, NoReply

LEMMA OnWalkAckInv == ASSUME WalkInv, OnWalkAck PROVE WalkInv'
  <1> USE DEF WalkInv
  <1> DEFINE p == Head(toProxy)
  <1>1. /\ toProxy # <<>> /\ toProxy' = Tail(toProxy)
        /\ UNCHANGED <<seq_next, attached, reconnecting, id>>
    BY DEF OnWalkAck
  <1>2. p.seq \in Seq8 /\ p.id \in Nat /\ toProxy' \in Seq(Answer)
    BY <1>1, AnswerFacts
  <1>3. CASE /\ queue' = <<>> /\ server' = NoServer
             /\ toServer' = Append(toServer, Resync)
             /\ reply' = NoReply
    <2>1. queue' \in Seq(Item) /\ Len(queue') = 0 /\ DOMAIN queue' = {}
      BY <1>3
    <2>2. toServer' \in Seq(Request)
      BY <1>3, ReplyTypes DEF TypeOK
    <2>3. TypeOK'
      BY <1>1, <1>2, <1>3, <2>1, <2>2, ReplyTypes, WalkAssumption DEF TypeOK
    <2> QED
      BY <1>3, <2>1, <2>3
         DEF WalkerLive, OneWalker, QueueOrdered, AnsweredOnce, NoReply
  <1>4. ASSUME NEW i \in DOMAIN queue,
               reply' = [cmd |-> IF server = NoServer THEN "none" ELSE "WalkAck",
                         to |-> server, owner |-> queue[i].owner,
                         id |-> queue[i].id, cause |-> p.id],
               queue' = Without(queue, i),
               server' = WalkerOf(server, queue'),
               UNCHANGED toServer
        PROVE  WalkInv'
    <2> DEFINE n == Len(queue) - 1
    <2>1. /\ queue \in Seq(Item) /\ Len(queue) \in Nat
          /\ DOMAIN queue = 1 .. Len(queue) /\ i \in 1 .. Len(queue)
      BY DEF TypeOK
    <2>2. /\ queue' \in Seq(Item) /\ Len(queue') = n /\ DOMAIN queue' = 1 .. n
          /\ \A j \in 1 .. n : queue'[j] = IF j < i THEN queue[j] ELSE queue[j + 1]
      BY <1>4, <2>1, WithoutFacts
    <2>3. server' \in {server, NoServer}
      BY <1>4 DEF WalkerOf
    <2>4. reply' \in Reply
      BY <1>2, <1>4, ItemTypes DEF TypeOK, Reply
    <2>5. TypeOK'
      BY <1>1, <1>2, <1>4, <2>1, <2>2, <2>3, <2>4, WalkAssumption DEF TypeOK
    <2>6. WalkerLive'
      BY <1>1, <1>4 DEF WalkerLive, WalkerOf
    <2>7. OneWalker'
      <3> SUFFICES ASSUME NEW j \in 1 .. n PROVE queue'[j].owner = server'
        BY <2>2 DEF OneWalker
      <3>1. queue' # <<>>
        BY <2>2
      <3>2. server' = server
        BY <1>4, <3>1 DEF WalkerOf
      <3>3. j \in DOMAIN queue /\ j + 1 \in DOMAIN queue
        BY <2>1
      <3> QED
        BY <2>2, <3>2, <3>3 DEF OneWalker
    <2>8. QueueOrdered'
      <3>1. ASSUME NEW j \in 1 .. n PROVE queue'[j].id \in 1 .. id'
        <4>1. j \in DOMAIN queue /\ j + 1 \in DOMAIN queue
          BY <2>1
        <4>2. queue[j].id \in 1 .. id /\ queue[j + 1].id \in 1 .. id
          BY <4>1 DEF QueueOrdered
        <4> QED
          BY <1>1, <2>2, <4>2
      <3>2. ASSUME NEW j \in 1 .. n, NEW k \in 1 .. n, j < k
            PROVE  queue'[j].id < queue'[k].id
        <4> DEFINE J == IF j < i THEN j ELSE j + 1
                   K == IF k < i THEN k ELSE k + 1
        <4>1. J \in DOMAIN queue /\ K \in DOMAIN queue /\ J < K
          BY <2>1, <3>2
        <4>2. queue'[j] = queue[J] /\ queue'[k] = queue[K]
          BY <2>2
        <4>3. queue[J].id < queue[K].id
          BY <4>1 DEF QueueOrdered
        <4> QED
          BY <4>2, <4>3
      <3> QED
        BY <2>2, <3>1, <3>2 DEF QueueOrdered
    <2>9. AnsweredOnce'
      <3> SUFFICES ASSUME server # NoServer
                   PROVE  /\ reply'.to \in attached' /\ reply'.to = reply'.owner
                          /\ \A j \in DOMAIN queue' : queue'[j].id # reply'.id
        BY <1>4 DEF AnsweredOnce
      <3>1. reply'.to = server /\ reply'.owner = server /\ reply'.id = queue[i].id
        BY <1>4 DEF OneWalker
      <3>2. ASSUME NEW j \in 1 .. n PROVE queue'[j].id # queue[i].id
        <4> DEFINE J == IF j < i THEN j ELSE j + 1
        <4>1. J \in DOMAIN queue /\ (J < i \/ i < J)
          BY <2>1
        <4>2. queue'[j] = queue[J]
          BY <2>2
        <4>3. queue[J].id < queue[i].id \/ queue[i].id < queue[J].id
          BY <4>1 DEF QueueOrdered
        <4>4. queue[J].id \in Nat /\ queue[i].id \in Nat
          BY <4>1, ItemTypes
        <4> QED
          BY <4>2, <4>3, <4>4
      <3> QED
        BY <1>1, <2>2, <3>1, <3>2 DEF WalkerLive
    <2> QED
      BY <2>5, <2>6, <2>7, <2>8, <2>9
  <1> QED
    BY <1>3, <1>4 DEF OnWalkAck, Remaining

LEMMA OnWalkCancelInv == ASSUME WalkInv, OnWalkCancel PROVE WalkInv'
  <1> USE DEF WalkInv
  <1> DEFINE p == Head(toProxy)
  <1>1. /\ toProxy # <<>> /\ toProxy' = Tail(toProxy)
        /\ seq_next' = 0 /\ queue' = <<>> /\ server' = NoServer
        /\ UNCHANGED <<attached, reconnecting, toServer, id>>
    BY DEF OnWalkCancel, AfterCancel
  <1>2. p.seq \in Seq8 /\ p.id \in Nat /\ toProxy' \in Seq(Answer)
    BY <1>1, AnswerFacts
  <1>3. queue' \in Seq(Item) /\ Len(queue') = 0 /\ DOMAIN queue' = {}
    BY <1>1
  <1>4. \/ reply' = NoReply
        \/ /\ server # NoServer
           /\ \E i \in DOMAIN queue :
                reply' = [NoReply EXCEPT !.cmd = "WalkCancel", !.to = server,
                            !.owner = queue[i].owner, !.id = queue[i].id,
                            !.cause = p.id]
    BY DEF OnWalkCancel
  <1>5. reply' \in Reply /\ (reply'.cmd # "none" =>
                               reply'.to \in attached /\ reply'.to = reply'.owner)
    <2>1. CASE reply' = NoReply
      BY <2>1, ReplyTypes DEF NoReply
    <2>2. ASSUME server # NoServer, NEW i \in DOMAIN queue,
                 reply' = [NoReply EXCEPT !.cmd = "WalkCancel", !.to = server,
                             !.owner = queue[i].owner, !.id = queue[i].id,
                             !.cause = p.id]
          PROVE  /\ reply' \in Reply
                 /\ reply'.to \in attached /\ reply'.to = reply'.owner
      <3>1. queue[i].owner = server /\ queue[i].id \in Nat
        BY ItemTypes DEF OneWalker
      <3>2. server \in attached /\ server \in LinkedServers
        BY <2>2 DEF WalkerLive, TypeOK
      <3> QED
        BY <1>2, <2>2, <3>1, <3>2 DEF NoReply, Reply
    <2> QED
      BY <1>4, <2>1, <2>2
  <1>6. TypeOK'
    BY <1>1, <1>2, <1>3, <1>5, ReplyTypes, WalkAssumption DEF TypeOK
  <1> QED
    BY <1>1, <1>3, <1>5, <1>6
       DEF WalkerLive, OneWalker, QueueOrdered, AnsweredOnce

LEMMA DisconnectInv == ASSUME WalkInv, Disconnect PROVE WalkInv'
  <1>1. toServer' \in Seq(Request) /\ toProxy' \in Seq(Answer)
    BY DEF Disconnect
  <1> QED
    BY <1>1, ReplyTypes
       DEF WalkInv, TypeOK, WalkerLive, OneWalker, QueueOrdered, AnsweredOnce,
           Disconnect, walk, NoReply

LEMMA HandleStartInv == ASSUME WalkInv, HandleStart PROVE WalkInv'
  BY ReplyTypes
     DEF WalkInv, TypeOK, WalkerLive, OneWalker, QueueOrdered, AnsweredOnce,
         HandleStart, link, NoReply

-----------------------------------------------------------------------------
\* WalkInv holds in every reachable state, whatever the clients and the server
\* send, and whenever clients leave or the link breaks.
THEOREM WalkInvariant == Spec => []WalkInv
  <1>1. WalkInv /\ [Next]_vars => WalkInv'
    <2> SUFFICES ASSUME WalkInv, [Next]_vars PROVE WalkInv'
      OBVIOUS
    <2>1. CASE Next
      BY <2>1, AddInv, RemoveInv, HandleWalkInv, HandleResynchronizeInv,
         HandleTargetInv, ServerAnswersInv, OnWalkAckInv, OnWalkCancelInv,
         DisconnectInv, HandleStartInv DEF Next
    <2>2. CASE UNCHANGED vars
      BY <2>2 DEF vars, walk, link, WalkInv, TypeOK, WalkerLive, OneWalker,
                  QueueOrdered, AnsweredOnce
    <2> QED
      BY <2>1, <2>2
  <1> QED
    BY <1>1, InitWalkInv, PTL DEF Spec

\* Type correctness; in particular queue_size never exceeds the array.
THEOREM WalkTypeCorrect == Spec => []TypeOK
  BY WalkInvariant, PTL DEF WalkInv

\* walk.server never dangles.
THEOREM WalkerAlwaysLive == Spec => []WalkerLive
  BY WalkInvariant, PTL DEF WalkInv

\* The queue only ever holds steps of one client.
THEOREM WalkersNeverMixed == Spec => []OneWalker
  BY WalkInvariant, PTL DEF WalkInv

\* The queue stays in the order of sending, through drops and removals.
THEOREM QueueStaysOrdered == Spec => []QueueOrdered
  BY WalkInvariant, PTL DEF WalkInv

\* Acks and cancels go to the client that asked, once for each step.
THEOREM StepsAnsweredOnce == Spec => []AnsweredOnce
  BY WalkInvariant, PTL DEF WalkInv
=============================================================================
