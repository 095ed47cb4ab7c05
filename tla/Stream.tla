------------------------------- MODULE Stream -------------------------------
(***************************************************************************)
(* One TCP connection of the proxy, from the events of the socket to the   *)
(* packets of the handler: SocketWrapper and BufferedSocket (event/net),   *)
(* SocketBuffer, and on top UO::Server (a client is connected, kind        *)
(* "server") or UO::Client (connected to a server, kind "client").         *)
(*                                                                         *)
(* Each callback is followed step by step: pc is "loop" while the event    *)
(* loop runs other things.  The kernel and the peer are external: received *)
(* bytes are read in pieces of any size, sending takes as much as there is *)
(* space, the peer sends, reads, closes and resets at any time.            *)
(*                                                                         *)
(* An exception in OnBufferedData() meets its noexcept and ends the        *)
(* process, as a failed assertion does: pc is "terminated".                *)
(***************************************************************************)
EXTENDS Fifo, Framing, Compression, FiniteSets, SequencesExt

CONSTANTS
  SeedSize,       \* bytes of a raw seed (the source: 4)
  Hellos,         \* what clients start with: <<raw seed or seed packet, login>>
  Packets,        \* the other packets, with or without sense
  TxSpace,        \* size of the kernel's send buffer
  MaxSent,        \* bound: packets that the peer sends
  MaxSends        \* bound: packets that the proxy sends

READ == "READ"
WRITE == "WRITE"
SeedCommand == 239          \* the seed packet of client 6.0.5
AccountLogin == 128
GameLogin == 145

VARIABLES
  kind,                 \* "server" or "client"
  pc,                   \* where the callback is, or how it ended
  result,               \* the BufferedResult of OnBufferedData()
  events,               \* the events SocketEventCallback() has still to handle
  input, decompressed_buffer, output,
  treepos,              \* of the Decompression
  seed,                 \* <<>> until the client has sent it
  enabled,              \* compression_enabled
  scheduled,            \* the flags of the SocketEvent
  defer_write, write_timeout, abort_event,      \* pending or not
  rx, peer_closed, reset,       \* kernel: received bytes, end of file, error
  tx, space,                    \* kernel: all bytes sent, space for more
  peer_sent, delivered,         \* packets the peer sent, and the handler got
  accepted                      \* what Send() put into the output, in bytes

buffers == <<input, decompressed_buffer, output>>
protocol == <<treepos, seed, enabled>>
timers == <<scheduled, defer_write, write_timeout, abort_event>>
kernel == <<rx, peer_closed, reset, tx, space>>
history == <<peer_sent, delivered, accepted>>
vars == <<kind, pc, result, events, buffers, protocol, timers, kernel, history>>

Up == pc \notin {"destroyed", "terminated"}

Init ==
  /\ kind \in {"server", "client"}
  /\ pc = "new" /\ result = "none" /\ events = {}
  /\ input = Null /\ decompressed_buffer = Null /\ output = Null
  /\ treepos = 0 /\ seed = <<>> /\ enabled = FALSE
  /\ scheduled = {} /\ defer_write = FALSE /\ write_timeout = FALSE /\ abort_event = FALSE
  /\ rx = <<>> /\ peer_closed = FALSE /\ reset = FALSE /\ tx = <<>> /\ space = TxSpace
  /\ peer_sent = <<>> /\ delivered = <<>> /\ accepted = <<>>

\* The constructors.  A client sends its seed, then at once its login packet;
\* a GameLogin turns decompression on.
Construct ==
  /\ pc = "new"
  /\ pc' = "loop" /\ scheduled' = {READ}
  /\ IF kind = "server" THEN UNCHANGED <<output, accepted, defer_write, enabled>>
     ELSE \E h \in Hellos :
            /\ output' = AppendTo(AllocateIfNull(Null), h[1] \o h[2])
            /\ accepted' = h
            /\ defer_write' = TRUE
            /\ enabled' = (h[2][1] = GameLogin)
  /\ UNCHANGED <<kind, result, events, input, decompressed_buffer, treepos, seed,
                 write_timeout, abort_event, kernel, peer_sent, delivered>>

\* Close() cancels all events; the destructors call it and free the buffers.
Close ==
  scheduled' = {} /\ defer_write' = FALSE /\ write_timeout' = FALSE /\ abort_event' = FALSE

Destroy ==
  /\ pc' = "destroyed" /\ result' = "none" /\ events' = {}
  /\ input' = Null /\ decompressed_buffer' = Null /\ output' = Null
  /\ Close

Terminate ==
  /\ pc' = "terminated" /\ result' = "none" /\ events' = {}
  /\ UNCHANGED <<buffers, timers>>

----------------------------------------------------------------------------
\* Sending.

\* SocketBuffer::Send(): bytes for which there is no room after the tail are
\* refused, which aborts the connection at the next run of deferred events.
SocketBufferSend(bytes) ==
  LET w == PrepareWrite(AllocateIfNull(output)) IN
  IF Len(bytes) > RoomAtTail(w)
    THEN /\ abort_event' = TRUE
         /\ output' = w
         /\ UNCHANGED <<accepted, defer_write>>
    ELSE /\ output' = AppendTo(w, bytes)
         /\ accepted' = Append(accepted, bytes)
         /\ defer_write' = (defer_write \/ WRITE \notin scheduled)
         /\ UNCHANGED abort_event

\* Server::Send(), Client::Send().
Send(p) ==
  /\ pc \in {"loop", "parse"}
  /\ ~abort_event
  /\ GetPacketLength(p) = Len(p)        \* asserted
  /\ Len(accepted) < MaxSends
  /\ SocketBufferSend(IF kind = "server" /\ enabled THEN Compress(p) ELSE p)
  /\ UNCHANGED <<kind, pc, result, events, input, decompressed_buffer, protocol, scheduled,
                 write_timeout, kernel, peer_sent, delivered>>

\* DeferredAbort(): the handler's OnDisconnect() destroys the connection.
DeferredAbort ==
  /\ pc = "loop" /\ abort_event
  /\ Destroy
  /\ UNCHANGED <<kind, protocol, kernel, history>>

DeferWriteCallback ==
  /\ pc = "loop" /\ defer_write
  /\ defer_write' = FALSE
  /\ pc' = "write"
  /\ UNCHANGED <<kind, result, events, buffers, protocol, scheduled, write_timeout, abort_event,
                 kernel, history>>

ScheduleWrite_OnlyTimer ==
  /\ write_timeout' = TRUE /\ defer_write' = FALSE
  /\ UNCHANGED scheduled

ScheduleWrite ==
  /\ scheduled' = scheduled \cup {WRITE} /\ write_timeout' = TRUE /\ defer_write' = FALSE

\* The output is freed, UnscheduleWrite().
AfterLastByte_StaysScheduled ==
  /\ output' = Null
  /\ UNCHANGED <<scheduled, write_timeout, defer_write>>

AfterLastByte ==
  /\ output' = Null
  /\ scheduled' = scheduled \ {WRITE} /\ write_timeout' = FALSE /\ defer_write' = FALSE

Unsent_OneLess(n) == Consume(output, n - 1)
Unsent(n) == Consume(output, n)

\* Without space the write event and the timeout are scheduled; any other error
\* closes the connection.
HandleWriteError ==
  IF reset THEN Destroy
  ELSE /\ ScheduleWrite
       /\ pc' = "loop"
       /\ UNCHANGED <<result, events, buffers, abort_event>>

\* OnBufferedWrite(): everything is sent, or a part of it; the rest is sent by
\* the next write event if one is scheduled.
OnBufferedWrite ==
  /\ pc = "write"
  /\ IF IsEmptyFifo(output) THEN Terminate /\ UNCHANGED <<tx, space>>
     ELSE IF reset \/ space = 0 THEN HandleWriteError /\ UNCHANGED <<tx, space>>
     ELSE
        /\ LET n == Min({space, Len(output.data)}) IN
           /\ tx' = tx \o SubSeq(output.data, 1, n)
           /\ space' = space - n
           /\ IF n = Len(output.data)
                THEN AfterLastByte
                ELSE output' = Unsent(n) /\ UNCHANGED <<scheduled, write_timeout, defer_write>>
        /\ pc' = "loop"
        /\ UNCHANGED <<result, events, input, decompressed_buffer, abort_event>>
  /\ UNCHANGED <<kind, protocol, rx, peer_closed, reset, history>>

\* The write timeout: OnBufferedTimeout() reports an error.
TimeoutCallback ==
  /\ pc = "loop" /\ write_timeout
  /\ Destroy
  /\ UNCHANGED <<kind, protocol, kernel, history>>

----------------------------------------------------------------------------
\* Events of the socket.

Ready ==
  {f \in scheduled : \/ f = READ /\ (rx # <<>> \/ peer_closed)
                     \/ f = WRITE /\ space > 0}

\* OnSocketError(): nobody wants to go on with a broken connection.
ErrorEvent ==
  /\ pc = "loop" /\ scheduled # {} /\ reset
  /\ Destroy
  /\ UNCHANGED <<kind, protocol, kernel, history>>

\* A write event ends the write timeout.
TimeoutAfter(e) == write_timeout /\ WRITE \notin e

\* FillBuffer() of an input with a tail: some of what has arrived.
FillBuffer(w) ==
  IF RoomAtTail(w) = 0 THEN input' = w /\ UNCHANGED rx
  ELSE \E n \in 1 .. Min({Len(rx), RoomAtTail(w)}) :
         /\ input' = AppendTo(w, SubSeq(rx, 1, n))
         /\ rx' = SubSeq(rx, n + 1, Len(rx))

\* SocketEventCallback() up to OnSocketRead().  What was ready at the time of
\* the poll is reported, so maybe not all that is ready now.  The end of the
\* file destroys the connection in OnBufferedClosed(), whatever is left in the
\* buffer.
ReadEvent ==
  LET w == PrepareWrite(AllocateIfNull(input)) IN
  /\ pc = "loop" /\ ~reset
  /\ READ \in Ready
  /\ IF rx = <<>> /\ RoomAtTail(w) > 0
       THEN Destroy /\ UNCHANGED rx
       ELSE /\ \E e \in {Ready, {READ}} :
                 /\ events' = e \ {READ}
                 /\ write_timeout' = TimeoutAfter(e)
            /\ FillBuffer(w)
            /\ pc' = "data"
            /\ UNCHANGED <<result, decompressed_buffer, output, scheduled, defer_write, abort_event>>
  /\ UNCHANGED <<kind, protocol, peer_closed, reset, tx, space, history>>

\* ... with nothing but a write event; OnSocketWrite() obsoletes a deferred one.
WriteEvent ==
  /\ pc = "loop" /\ ~reset
  /\ WRITE \in Ready
  /\ write_timeout' = TimeoutAfter({WRITE}) /\ defer_write' = FALSE
  /\ pc' = "write"
  /\ UNCHANGED <<kind, result, events, buffers, protocol, scheduled, abort_event, kernel, history>>

\* Encryption::FromClient() on the first data of a client, which must hold the
\* seed and more.  Only what is not encrypted gets through: the buffer of the
\* decrypted data is never allocated, which the assertion notices.
account_login_valid(p) == p[1] = AccountLogin /\ p[Len(p)] = 0
SeedEnd(src) == IF src[1] = SeedCommand THEN PacketLengths[SeedCommand] ELSE SeedSize
SeedOf(src) == IF src[1] = SeedCommand THEN SubSeq(src, 2, SeedEnd(src)) ELSE SubSeq(src, 1, SeedSize)

FromClient(src) ==
  LET rest == SubSeq(src, SeedEnd(src) + 1, Len(src)) IN
  IF Len(src) < SeedSize \/ Len(src) <= SeedEnd(src) THEN {"throw"}
  ELSE IF Len(rest) = PacketLengths[AccountLogin] /\ ~account_login_valid(rest)
    THEN {"assert", "plain"}        \* whether a key fits is up to the cipher
  ELSE IF Len(rest) = PacketLengths[GameLogin]
          /\ ~(rest[1] = GameLogin /\ SubSeq(rest, 2, Len(rest)) = SeedOf(src))
    THEN {"assert"}
  ELSE {"plain"}

\* Server::OnSocketData(): a raw seed is consumed, a seed packet is parsed as
\* the first packet.
OnSocketData_Server ==
  /\ pc = "data" /\ kind = "server"
  /\ IF seed # <<>>
       THEN pc' = "parse" /\ UNCHANGED <<result, events, buffers, timers, seed>>
       ELSE \E how \in FromClient(input.data) :
              IF how # "plain" THEN Terminate /\ UNCHANGED seed
              ELSE /\ seed' = SeedOf(input.data)
                   /\ IF \A i \in DOMAIN seed' : seed'[i] = 0
                        THEN Terminate
                        ELSE /\ input' = Consume(input, IF input.data[1] = SeedCommand THEN 0 ELSE SeedSize)
                             /\ pc' = "parse"
                             /\ UNCHANGED <<result, events, decompressed_buffer, output, timers>>
  /\ UNCHANGED <<kind, treepos, enabled, kernel, history>>

\* Client::OnSocketData(): all of the input is decompressed, if there is room.
Resume_FromRoot(pos, src) == Decompress(0, src)
Resume(pos, src) == Decompress(pos, src)

OnSocketData_Client ==
  LET d == Resume(treepos, input.data)
      w == PrepareWrite(AllocateIfNull(decompressed_buffer))
  IN
  /\ pc = "data" /\ kind = "client"
  /\ IF ~enabled THEN pc' = "parse" /\ UNCHANGED <<result, events, buffers, timers, treepos>>
     ELSE IF RoomAtTail(w) = 0 \/ Len(d.dest) > RoomAtTail(w) THEN Terminate /\ UNCHANGED treepos
     ELSE /\ decompressed_buffer' = AppendTo(w, d.dest)
          /\ treepos' = d.treepos
          /\ input' = Null
          /\ pc' = "parse"
          /\ UNCHANGED <<result, events, output, timers>>
  /\ UNCHANGED <<kind, seed, enabled, kernel, history>>

\* ParsePackets(), one turn of its loop, on the buffer that holds the packets.
Parsed == IF kind = "client" /\ enabled THEN decompressed_buffer ELSE input
SetParsed(b) ==
  IF kind = "client" /\ enabled THEN decompressed_buffer' = b /\ UNCHANGED input
                                ELSE input' = b /\ UNCHANGED decompressed_buffer

EndParse ==
  /\ pc = "parse"
  /\ \/ ParseStep(Parsed.data) = "empty" /\ SetParsed(Null) /\ result' = "OK"
     \/ ParseStep(Parsed.data) = "more" /\ UNCHANGED <<input, decompressed_buffer>> /\ result' = "MORE"
  /\ pc' = "submit"
  /\ UNCHANGED <<kind, events, output, protocol, timers, kernel, history>>

Malformed ==
  /\ pc = "parse" /\ ParseStep(Parsed.data) = "malformed"
  /\ Terminate
  /\ UNCHANGED <<kind, protocol, kernel, history>>

\* The handler takes the packet, and a GameLogin turns compression on for what
\* is sent from then on; or it closes the connection.
OnPacket ==
  LET n == GetPacketLength(Parsed.data)
      p == SubSeq(Parsed.data, 1, n)
  IN
  /\ pc = "parse" /\ ParseStep(Parsed.data) = "packet"
  /\ delivered' = Append(delivered, p)
  /\ \/ /\ SetParsed(Consume(Parsed, n))
        /\ enabled' = (enabled \/ (kind = "server" /\ p[1] = GameLogin))
        /\ UNCHANGED <<pc, result, events, output, timers>>
     \/ Destroy /\ UNCHANGED enabled
  /\ UNCHANGED <<kind, treepos, seed, kernel, peer_sent, accepted>>

\* The end of TryRead2(): no more is read into a full buffer.
RescheduleRead ==
  scheduled' = IF IsFull(input) THEN scheduled \ {READ} ELSE scheduled \cup {READ}

\* The rest of SubmitFromBuffer(), TryRead2() and SocketEventCallback().
SubmitResult ==
  /\ pc = "submit"
  /\ IF result = "MORE" /\ IsFull(input)
       THEN Destroy
       ELSE /\ input' = FreeIfEmpty(input)
            /\ RescheduleRead
            /\ pc' = IF WRITE \in events \cap scheduled THEN "write" ELSE "loop"
            /\ defer_write' = (defer_write /\ pc' # "write")
            /\ result' = "none" /\ events' = {}
            /\ UNCHANGED <<decompressed_buffer, output, write_timeout, abort_event>>
  /\ UNCHANGED <<kind, protocol, kernel, history>>

----------------------------------------------------------------------------
\* The peer.

\* A client starts with its seed and a login.
PeerHello ==
  /\ pc # "new" /\ kind = "server" /\ peer_sent = <<>> /\ ~peer_closed /\ ~reset
  /\ \E h \in Hellos :
       /\ rx' = h[1] \o h[2]
       /\ peer_sent' = IF h[1][1] = SeedCommand THEN h ELSE <<h[2]>>
  /\ UNCHANGED <<kind, pc, result, events, buffers, protocol, timers, peer_closed, reset, tx,
                 space, delivered, accepted>>

\* A server answers the login; a game server compresses.
PeerSends(p) ==
  /\ pc # "new" /\ Len(peer_sent) < MaxSent /\ ~peer_closed /\ ~reset
  /\ IF kind = "server" THEN peer_sent # <<>> ELSE Len(tx) >= Len(accepted[1] \o accepted[2])
  /\ rx' = rx \o (IF kind = "client" /\ enabled THEN Compress(p) ELSE p)
  /\ peer_sent' = Append(peer_sent, p)
  /\ UNCHANGED <<kind, pc, result, events, buffers, protocol, timers, peer_closed, reset, tx,
                 space, delivered, accepted>>

PeerCloses ==
  /\ pc # "new" /\ ~peer_closed /\ ~reset
  /\ \/ peer_closed' = TRUE /\ UNCHANGED reset
     \/ reset' = TRUE /\ UNCHANGED peer_closed
  /\ UNCHANGED <<kind, pc, result, events, buffers, protocol, timers, rx, tx, space, history>>

PeerReads ==
  /\ space < TxSpace
  /\ space' = TxSpace
  /\ UNCHANGED <<kind, pc, result, events, buffers, protocol, timers, rx, peer_closed, reset, tx,
                 history>>

Peer ==
  \/ PeerHello
  \/ \E p \in Packets : PeerSends(p)
  \/ PeerCloses
  \/ PeerReads

Proxy ==
  \/ Construct
  \/ DeferredAbort
  \/ DeferWriteCallback
  \/ OnBufferedWrite
  \/ ErrorEvent
  \/ ReadEvent
  \/ WriteEvent
  \/ OnSocketData_Server
  \/ OnSocketData_Client
  \/ EndParse
  \/ Malformed
  \/ OnPacket
  \/ SubmitResult

Next == Proxy \/ Peer \/ TimeoutCallback \/ \E p \in Packets : Send(p)

\* The event loop runs what is pending (module EventLoop); the timeout, the
\* peer and the rest of the program owe nothing.
Spec == Init /\ [][Next]_vars /\ WF_vars(Proxy)

----------------------------------------------------------------------------
\* What a connection promises.

In == INSTANCE PacketChannel WITH sent <- peer_sent, received <- delivered, up <- Up

\* However the kernel cuts the bytes, whether or not they are compressed, and
\* with a raw seed or a seed packet in front: OnPacket() gets the packets that
\* the peer sent, each once, in order, and none after the connection's end.
Incoming == In!Spec

\* The packets of which all bytes were sent; not a packet if a byte is wrong.
Written ==
  LET bytes(k) == FlattenSeq(SubSeq(accepted, 1, k))
      complete == {k \in 0 .. Len(accepted) : Len(bytes(k)) <= Len(tx)}
  IN  IF IsPrefix(tx, bytes(Len(accepted))) THEN SubSeq(accepted, 1, Max(complete))
                                            ELSE << <<>> >>

Out == INSTANCE PacketChannel WITH sent <- accepted, received <- Written, up <- Up

\* Partial writes, blocked writes and refused packets notwithstanding, the
\* bytes on the wire are those of the packets that Send() accepted, in order.
Outgoing == Out!Spec

\* OnBufferedWrite() is only ever called with something to write, as it
\* asserts: a deferred write and a scheduled write event mean that there is
\* output.
WriterHasData ==
  pc = "write" \/ (Up /\ (defer_write \/ WRITE \in scheduled)) => ~IsEmptyFifo(output)

\* The timeout that closes the connection runs only while output is blocked
\* and the write event is scheduled to end it.
TimeoutOnlyWhenBlocked ==
  write_timeout => WRITE \in scheduled /\ ~IsEmptyFifo(output)

\* The input buffer always has room for the rest of an incomplete packet: the
\* "buffer full" error of SubmitFromBuffer() is never raised.
PacketFitsBuffer == ~(pc = "submit" /\ result = "MORE" /\ IsFull(input))

\* Buffers, events and timeouts of a BufferedSocket agree after every step.
BuffersAgree == WriterHasData /\ TimeoutOnlyWhenBlocked /\ PacketFitsBuffer

\* What the peer sent is delivered, unless the connection ends.
PacketsDelivered ==
  \A k \in 1 .. MaxSent :
    Len(peer_sent) >= k ~> (Len(delivered) >= k \/ ~Up \/ peer_closed \/ reset)

\* What was blocked when the socket was full is written after all, unless the
\* connection ends or the peer no longer reads.
BlockedWriteResumes ==
  \A k \in 1 .. MaxSends :
    [](pc = "write" /\ space = 0 /\ Len(accepted) = k
         => <>(Len(Written) >= k \/ ~Up) \/ <>[](space = 0))

\* For every byte, what Compress() makes of it decompresses to it.
HuffmanInverts ==
  \A ch \in 0 .. 255 : Decompress(0, Compress(<<ch>>)).dest = <<ch>>

\* The bit buffer never holds more bits than its 32-bit integer, the
\* assertion of FeedChar().
AccumulatorFits ==
  \A ch \in 0 .. 255 : CompressPacket([i \in 1 .. 8 |-> ch]).peak < 31

\* Compress() and Decompress() are inverse and stay within their integers; a
\* fact about pure operators, which is looked at once.
CompressionSound == pc = "new" => HuffmanInverts /\ AccumulatorFits
=============================================================================
