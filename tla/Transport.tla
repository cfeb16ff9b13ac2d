------------------------------ MODULE Transport ------------------------------
(***************************************************************************)
(* The two production transports of hataori-runtime-foundation under their *)
(* common contract: a TransportHandle any thread may submit to, the shared *)
(* SubmissionState that admits submissions, and the driver its owner        *)
(* advances with progress, flush and shutdown.  "tcp" is TcpDriver (one     *)
(* nonblocking stream per peer and channel), "mpi" is MpiDriver (probe,     *)
(* blocking sends, one message per chunk).                                 *)
(*                                                                          *)
(* A parcel is its ticket and the number of units of its encoding; a unit   *)
(* stands for a block of bytes of a stream or for one MPI chunk, and carries *)
(* what the receiver parses: the ticket, its index and the encoded length.  *)
(* On a TCP stream unit 0 is the length prefix.  Encoding a parcel that      *)
(* try_send has validated cannot fail, so SendFailed is never raised.       *)
(***************************************************************************)
EXTENDS Integers, Sequences, FiniteSets

CONSTANTS
  Size,           \* the number of localities
  Channels,       \* the channels, in the order drive serves them
  Backends,       \* the backends of this instance
  MaxQueued,      \* ProtocolLimits::max_queued_parcels_per_peer
  MaxInflight,    \* ProtocolLimits::max_inflight_bytes_per_peer
  ControlReserve, \* ProtocolLimits::control_reserved_bytes_per_peer
  MaxFrame,       \* [Member -> ProtocolLimits::max_frame_bytes of its Hello]
  Lengths,        \* the encoded lengths of the parcels to send
  MaxEvents,      \* the max_events its owner passes to progress
  WireCapacity,   \* the units a socket or MPI buffers in one direction
  Sends,          \* [Member -> how many parcels it submits]
  MayClose,       \* the members whose owner may flush and shut down
  MayCrash        \* the members whose process may die (TCP only)

Member == 0..(Size - 1)

ASSUME TransportAssumption ==
  /\ Size \in Nat \ {0}
  /\ Channels \in Seq({"Control", "Action", "Bulk"}) /\ Channels # <<>>
  /\ \A i, j \in DOMAIN Channels : i # j => Channels[i] # Channels[j]
  /\ Backends \subseteq {"tcp", "mpi"}
  /\ MaxQueued \in Nat \ {0} /\ ControlReserve \in Nat \ {0}
  /\ MaxInflight \in Nat /\ ControlReserve < MaxInflight
  /\ MaxFrame \in [Member -> Nat \ {0}]
  /\ Lengths \subseteq Nat \ {0}
  /\ MaxEvents \in Nat \ {0} /\ WireCapacity \in Nat \ {0}
  /\ Sends \in [Member -> Nat]
  /\ MayClose \subseteq Member /\ MayCrash \subseteq Member

Channel == {Channels[i] : i \in DOMAIN Channels}
Lane == {l \in Member \X Member \X Channel : l[1] # l[2]}
Ticket == UNION {1..Sends[n] : n \in Member}
LENGTH == 1  \* LENGTH_BYTES, in units

VARIABLES
  backend,     \* which transport the localities are connected by
  closed,      \* [Member -> SubmissionState::closed]
  next_ticket, \* [Member -> SubmissionState::next_ticket]
  counts,      \* [Lane -> SubmissionState::counts]
  bytes,       \* [Member -> [Member -> SubmissionState::bytes]], by peer
  receivers,   \* [Lane -> the submissions in the lane's mpsc channel]
  writes,      \* [Lane -> StreamIo::writes, or OutboundPeer's slot]
  wire,        \* [Lane -> the units on their way]
  read,        \* [Lane -> StreamIo::read, or ReassemblyPeer's slot, at the destination]
  pending,     \* [Member -> pending_events]
  failed,      \* [Member -> the driver's failed is Some]
  shutdown,    \* [Member -> the driver's shutdown]
  drv,         \* [Member -> what the driver's owner is executing]
  down,        \* [Member -> its sockets are closed]
  sent,        \* history: [Lane -> Seq of the tickets accepted]
  got,         \* history: [Lane -> Seq of the tickets of Incoming events handed over]
  done,        \* history: [Member -> Seq of the tickets of LocalSendComplete handed over]
  visible      \* history: [Member -> its owner was shown a lossy error]

credit == <<counts, bytes>>
flow == <<receivers, writes, wire, read>>
history == <<sent, got, done, visible>>
vars == <<backend, closed, next_ticket, credit, flow, pending, failed, shutdown, drv, down,
          history>>

Source(l) == l[1]
Destination(l) == l[2]
ChannelOf(l) == l[3]
From(n) == {l \in Lane : Source(l) = n}
To(n) == {l \in Lane : Destination(l) = n}

(***************************************************************************)
(* Where a driver is.  op is the call its owner has made; at counts the    *)
(* stops of drive's loops over channels and peers; events is the vector    *)
(* the call fills.                                                         *)
(***************************************************************************)
Idle == [op |-> "idle", at |-> 0, events |-> <<>>]

\* drive visits, for each channel, TCP: write, read and decode of each peer;
\* MPI: the receive loop, then a write for each peer.
Width == IF backend = "tcp" THEN 3 * (Size - 1) ELSE Size
Stops == Len(Channels) * Width
Offset(n) == (drv[n].at - 1) % Width
Turn(n) == Channels[((drv[n].at - 1) \div Width) + 1]
Peer(n, i) == IF i < n THEN i ELSE i + 1

Driving(n) == drv[n].op \in {"progress", "flush", "shutdown"}

AtStop(n, stop, p) ==
  /\ Driving(n) /\ drv[n].at <= Stops
  /\ IF backend = "tcp"
     THEN /\ stop = <<"write", "read", "decode">>[(Offset(n) % 3) + 1]
          /\ p = Peer(n, Offset(n) \div 3)
     ELSE IF Offset(n) = 0
          THEN stop = "receive"
          ELSE stop = "write" /\ p = Peer(n, Offset(n) - 1)

\* pending_capacity
PendingCapacity == MaxQueued * (Size - 1) * Len(Channels) * 2

\* `events.len() - start < max_events`
Room(n) == Len(drv[n].events) < IF drv[n].op = "progress" THEN MaxEvents ELSE PendingCapacity

Incoming(l, t) == [kind |-> "Incoming", lane |-> l, ticket |-> t]
LocalSendComplete(l, t) == [kind |-> "LocalSendComplete", lane |-> l, ticket |-> t]

\* The tickets of the chosen events, in their order.
Tickets(events, chosen) ==
  LET tickets[i \in 0..Len(events)] ==
        IF i = 0 THEN <<>>
        ELSE IF i \in chosen THEN Append(tickets[i - 1], events[i].ticket) ELSE tickets[i - 1]
  IN  tickets[Len(events)]

Arrivals(events, l) ==
  {i \in DOMAIN events : events[i].kind = "Incoming" /\ events[i].lane = l}
Completions(events) == {i \in DOMAIN events : events[i].kind = "LocalSendComplete"}

\* events.extend: the owner of n is given these events.
Give(n, events) ==
  /\ got' = [l \in Lane |-> IF Destination(l) = n
                            THEN got[l] \o Tickets(events, Arrivals(events, l)) ELSE got[l]]
  /\ done' = [done EXCEPT ![n] = @ \o Tickets(events, Completions(events))]

Show(n) == visible' = [visible EXCEPT ![n] = TRUE]

(***************************************************************************)
(* Submission: TransportHandle::try_send and SubmissionState, on the thread *)
(* of any client.                                                          *)
(***************************************************************************)
\* ProtocolLimits::negotiate over all Hellos.
Negotiated == CHOOSE m \in {MaxFrame[k] : k \in Member} : \A k \in Member : m <= MaxFrame[k]

\* The limit a member works with: TCP that of its own Hello, MPI the negotiated
\* one.
FrameLimit(n) == IF backend = "tcp" THEN MaxFrame[n] ELSE Negotiated

\* Parcel::validate, before anything is reserved.
Valid(n, length) == length <= FrameLimit(n)

Reserved(length) == IF backend = "tcp" THEN length + LENGTH ELSE length

\* Mutant: no bytes are kept back for control parcels.
ByteLimitUnreserved(c) == MaxInflight

ByteLimit(c) == IF c = "Control" THEN MaxInflight ELSE MaxInflight - ControlReserve

\* SubmissionState::reserve, whose refusals leave no trace
Reservable(l, b) ==
  /\ ~ closed[Source(l)]
  /\ counts[l] + 1 <= MaxQueued
  /\ bytes[Source(l)][Destination(l)] + b <= ByteLimit(ChannelOf(l))

\* SubmissionState::release
Release(l, b) ==
  /\ counts' = [counts EXCEPT ![l] = @ - 1]
  /\ bytes' = [bytes EXCEPT ![Source(l)][Destination(l)] = @ - b]

TrySend(l, length) ==
  LET n == Source(l)
      t == next_ticket[n]
      b == Reserved(length)
  IN  /\ drv[n].op # "dead"
      /\ t <= Sends[n]
      /\ Valid(n, length)
      /\ Reservable(l, b)
      /\ Len(receivers[l]) < MaxQueued
      /\ next_ticket' = [next_ticket EXCEPT ![n] = t + 1]
      /\ counts' = [counts EXCEPT ![l] = @ + 1]
      /\ bytes' = [bytes EXCEPT ![n][Destination(l)] = @ + b]
      /\ receivers' = [receivers EXCEPT ![l] = Append(@, [ticket |-> t, length |-> length,
                                                          reserved |-> b, offset |-> 0])]
      /\ sent' = [sent EXCEPT ![l] = Append(@, t)]
      /\ UNCHANGED <<backend, closed, writes, wire, read, pending, failed, shutdown, drv, down,
                     got, done, visible>>

(***************************************************************************)
(* drive: one stop after another, on the owner's thread.                   *)
(***************************************************************************)
\* The sum of f[1], ..., f[n].
Total(f, n) ==
  LET sum[i \in 0..n] == IF i = 0 THEN 0 ELSE sum[i - 1] + f[i]
  IN  sum[n]

\* The bytes reserved by a sequence of submissions or frames.
ReservedBy(s) == Total([i \in 1..Len(s) |-> s[i].reserved], Len(s))
LaneBytes(l) == ReservedBy(receivers[l]) + ReservedBy(writes[l])

\* The bytes reserved by everything that n still has to write to peer p.
Outstanding(n, p) ==
  Total([i \in 1..Len(Channels) |-> LaneBytes(<<n, p, Channels[i]>>)], Len(Channels))

\* Mutant: the credit of the frames in writes is not returned.
FailDrainForgetsWrites(n) ==
  /\ counts' = [l \in Lane |-> IF Source(l) = n
                               THEN counts[l] - Len(receivers[l]) ELSE counts[l]]
  /\ bytes' = [bytes EXCEPT ![n] =
                 [p \in Member |-> IF p = n THEN @[p] ELSE @[p] - Outstanding(n, p)]]
  /\ receivers' = [l \in Lane |-> IF Source(l) = n THEN <<>> ELSE receivers[l]]
  /\ writes' = [l \in Lane |-> IF Source(l) = n THEN <<>> ELSE writes[l]]
  /\ read' = [l \in Lane |-> IF Destination(l) = n THEN <<>> ELSE read[l]]
  /\ drv' = [drv EXCEPT ![n] =
               [op |-> "failing", at |-> 0,
                events |-> IF @.op = "progress" THEN @.events ELSE <<>>]]

\* The first half of fail: every queue is emptied and its credit returned.
\* The submission gate stays open until FailClose.
FailDrain(n) ==
  /\ counts' = [l \in Lane |-> IF Source(l) = n
                               THEN counts[l] - Len(receivers[l]) - Len(writes[l])
                               ELSE counts[l]]
  /\ bytes' = [bytes EXCEPT ![n] =
                 [p \in Member |-> IF p = n THEN @[p] ELSE @[p] - Outstanding(n, p)]]
  /\ receivers' = [l \in Lane |-> IF Source(l) = n THEN <<>> ELSE receivers[l]]
  /\ writes' = [l \in Lane |-> IF Source(l) = n THEN <<>> ELSE writes[l]]
  /\ read' = [l \in Lane |-> IF Destination(l) = n THEN <<>> ELSE read[l]]
  /\ drv' = [drv EXCEPT ![n] =
               [op |-> "failing", at |-> 0,
                events |-> IF @.op = "progress" THEN @.events ELSE <<>>]]

\* The second half of fail, and the return of the error: progress has filled
\* its caller's vector, flush drops the one it made.
FailClose(n) ==
  /\ drv[n].op = "failing"
  /\ closed' = [closed EXCEPT ![n] = TRUE]
  /\ failed' = [failed EXCEPT ![n] = TRUE]
  /\ Give(n, drv[n].events)
  /\ Show(n)
  /\ drv' = [drv EXCEPT ![n] = Idle]
  /\ UNCHANGED <<backend, next_ticket, credit, flow, pending, shutdown, down, sent>>

Advance(n, events) == drv' = [drv EXCEPT ![n].at = @ + 1, ![n].events = events]

Units(f, w) ==
  [i \in 1..w |-> [ticket |-> f.ticket, index |-> f.offset + i - 1, total |-> f.length]]
\* Mutant: the length prefix is forgotten when a frame's end is looked for.
FrameUnitsWithoutPrefix(f) == f.length

FrameUnits(f) == f.length + IF backend = "tcp" THEN LENGTH ELSE 0

\* The lane's submissions and frames after the stop has taken one submission.
Taken(l) ==
  IF receivers[l] # <<>> /\ Len(writes[l]) < IF backend = "tcp" THEN MaxQueued ELSE 1
  THEN [receivers |-> Tail(receivers[l]), writes |-> Append(writes[l], Head(receivers[l]))]
  ELSE [receivers |-> receivers[l], writes |-> writes[l]]

\* w units of the first frame are written: the frame is complete, its credit
\* is returned and its completion reported, or it waits with a new offset.
Written(n, l, frames, w) ==
  LET f == Head(frames)
      event == LocalSendComplete(l, f.ticket)
  IN  /\ wire' = [wire EXCEPT ![l] = @ \o Units(f, w)]
      /\ IF f.offset + w = FrameUnits(f)
         THEN /\ writes' = [writes EXCEPT ![l] = Tail(frames)]
              /\ Release(l, f.reserved)
              /\ IF Room(n)
                 THEN Advance(n, Append(drv[n].events, event)) /\ UNCHANGED pending
                 ELSE /\ Advance(n, drv[n].events)
                      /\ pending' = [pending EXCEPT ![n] = Append(@, event)]
         ELSE /\ writes' = [writes EXCEPT ![l] = <<[f EXCEPT !.offset = @ + w]>> \o Tail(frames)]
              /\ Advance(n, drv[n].events)
              /\ UNCHANGED <<credit, pending>>

\* TCP: take one submission, then one nonblocking write of the first frame.
\* It may be partial, would block when the socket is full, and may succeed or
\* fail once the peer has gone.
TcpWrite(n, p) ==
  LET l == <<n, p, Turn(n)>>
      frames == Taken(l).writes
      free == WireCapacity - Len(wire[l])
  IN  /\ backend = "tcp" /\ AtStop(n, "write", p)
      /\ \/ /\ ~ Room(n) \/ frames = <<>> \/ free <= 0
            /\ receivers' = [receivers EXCEPT ![l] = Taken(l).receivers]
            /\ writes' = [writes EXCEPT ![l] = frames]
            /\ Advance(n, drv[n].events)
            /\ UNCHANGED <<credit, wire, read, pending>>
         \/ /\ Room(n) /\ frames # <<>>
            /\ \E w \in 1..free :
                 /\ Head(frames).offset + w <= FrameUnits(Head(frames))
                 /\ Written(n, l, frames, w)
            /\ receivers' = [receivers EXCEPT ![l] = Taken(l).receivers]
            /\ UNCHANGED read
         \/ /\ Room(n) /\ frames # <<>> /\ down[p]
            /\ FailDrain(n)
            /\ UNCHANGED <<wire, pending>>
      /\ UNCHANGED <<backend, closed, next_ticket, failed, shutdown, down, history>>

MaxRetained(n) == FrameLimit(n) + LENGTH

\* TCP: the read loop of service_read takes all there is before it decodes
\* anything; a full buffer, an end of stream or a reset fails the driver.
TcpRead(n, p) ==
  LET l == <<p, n, Turn(n)>>
  IN  /\ backend = "tcp" /\ AtStop(n, "read", p)
      /\ \/ /\ ~ Room(n)
            /\ Advance(n, drv[n].events)
            /\ UNCHANGED <<credit, flow>>
         \/ /\ Room(n) /\ Len(read[l]) + Len(wire[l]) <= MaxRetained(n)
            /\ read' = [read EXCEPT ![l] = @ \o wire[l]]
            /\ wire' = [wire EXCEPT ![l] = <<>>]
            /\ Advance(n, drv[n].events)
            /\ UNCHANGED <<credit, receivers, writes>>
         \/ /\ Room(n)
            /\ down[p] \/ Len(read[l]) + Len(wire[l]) > MaxRetained(n)
            /\ FailDrain(n)
            /\ wire' = [wire EXCEPT ![l] = <<>>]
      /\ UNCHANGED <<backend, closed, next_ticket, pending, failed, shutdown, down, history>>

\* Mutant: a frame counts as complete only when a byte of the next one is there.
TcpDecodeLate(n, p) ==
  LET l == <<p, n, Turn(n)>>
      length == Head(read[l]).total
      complete == read[l] # <<>> /\ Len(read[l]) > LENGTH + length
  IN  /\ backend = "tcp" /\ AtStop(n, "decode", p)
      /\ \/ /\ ~ Room(n) \/ ~ complete
            /\ Advance(n, drv[n].events)
            /\ UNCHANGED <<credit, receivers, writes, read>>
         \/ /\ Room(n) /\ complete
            /\ read' = [read EXCEPT ![l] = SubSeq(@, LENGTH + length + 1, Len(@))]
            /\ drv' = [drv EXCEPT ![n].events = Append(@, Incoming(l, Head(read[l]).ticket))]
            /\ UNCHANGED <<credit, receivers, writes>>
      /\ UNCHANGED <<backend, closed, next_ticket, wire, pending, failed, shutdown, down,
                     history>>

\* TCP: one turn of service_read's decoding loop.
TcpDecode(n, p) ==
  LET l == <<p, n, Turn(n)>>
      length == Head(read[l]).total
      oversized == read[l] # <<>> /\ length > FrameLimit(n)
      complete == read[l] # <<>> /\ ~ oversized /\ Len(read[l]) >= LENGTH + length
  IN  /\ backend = "tcp" /\ AtStop(n, "decode", p)
      /\ \/ /\ ~ Room(n) \/ (~ oversized /\ ~ complete)
            /\ Advance(n, drv[n].events)
            /\ UNCHANGED <<credit, receivers, writes, read>>
         \/ /\ Room(n) /\ complete
            /\ read' = [read EXCEPT ![l] = SubSeq(@, LENGTH + length + 1, Len(@))]
            /\ drv' = [drv EXCEPT ![n].events = Append(@, Incoming(l, Head(read[l]).ticket))]
            /\ UNCHANGED <<credit, receivers, writes>>
         \/ /\ Room(n) /\ oversized
            /\ FailDrain(n)
      /\ UNCHANGED <<backend, closed, next_ticket, wire, pending, failed, shutdown, down,
                     history>>

\* MPI: the receive loop of a channel takes one chunk from any source, which
\* accept_chunk appends to the parcel it reassembles.  MPI keeps the order of
\* one source and tag, so the sequence checks of accept_chunk only guard it.
InSequence(slot, unit) ==
  IF slot = <<>> THEN unit.index = 0
  ELSE unit.ticket = Head(slot).ticket /\ unit.index = Len(slot)

MpiReceive(n) ==
  /\ backend = "mpi" /\ AtStop(n, "receive", n) /\ Room(n)
  /\ \E l \in {k \in To(n) : ChannelOf(k) = Turn(n) /\ wire[k] # <<>>} :
       LET unit == Head(wire[l])
           slot == Append(read[l], unit)
       IN  /\ wire' = [wire EXCEPT ![l] = Tail(@)]
           /\ IF ~ InSequence(read[l], unit)
              THEN FailDrain(n)
              ELSE /\ IF Len(slot) = unit.total
                      THEN /\ read' = [read EXCEPT ![l] = <<>>]
                           /\ drv' = [drv EXCEPT ![n].events = Append(@, Incoming(l, unit.ticket))]
                      ELSE read' = [read EXCEPT ![l] = slot] /\ UNCHANGED drv
                   /\ UNCHANGED <<credit, receivers, writes>>
  /\ UNCHANGED <<backend, closed, next_ticket, pending, failed, shutdown, down, history>>

MpiReceived(n) ==
  /\ backend = "mpi" /\ AtStop(n, "receive", n)
  /\ ~ Room(n) \/ \A l \in To(n) : ChannelOf(l) = Turn(n) => wire[l] = <<>>
  /\ Advance(n, drv[n].events)
  /\ UNCHANGED <<backend, closed, next_ticket, credit, flow, pending, failed, shutdown, down,
                 history>>

\* MPI: take a submission if none is under way and send its next chunk.  The
\* send blocks the owner while MPI has no buffer for it.
MpiWrite(n, p) ==
  LET l == <<n, p, Turn(n)>>
      frames == Taken(l).writes
  IN  /\ backend = "mpi" /\ AtStop(n, "write", p)
      /\ receivers' = [receivers EXCEPT ![l] = Taken(l).receivers]
      /\ \/ /\ frames = <<>>
            /\ Advance(n, drv[n].events)
            /\ UNCHANGED <<credit, writes, wire, pending>>
         \/ /\ frames # <<>> /\ Len(wire[l]) < WireCapacity
            /\ Written(n, l, frames, 1)
      /\ UNCHANGED <<backend, closed, next_ticket, read, failed, shutdown, down, history>>

(***************************************************************************)
(* The calls of the owner.                                                 *)
(***************************************************************************)
OutboundEmpty(n) == \A l \in From(n) : writes[l] = <<>> /\ counts[l] = 0

\* Mutant: the pending events are copied, not taken.
ProgressKeepsPending(n) ==
  LET k == IF Len(pending[n]) < MaxEvents THEN Len(pending[n]) ELSE MaxEvents
      events == SubSeq(pending[n], 1, k)
  IN  /\ drv[n].op = "idle" /\ ~ shutdown[n] /\ ~ failed[n]
      /\ IF k < MaxEvents
         THEN /\ drv' = [drv EXCEPT ![n] = [op |-> "progress", at |-> 1, events |-> events]]
              /\ UNCHANGED <<got, done>>
         ELSE Give(n, events) /\ UNCHANGED drv
      /\ UNCHANGED <<backend, closed, next_ticket, credit, flow, pending, failed, shutdown, down,
                     sent, visible>>

\* progress: pending events first, then drive if max_events is not reached.
Progress(n) ==
  LET k == IF Len(pending[n]) < MaxEvents THEN Len(pending[n]) ELSE MaxEvents
      events == SubSeq(pending[n], 1, k)
  IN  /\ drv[n].op = "idle" /\ ~ shutdown[n] /\ ~ failed[n]
      /\ pending' = [pending EXCEPT ![n] = SubSeq(@, k + 1, Len(@))]
      /\ IF k < MaxEvents
         THEN /\ drv' = [drv EXCEPT ![n] = [op |-> "progress", at |-> 1, events |-> events]]
              /\ UNCHANGED <<got, done>>
         ELSE Give(n, events) /\ UNCHANGED drv
      /\ UNCHANGED <<backend, closed, next_ticket, credit, flow, failed, shutdown, down, sent,
                     visible>>

ProgressDone(n) ==
  /\ drv[n].op = "progress" /\ drv[n].at = Stops + 1
  /\ Give(n, drv[n].events)
  /\ drv' = [drv EXCEPT ![n] = Idle]
  /\ UNCHANGED <<backend, closed, next_ticket, credit, flow, pending, failed, shutdown, down,
                 sent, visible>>

\* What follows flush's loop: flush returns, shutdown goes on.
Flushed(op) == IF op = "flush" THEN Idle ELSE [Idle EXCEPT !.op = "closing"]
Driven(op) == [op |-> op, at |-> 1, events |-> <<>>]

Flush(n) ==
  /\ drv[n].op = "idle" /\ n \in MayClose /\ ~ failed[n] /\ ~ OutboundEmpty(n)
  /\ drv' = [drv EXCEPT ![n] = Driven("flush")]
  /\ UNCHANGED <<backend, closed, next_ticket, credit, flow, pending, failed, shutdown, down,
                 history>>

\* Mutant: the gate stays open while shutdown flushes.
ShutdownGateOpen(n) ==
  /\ drv[n].op = "idle" /\ n \in MayClose /\ ~ shutdown[n]
  /\ drv' = [drv EXCEPT ![n] = IF failed[n] \/ OutboundEmpty(n)
                               THEN Flushed("shutdown") ELSE Driven("shutdown")]
  /\ UNCHANGED <<backend, closed, next_ticket, credit, flow, pending, failed, shutdown, down,
                 history>>

\* shutdown closes the gate, and flushes unless the driver has failed.
Shutdown(n) ==
  /\ drv[n].op = "idle" /\ n \in MayClose /\ ~ shutdown[n]
  /\ closed' = [closed EXCEPT ![n] = TRUE]
  /\ drv' = [drv EXCEPT ![n] = IF failed[n] \/ OutboundEmpty(n)
                               THEN Flushed("shutdown") ELSE Driven("shutdown")]
  /\ UNCHANGED <<backend, next_ticket, credit, flow, pending, failed, shutdown, down, history>>

\* The end of one drive of flush's loop: more events than pending_events may
\* hold are an error that loses them ...
FlushEnd(n, fits) ==
  /\ drv[n].op \in {"flush", "shutdown"} /\ drv[n].at = Stops + 1
  /\ fits <=> Len(pending[n]) + Len(drv[n].events) <= PendingCapacity
  /\ UNCHANGED <<backend, closed, next_ticket, credit, flow, failed, shutdown, down, sent, got,
                 done>>

FlushOverflow(n) ==
  /\ FlushEnd(n, FALSE)
  /\ Show(n)
  /\ drv' = [drv EXCEPT ![n] = Idle]
  /\ UNCHANGED pending

\* ... otherwise they join pending_events, and flush gives up at its deadline ...
FlushTimeout(n) ==
  /\ FlushEnd(n, TRUE)
  /\ pending' = [pending EXCEPT ![n] = @ \o drv[n].events]
  /\ drv' = [drv EXCEPT ![n] = Idle]
  /\ UNCHANGED visible

\* Mutant: the events of this drive replace the pending ones.
FlushAgainReplaces(n) ==
  /\ FlushEnd(n, TRUE)
  /\ pending' = [pending EXCEPT ![n] = drv[n].events]
  /\ drv' = [drv EXCEPT ![n] = IF OutboundEmpty(n) THEN Flushed(@.op) ELSE Driven(@.op)]
  /\ UNCHANGED visible

\* ... or drives again until nothing is left to write.
FlushAgain(n) ==
  /\ FlushEnd(n, TRUE)
  /\ pending' = [pending EXCEPT ![n] = @ \o drv[n].events]
  /\ drv' = [drv EXCEPT ![n] = IF OutboundEmpty(n) THEN Flushed(@.op) ELSE Driven(@.op)]
  /\ UNCHANGED visible

\* The rest of shutdown.  MPI ranks wait for each other in a barrier first.
\* Frames that were read and not decoded yet count as partial frames.
Partial(n) == \E l \in To(n) : read[l] # <<>>

ShutdownDone(n) ==
  /\ drv[n].op = "closing"
  /\ backend = "mpi" => \A m \in Member : drv[m].op = "closing" \/ shutdown[m]
  /\ failed' = [failed EXCEPT ![n] = @ \/ Partial(n)]
  /\ visible' = [visible EXCEPT ![n] = @ \/ Partial(n)]
  /\ read' = [l \in Lane |-> IF Destination(l) = n THEN <<>> ELSE read[l]]
  /\ writes' = [l \in Lane |-> IF Source(l) = n /\ backend = "tcp" THEN <<>> ELSE writes[l]]
  /\ down' = [down EXCEPT ![n] = backend = "tcp"]
  /\ Give(n, pending[n])
  /\ pending' = [pending EXCEPT ![n] = <<>>]
  /\ closed' = [closed EXCEPT ![n] = TRUE]
  /\ shutdown' = [shutdown EXCEPT ![n] = TRUE]
  /\ drv' = [drv EXCEPT ![n] = Idle]
  /\ UNCHANGED <<backend, next_ticket, credit, receivers, wire, sent>>

\* The process of a TCP member dies; the kernel closes its sockets.
Crash(n) ==
  /\ backend = "tcp" /\ n \in MayCrash /\ drv[n].op # "dead"
  /\ drv' = [drv EXCEPT ![n] = [Idle EXCEPT !.op = "dead"]]
  /\ down' = [down EXCEPT ![n] = TRUE]
  /\ UNCHANGED <<backend, closed, next_ticket, credit, flow, pending, failed, shutdown, history>>

(***************************************************************************)
(* The specification.                                                      *)
(***************************************************************************)
Init ==
  /\ backend \in Backends
  /\ closed = [n \in Member |-> FALSE]
  /\ next_ticket = [n \in Member |-> 1]
  /\ counts = [l \in Lane |-> 0]
  /\ bytes = [n \in Member |-> [p \in Member |-> 0]]
  /\ receivers = [l \in Lane |-> <<>>]
  /\ writes = [l \in Lane |-> <<>>]
  /\ wire = [l \in Lane |-> <<>>]
  /\ read = [l \in Lane |-> <<>>]
  /\ pending = [n \in Member |-> <<>>]
  /\ failed = [n \in Member |-> FALSE]
  /\ shutdown = [n \in Member |-> FALSE]
  /\ drv = [n \in Member |-> Idle]
  /\ down = [n \in Member |-> FALSE]
  /\ sent = [l \in Lane |-> <<>>]
  /\ got = [l \in Lane |-> <<>>]
  /\ done = [n \in Member |-> <<>>]
  /\ visible = [n \in Member |-> FALSE]

\* A step inside a call of the owner of n.
Step(n) ==
  \/ \E p \in Member \ {n} : TcpWrite(n, p) \/ TcpRead(n, p) \/ TcpDecode(n, p) \/ MpiWrite(n, p)
  \/ MpiReceive(n) \/ MpiReceived(n)
  \/ FlushOverflow(n) \/ FlushTimeout(n) \/ FlushAgain(n)
  \/ ProgressDone(n) \/ ShutdownDone(n) \/ FailClose(n)

Next ==
  \/ \E l \in Lane : \E length \in Lengths : TrySend(l, length)
  \/ \E n \in Member : Step(n) \/ Progress(n) \/ Flush(n) \/ Shutdown(n) \/ Crash(n)

Spec == Init /\ [][Next]_vars

\* The owners keep calling progress, a call that has begun goes on, and the
\* deadline of a flush passes.  Nothing makes an owner flush or shut down.
FairSpec ==
  Spec /\ \A n \in Member : WF_vars(Step(n)) /\ WF_vars(Progress(n)) /\ SF_vars(FlushTimeout(n))

(***************************************************************************)
(* Properties.                                                             *)
(***************************************************************************)
Event == [kind : {"Incoming", "LocalSendComplete"}, lane : Lane, ticket : Nat]
Frame == [ticket : Nat, length : Nat, reserved : Nat, offset : Nat]
Unit == [ticket : Nat, index : Nat, total : Nat]
Op == {"idle", "progress", "flush", "shutdown", "closing", "failing", "dead"}

\* The state of every variable: credits never go below zero.
TypeOK ==
  /\ backend \in Backends
  /\ closed \in [Member -> BOOLEAN]
  /\ next_ticket \in [Member -> Nat]
  /\ counts \in [Lane -> Nat]
  /\ bytes \in [Member -> [Member -> Nat]]
  /\ receivers \in [Lane -> Seq(Frame)]
  /\ writes \in [Lane -> Seq(Frame)]
  /\ wire \in [Lane -> Seq(Unit)]
  /\ read \in [Lane -> Seq(Unit)]
  /\ pending \in [Member -> Seq(Event)]
  /\ failed \in [Member -> BOOLEAN]
  /\ shutdown \in [Member -> BOOLEAN]
  /\ drv \in [Member -> [op : Op, at : Nat, events : Seq(Event)]]
  /\ down \in [Member -> BOOLEAN]
  /\ sent \in [Lane -> Seq(Nat)]
  /\ got \in [Lane -> Seq(Nat)]
  /\ done \in [Member -> Seq(Nat)]
  /\ visible \in [Member -> BOOLEAN]

\* Whatever fails or is cut short, a lane's credit is exactly what the driver
\* still has to write: nothing is returned twice by release and fail, and
\* nothing that was written or dropped stays charged.
CreditsExact ==
  /\ \A l \in Lane : counts[l] = Len(receivers[l]) + Len(writes[l])
  /\ \A n, p \in Member : n # p => bytes[n][p] = Outstanding(n, p)

\* What the Action and Bulk lanes to a peer hold never reaches into the bytes
\* that SubmissionState reserves for control parcels.
ControlKeepsItsReserve ==
  \A n, p \in Member : n # p =>
    LET held == [i \in 1..Len(Channels) |-> IF Channels[i] = "Control" THEN 0
                                            ELSE LaneBytes(<<n, p, Channels[i]>>)]
    IN  Total(held, Len(Channels)) <= MaxInflight - ControlReserve

\* After shutdown has returned, nothing of the run is retained, except that a
\* submission can slip in while fail has emptied the queues and not yet closed
\* the gate: only a failed driver can be left with one.
StoppedRetainsNothing ==
  \A n \in Member : shutdown[n] =>
    /\ closed[n] /\ pending[n] = <<>>
    /\ \A l \in To(n) : read[l] = <<>>
    /\ \A l \in From(n) : writes[l] = <<>> /\ (receivers[l] # <<>> => failed[n])

\* The stream of a lane never loses its framing, however writes are cut: what
\* has been read and what is on its way are the units of whole parcels in a
\* row, from the first unit of one, and a parcel that is cut off at the end is
\* continued by the first frame to be written.
FramingHolds ==
  \A l \in Lane :
    LET s == read[l] \o wire[l]
        last(u) == u.index = u.total - IF backend = "tcp" THEN 0 ELSE 1
        works(n) == ~ closed[n] /\ drv[n].op \notin {"failing", "dead"}
    IN  s # <<>> /\ works(Source(l)) /\ works(Destination(l)) =>
          /\ s[1].index = 0
          /\ \A i \in 1..(Len(s) - 1) :
               IF last(s[i]) THEN s[i + 1].index = 0
               ELSE s[i + 1] = [s[i] EXCEPT !.index = @ + 1]
          /\ ~ last(s[Len(s)]) => /\ writes[l] # <<>>
                                  /\ Head(writes[l]).ticket = s[Len(s)].ticket
                                  /\ Head(writes[l]).offset = s[Len(s)].index + 1

\* The transport keeps the contract of ParcelLink.
Link == INSTANCE ParcelLink WITH
  Lane <- Lane, Member <- Member, Ticket <- Ticket,
  sent <- sent, got <- got, done <- done, visible <- visible
KeepsContract == Link!Spec

\* "reliable point-to-point delivery or a visible peer/transport failure":
\* every accepted parcel is handed over in the end, or one of the two owners is
\* shown an error, has begun to shut down or is dead.
DeliveredOrVisible ==
  <>[](\A l \in Lane :
         \/ got[l] = sent[l]
         \/ \E n \in {Source(l), Destination(l)} : visible[n] \/ closed[n] \/ drv[n].op = "dead")
===============================================================================
