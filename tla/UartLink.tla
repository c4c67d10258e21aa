------------------------------ MODULE UartLink ------------------------------
(***************************************************************************)
(* The carriers of the Uno Q: the Linux process (HardwarePeerCarrier) and  *)
(* the M33 firmware (UnoQUartCarrier) exchange frames byte by byte over a  *)
(* UART, and the roles of the Linux process reach each other through one   *)
(* queue for each role; the loopback proof (ProofCarrier) uses the queues  *)
(* alone.  The carrier of the split example has one frame slot for each    *)
(* edge and lane; a role receives on one edge, so its slots are a queue    *)
(* with at most one frame on a lane.  The line loses bytes: the M33        *)
(* has a one-byte receive register, read only when its code runs.          *)
(* There is no retransmission; the parser has to find the next frame.      *)
(*                                                                         *)
(* site          the deployment that runs                                  *)
(* wire[m]       the bytes on their way to machine m (for the host, the    *)
(*               tty buffer)                                               *)
(* rdr, ring     the receive register of the M33 and RX_RING               *)
(* parser[m]     UartFrameParser: the bytes kept, and the frame's length   *)
(*               once the header is in                                     *)
(* queue[r]      ProofQueue of role r: circular array, head and length     *)
(* outgoing[p]   the frame Hibana polls poll_send with                     *)
(* rx[p]         the frame staged last at port p, if not given back        *)
(* busy[m]       the poll machine m executes: writing a frame, or draining *)
(*               the line                                                  *)
(* fault[m]      a poll returned Failed: the image of machine m ends       *)
(* offered       history: the frames handed to poll_send, and those that a *)
(*               parser made of bytes that are not one frame (id = place)  *)
(* accepted      history: the ids whose poll_send returned Ready           *)
(* consumed[p]   history: the ids port p holds or has finished with        *)
(* torn          history: the bytes that were lost or never sent           *)
(* overflow      history: a queue was full, or a requeue dropped its frame *)
(* losses        bytes lost so far (the frame that was cut counts as one)  *)
(*                                                                         *)
(* A byte is named by its frame and its place in it, which the code cannot *)
(* see: bytes of other places may happen to equal MAGIC, and the checksum, *)
(* the exclusive or of the bytes in one byte, may happen to agree with     *)
(* bytes that are not one frame.  Id 0 is left from an earlier session.    *)
(***************************************************************************)
EXTENDS Naturals, Sequences, FiniteSets

CONSTANTS
  Site,                       \* deployments: kind, ports, flows, leftover bytes,
                              \* and how many frames of which lengths are sent
  PayloadLen,                 \* the payload lengths of a frame
  MAGIC_LEN,                  \* 4 in the code
  UART_CARRIER_HEADER_BYTES,  \* 13 in the code
  PROOF_CARRIER_QUEUE_DEPTH,  \* 24 in the code
  RX_RING_CAP,                \* 256 in the code
  None,
  MaxFrames, MaxLosses        \* bounds: frames offered, bytes lost

ASSUME UartAssumption ==
  /\ \A s \in Site : /\ s.kind \in {"uart", "loopback", "split"}
                     /\ s.left \in {"nothing", "banner", "frame", "cut"}
                     /\ s.port \subseteq (0..4) \X Nat
                     /\ \A e \in s.flow : e[1] \in 0..4 /\ e[2] \in 0..4 /\ e[1] # e[2]
                     /\ s.frames \in 0..MaxFrames /\ s.lens \subseteq PayloadLen
                     \* the split carrier has four lanes
                     /\ s.kind = "split" => \A p \in s.port : p[2] < PROOF_CARRIER_QUEUE_DEPTH
  /\ PayloadLen \subseteq Nat /\ 0 \in PayloadLen
  /\ MAGIC_LEN \in Nat /\ MAGIC_LEN > 1
  /\ UART_CARRIER_HEADER_BYTES \in Nat /\ UART_CARRIER_HEADER_BYTES > MAGIC_LEN
  /\ PROOF_CARRIER_QUEUE_DEPTH \in Nat \ {0} /\ RX_RING_CAP \in Nat \ {0}
  /\ None \notin Nat /\ None \notin [id : Nat, k : Nat]
  /\ None \notin [id : Nat, from : Nat, to : Nat, lane : Nat, len : Nat]
  /\ \A s \in Site : /\ None \notin [op : {"write"}, port : s.port, next : Nat]
                     /\ None \notin [op : {"drain"}, port : s.port, left : Nat]

VARIABLES site, wire, rdr, ring, parser, queue, outgoing, rx, busy, fault,
          offered, accepted, consumed, torn, overflow, losses

line == <<wire, rdr, ring, parser>>
vars == <<site, line, queue, outgoing, rx, busy, fault,
          offered, accepted, consumed, torn, overflow, losses>>

Machine == {"host", "m33"}
Port == site.port
Role == {p[1] : p \in Port}
RoleOf(p) == p[1]
LaneOf(p) == p[2]

ROLE_M33_LED_KERNEL == 0
HostOf(r) == IF site.kind = "uart" /\ r = ROLE_M33_LED_KERNEL THEN "m33" ELSE "host"
PROOF_CARRIER_ROLES == 5

\* Who sent a frame that a parser made up, whatever source its header names.
Nobody == PROOF_CARRIER_ROLES
Misread(id) == offered[id].from = Nobody
NextId == Len(offered) + 1

Byte(id, k) == [id |-> id, k |-> k]
TotalLen(len) == UART_CARRIER_HEADER_BYTES + len + 1
EncodeUartFrame(f) == [k \in 1..TotalLen(f.len) |-> Byte(f.id, k)]

\* The bytes of a frame from its place k on.
BytesFrom(id, k, len) == {Byte(id, j) : j \in k..TotalLen(len)}

StaleLen == 0
StaleFrame == [k \in 1..TotalLen(StaleLen) |-> Byte(0, k)]
OtherText == TotalLen(StaleLen) + 1

\* What the tty holds before the first read: nothing, the ready banner (its
\* first letter is the first of MAGIC), a frame of an earlier session, or one
\* that was cut short.
Leftover(left) ==
  CASE left = "nothing" -> <<>>
    [] left = "banner" -> <<Byte(0, 1), Byte(0, OtherText)>>
    [] left = "frame" -> StaleFrame
    [] left = "cut" -> SubSeq(StaleFrame, 1, UART_CARRIER_HEADER_BYTES)

EmptyParser == [buf |-> <<>>, need |-> 0]
EmptyQueue == [frames |-> [i \in 0..(PROOF_CARRIER_QUEUE_DEPTH - 1) |-> None],
               head |-> 0, len |-> 0]

Init ==
  /\ site \in Site
  /\ wire = [m \in Machine |-> IF m = "host" THEN Leftover(site.left) ELSE <<>>]
  /\ torn = IF site.left = "cut"
            THEN BytesFrom(0, UART_CARRIER_HEADER_BYTES + 1, StaleLen) ELSE {}
  /\ rdr = None /\ ring = <<>>
  /\ parser = [m \in Machine |-> EmptyParser]
  /\ queue = [r \in Role |-> EmptyQueue]
  /\ outgoing = [p \in Port |-> None]
  /\ rx = [p \in Port |-> None]
  /\ busy = [m \in Machine |-> None]
  /\ fault = {}
  /\ offered = <<>> /\ accepted = {}
  /\ consumed = [p \in Port |-> <<>>]
  /\ overflow = FALSE /\ losses = IF site.left = "cut" THEN 1 ELSE 0

-----------------------------------------------------------------------------
(* ProofQueue.                                                             *)

At(q, i) == (q.head + i) % PROOF_CARRIER_QUEUE_DEPTH

Full(q) == q.len = PROOF_CARRIER_QUEUE_DEPTH

PushBack(q, f) ==
  [frames |-> [q.frames EXCEPT ![At(q, q.len)] = f], head |-> q.head, len |-> q.len + 1]

PushFront(q, f) ==
  LET h == IF q.head = 0 THEN PROOF_CARRIER_QUEUE_DEPTH - 1 ELSE q.head - 1
  IN  [frames |-> [q.frames EXCEPT ![h] = f], head |-> h, len |-> q.len + 1]

\* The offsets of the frames on a lane; pop_front takes the first.
OnLane(q, lane) == {i \in 0..(q.len - 1) : q.frames[At(q, i)].lane = lane}
First(q, lane) == CHOOSE i \in OnLane(q, lane) : \A j \in OnLane(q, lane) : i <= j

\* The frames behind the one taken move up by one; an empty queue starts again
\* at index 0.
PopFront(q, lane) ==
  LET i == First(q, lane)
      moved == [j \in 0..(q.len - 2) |->
                  q.frames[At(q, IF j < i THEN j ELSE j + 1)]]
  IN  [frames |-> [k \in DOMAIN q.frames |->
                     IF \E j \in DOMAIN moved : At(q, j) = k
                     THEN moved[CHOOSE j \in DOMAIN moved : At(q, j) = k]
                     ELSE IF k = At(q, q.len - 1) THEN None ELSE q.frames[k]],
       head |-> IF q.len = 1 THEN 0 ELSE q.head, len |-> q.len - 1]

Contents(q) == [i \in 1..q.len |-> q.frames[At(q, i - 1)]]

-----------------------------------------------------------------------------
(* UartFrameParser::push: the parser after byte b, and the id of the frame  *)
(* it completes.  A header read from the wrong bytes holds any length.     *)

LenOf(id) == IF id = 0 THEN StaleLen ELSE offered[id].len

Intact(buf) ==
  \A k \in (MAGIC_LEN + 1)..Len(buf) :
    buf[k] = Byte(buf[UART_CARRIER_HEADER_BYTES].id, k)

MutVerdict(buf) == {buf[UART_CARRIER_HEADER_BYTES].id}

\* What a buffer that has all its bytes is taken for: a frame, whose bytes they
\* are from the header on, or, if they are not those of one frame, nothing, or,
\* with a checksum that agrees by chance, a frame that nobody sent.
Verdict(buf) == IF Intact(buf) THEN {buf[UART_CARRIER_HEADER_BYTES].id} ELSE {None, NextId}

\* Byte b is found to be the byte of MAGIC at place k: it is, or it is one of
\* this session from behind the MAGIC and equal to it.
Matches(b, k) == b.k = k \/ (b.k > MAGIC_LEN /\ b.id # 0)

ParserPush(a, b) ==
  LET buf == Append(a.buf, b)
      place == Len(buf)
      result(p, id) == [parser |-> p, id |-> id]
      lens == IF a.need # 0 THEN {a.need - TotalLen(0)}
              ELSE IF b.k = UART_CARRIER_HEADER_BYTES THEN {LenOf(b.id)}
              ELSE PayloadLen
      noMagic == place <= MAGIC_LEN /\ b.k # place
      tooLong == place = UART_CARRIER_HEADER_BYTES /\ b.k # UART_CARRIER_HEADER_BYTES
  IN  {r \in {result(EmptyParser, None)} : noMagic \/ tooLong} \cup
      (IF place <= MAGIC_LEN /\ ~Matches(b, place) THEN {}
       ELSE IF place < UART_CARRIER_HEADER_BYTES THEN {result([buf |-> buf, need |-> 0], None)}
       ELSE UNION {IF place < TotalLen(l) THEN {result([buf |-> buf, need |-> TotalLen(l)], None)}
                   ELSE {result(EmptyParser, id) : id \in Verdict(buf)} : l \in lens})

-----------------------------------------------------------------------------
Idle(m) == busy[m] = None /\ m \notin fault

\* One endpoint operation at a time for each role.
Quiet(r) == \A p \in Port : RoleOf(p) = r => outgoing[p] = None

\* Hibana starts a send on port p.
BeginSend(p, to, len) ==
  /\ Idle(HostOf(RoleOf(p))) /\ Quiet(RoleOf(p))
  /\ <<RoleOf(p), to>> \in site.flow /\ <<to, LaneOf(p)>> \in Port
  /\ Cardinality({id \in 1..Len(offered) : ~Misread(id)}) < site.frames
  /\ LET f == [id |-> NextId, from |-> RoleOf(p), to |-> to,
               lane |-> LaneOf(p), len |-> len]
     IN  /\ outgoing' = [outgoing EXCEPT ![p] = f]
         /\ offered' = Append(offered, f)
  /\ UNCHANGED <<site, line, queue, rx, busy, fault, accepted, consumed, torn, overflow, losses>>

Finish(p) ==
  /\ outgoing' = [outgoing EXCEPT ![p] = None]
  /\ accepted' = accepted \cup {outgoing[p].id}

\* The frame goes straight to the queue of its role, or, with the queue full,
\* the poll fails.
SendThroughQueue(p) ==
  LET f == outgoing[p]
  IN  IF Full(queue[f.to])
      THEN /\ fault' = fault \cup {"host"}
           /\ overflow' = TRUE
           /\ outgoing' = [outgoing EXCEPT ![p] = None]
           /\ UNCHANGED <<queue, accepted>>
      ELSE /\ queue' = [queue EXCEPT ![f.to] = PushBack(@, f)]
           /\ Finish(p)
           /\ UNCHANGED <<fault, overflow>>

\* HardwarePeerCarrier::poll_send to a role of the Linux process.
HostPollSendLocal(p) ==
  /\ site.kind = "uart" /\ HostOf(RoleOf(p)) = "host"
  /\ Idle("host") /\ outgoing[p] # None
  /\ outgoing[p].to # ROLE_M33_LED_KERNEL
  /\ SendThroughQueue(p)
  /\ UNCHANGED <<site, line, rx, busy, offered, consumed, torn, losses>>

\* ProofCarrier::poll_send.
ProofPollSend(p) ==
  /\ site.kind = "loopback"
  /\ Idle("host") /\ outgoing[p] # None
  /\ SendThroughQueue(p)
  /\ UNCHANGED <<site, line, rx, busy, offered, consumed, torn, losses>>

\* The edges of the split carrier: there is no slot for another one.
SplitEdge == {<<0, 1>>, <<1, 2>>, <<2, 0>>}

\* ExampleFrameSlot::ready, of the slot frame f goes to.
SlotReady(f) == OnLane(queue[f.to], f.lane) # {}

\* ExampleCarrier::poll_send: Failed while the slot of the edge holds a frame.
SplitPollSend(p) ==
  LET f == outgoing[p]
  IN  /\ site.kind = "split"
      /\ Idle("host") /\ f # None
      /\ <<f.from, f.to>> \in SplitEdge
      /\ IF SlotReady(f)
         THEN /\ fault' = fault \cup {"host"}
              /\ overflow' = TRUE
              /\ outgoing' = [outgoing EXCEPT ![p] = None]
              /\ UNCHANGED <<queue, accepted>>
         ELSE /\ queue' = [queue EXCEPT ![f.to] = PushBack(@, f)]
              /\ Finish(p)
              /\ UNCHANGED <<fault, overflow>>
      /\ UNCHANGED <<site, line, rx, busy, offered, consumed, torn, losses>>

StartWriting(p, m) ==
  /\ Idle(m) /\ outgoing[p] # None
  /\ busy' = [busy EXCEPT ![m] = [op |-> "write", port |-> p, next |-> 1]]
  /\ UNCHANGED <<site, line, queue, outgoing, rx, fault, offered, accepted, consumed,
                 torn, overflow, losses>>

\* HardwarePeerCarrier::poll_send to the M33 enters its write loop.
HostPollSend(p) ==
  /\ site.kind = "uart" /\ HostOf(RoleOf(p)) = "host"
  /\ outgoing[p] # None /\ outgoing[p].to = ROLE_M33_LED_KERNEL
  /\ StartWriting(p, "host")

\* UnoQUartCarrier::poll_send enters its write loop.
M33PollSend(p) ==
  /\ HostOf(RoleOf(p)) = "m33"
  /\ StartWriting(p, "m33")

Other(m) == IF m = "host" THEN "m33" ELSE "host"

\* One byte is written; after the last one the send is complete.
Advance(m) ==
  LET p == busy[m].port
  IN  IF busy[m].next < TotalLen(outgoing[p].len)
      THEN /\ busy' = [busy EXCEPT ![m].next = @ + 1]
           /\ UNCHANGED <<outgoing, accepted>>
      ELSE /\ busy' = [busy EXCEPT ![m] = None]
           /\ Finish(p)

Writing(m) == busy[m] # None /\ busy[m].op = "write"
NextByte(m) == EncodeUartFrame(outgoing[busy[m].port])[busy[m].next]

WriteByte(m) ==
  /\ Writing(m)
  /\ wire' = [wire EXCEPT ![Other(m)] = Append(@, NextByte(m))]
  /\ Advance(m)
  /\ UNCHANGED <<site, rdr, ring, parser, queue, rx, fault, offered, consumed, torn,
                 overflow, losses>>

\* write_usart gives up on a transmitter that stays busy: the byte is not
\* sent, and the caller goes on with the next.
M33DropByte ==
  /\ Writing("m33") /\ losses < MaxLosses
  /\ Advance("m33")
  /\ losses' = losses + 1
  /\ torn' = torn \cup {NextByte("m33")}
  /\ UNCHANGED <<site, line, queue, rx, fault, offered, consumed, overflow>>

\* The host's write fails, or the deadline of the M33 has passed after a byte:
\* the poll fails and the frame ends where it is, perhaps with its last byte.
AbortWrite(m) ==
  LET p == busy[m].port
      f == outgoing[p]
  IN  /\ Writing(m)
      /\ \/ /\ wire' = [wire EXCEPT ![Other(m)] = Append(@, NextByte(m))]
            /\ torn' = torn \cup BytesFrom(f.id, busy[m].next + 1, f.len)
         \/ /\ m = "host"
            /\ torn' = torn \cup BytesFrom(f.id, busy[m].next, f.len)
            /\ UNCHANGED wire
      /\ busy' = [busy EXCEPT ![m] = None]
      /\ outgoing' = [outgoing EXCEPT ![p] = None]
      /\ fault' = fault \cup {m}
      /\ UNCHANGED <<site, rdr, ring, parser, queue, rx, offered, accepted, consumed, overflow, losses>>

-----------------------------------------------------------------------------
(* The receive side of the M33: register and ring.                         *)

\* A byte reaches the register; one that is still there is overrun (ORE).
Arrive ==
  /\ wire["m33"] # <<>>
  /\ wire' = [wire EXCEPT !["m33"] = Tail(@)]
  /\ IF rdr = None
     THEN /\ rdr' = Head(wire["m33"])
          /\ UNCHANGED <<torn, losses>>
     ELSE /\ losses < MaxLosses
          /\ losses' = losses + 1
          /\ torn' = torn \cup {Head(wire["m33"])}
          /\ UNCHANGED rdr
  /\ UNCHANGED <<site, ring, parser, queue, outgoing, rx, busy, fault, offered, accepted,
                 consumed, overflow>>

MutPumpRxRing ==
  /\ Writing("m33") /\ rdr # None
  /\ ring' = IF Len(ring) + 1 = RX_RING_CAP THEN ring ELSE Append(ring, rdr)
  /\ rdr' = None
  /\ torn' = torn
  /\ UNCHANGED <<site, wire, parser, queue, outgoing, rx, busy, fault, offered, accepted,
                 consumed, overflow, losses>>

\* pump_rx_ring while the M33 writes: the byte moves to the ring, or is dropped
\* with the ring full.
PumpRxRing ==
  /\ Writing("m33") /\ rdr # None
  /\ rdr' = None
  /\ IF Len(ring) + 1 = RX_RING_CAP
     THEN /\ torn' = torn \cup {rdr}
          /\ UNCHANGED ring
     ELSE /\ ring' = Append(ring, rdr)
          /\ UNCHANGED torn
  /\ UNCHANGED <<site, wire, parser, queue, outgoing, rx, busy, fault, offered, accepted,
                 consumed, overflow, losses>>

-----------------------------------------------------------------------------
(* Receiving.                                                              *)

Stage(p, f) ==
  /\ rx' = [rx EXCEPT ![p] = f]
  /\ consumed' = [consumed EXCEPT ![p] = Append(@, f.id)]

HasFrame(p) == OnLane(queue[RoleOf(p)], LaneOf(p)) # {}

TakeFrame(p) ==
  LET q == queue[RoleOf(p)]
  IN  /\ Stage(p, q.frames[At(q, First(q, LaneOf(p)))])
      /\ queue' = [queue EXCEPT ![RoleOf(p)] = PopFront(@, LaneOf(p))]

MayRecv(p) == Idle(HostOf(RoleOf(p))) /\ Quiet(RoleOf(p))

\* ProofCarrier::poll_recv.
ProofPollRecv(p) ==
  /\ site.kind = "loopback" /\ MayRecv(p)
  /\ HasFrame(p)
  /\ TakeFrame(p)
  /\ UNCHANGED <<site, line, outgoing, busy, fault, offered, accepted, torn, overflow, losses>>

MutHostPollRecv(p) ==
  /\ site.kind = "uart" /\ HostOf(RoleOf(p)) = "host" /\ MayRecv(p)
  /\ IF HasFrame(p)
     THEN /\ TakeFrame(p)
          /\ UNCHANGED <<busy, parser>>
     ELSE /\ busy' = [busy EXCEPT !["host"] = [op |-> "drain", port |-> p, left |-> Len(wire["host"])]]
          /\ parser' = [parser EXCEPT !["host"] = EmptyParser]
          /\ UNCHANGED <<queue, rx, consumed>>
  /\ UNCHANGED <<site, wire, rdr, ring, outgoing, fault, offered, accepted, torn, overflow, losses>>

\* ExampleCarrier::poll_recv: the slot of the one edge that ends at the role.
SplitPollRecv(p) ==
  /\ site.kind = "split" /\ MayRecv(p)
  /\ HasFrame(p)
  /\ TakeFrame(p)
  /\ UNCHANGED <<site, line, outgoing, busy, fault, offered, accepted, torn, overflow, losses>>

\* HardwarePeerCarrier::poll_recv: a queued frame is returned before the line
\* is read.
HostPollRecv(p) ==
  /\ site.kind = "uart" /\ HostOf(RoleOf(p)) = "host" /\ MayRecv(p)
  /\ IF HasFrame(p)
     THEN /\ TakeFrame(p)
          /\ UNCHANGED busy
     ELSE /\ busy' = [busy EXCEPT !["host"] = [op |-> "drain", port |-> p, left |-> Len(wire["host"])]]
          /\ UNCHANGED <<queue, rx, consumed>>
  /\ UNCHANGED <<site, line, outgoing, fault, offered, accepted, torn, overflow, losses>>

\* UnoQUartCarrier::poll_recv: the line is read first.
M33PollRecv(p) ==
  /\ HostOf(RoleOf(p)) = "m33" /\ MayRecv(p)
  /\ busy' = [busy EXCEPT !["m33"] = [op |-> "drain", port |-> p, left |-> 0]]
  /\ UNCHANGED <<site, line, queue, outgoing, rx, fault, offered, accepted, consumed, torn,
                 overflow, losses>>

Draining(m) == busy[m] # None /\ busy[m].op = "drain"

\* The host reads once, what the tty holds; read_carrier_byte takes from the
\* ring first, then from the register, for as long as there is a byte.
Readable(m) ==
  IF m = "host" THEN SubSeq(wire["host"], 1, busy["host"].left)
  ELSE IF ring # <<>> THEN ring
  ELSE IF rdr # None THEN <<rdr>> ELSE <<>>

TakeByte(m) ==
  IF m = "host" THEN wire' = [wire EXCEPT !["host"] = Tail(@)] /\ UNCHANGED <<rdr, ring>>
  ELSE IF ring # <<>> THEN ring' = Tail(ring) /\ UNCHANGED <<wire, rdr>>
  ELSE rdr' = None /\ UNCHANGED <<wire, ring>>

Rejected(id) ==
  \/ id = 0
  \/ offered[id].to >= PROOF_CARRIER_ROLES \/ offered[id].from >= PROOF_CARRIER_ROLES
  \/ offered[id].from = offered[id].to

\* The frames that machine m may make of bytes that are not one frame, and keep:
\* for a role of its own, on a lane of some port or on another.  (One for a role
\* that runs elsewhere ends in a queue that nobody reads.)
MadeUp(m) ==
  [id : {NextId}, from : {Nobody}, to : {r \in Role : HostOf(r) = m},
   lane : {LaneOf(p) : p \in Port} \cup {0},
   len : {l \in PayloadLen : TotalLen(l) = parser[m].need}]

\* One round of drain_serial or drain_uart.  A frame of another session is
\* skipped.  With the queue full the M33 drops the frame and goes on; the
\* host's poll fails.
DrainByte(m) ==
  /\ Draining(m) /\ Readable(m) # <<>>
  /\ TakeByte(m)
  /\ \E result \in ParserPush(parser[m], Head(Readable(m))) :
       /\ parser' = [parser EXCEPT ![m] = result.parser]
       /\ offered' \in IF result.id = NextId THEN {Append(offered, f) : f \in MadeUp(m)}
                       ELSE {offered}
       /\ LET known == result.id # None /\ (result.id = NextId \/ ~Rejected(result.id))
              f == offered'[result.id]
              full == known /\ Full(queue[f.to])
          IN  /\ queue' = IF known /\ ~full THEN [queue EXCEPT ![f.to] = PushBack(@, f)] ELSE queue
              /\ overflow' = (overflow \/ full)
              /\ fault' = IF full /\ m = "host" THEN fault \cup {m} ELSE fault
              /\ busy' = IF m = "m33" THEN busy
                         ELSE IF full THEN [busy EXCEPT ![m] = None]
                         ELSE [busy EXCEPT ![m].left = @ - 1]
  /\ UNCHANGED <<site, outgoing, rx, accepted, consumed, torn, losses>>

\* Nothing more to read: the poll returns the first queued frame of its lane,
\* or Pending.
DrainEnd(m) ==
  LET p == busy[m].port
  IN  /\ Draining(m) /\ Readable(m) = <<>>
      /\ busy' = [busy EXCEPT ![m] = None]
      /\ IF HasFrame(p) THEN TakeFrame(p) ELSE UNCHANGED <<queue, rx, consumed>>
      /\ UNCHANGED <<site, line, outgoing, fault, offered, accepted, torn, overflow, losses>>

\* The deadline of the M33 has passed with no frame in its queue.
M33RecvDeadline ==
  /\ Draining("m33") /\ Readable("m33") = <<>>
  /\ ~HasFrame(busy["m33"].port)
  /\ busy' = [busy EXCEPT !["m33"] = None]
  /\ fault' = fault \cup {"m33"}
  /\ UNCHANGED <<site, line, queue, outgoing, rx, offered, accepted, consumed, torn,
                 overflow, losses>>

\* requeue: the staged frame goes back in front of the queue.  With the queue
\* full push_front returns without a word, and the frame is gone.
Requeue(p) ==
  /\ site.kind # "split"
  /\ MayRecv(p) /\ rx[p] # None
  /\ rx' = [rx EXCEPT ![p] = None]
  /\ consumed' = [consumed EXCEPT ![p] = SubSeq(@, 1, Len(@) - 1)]
  /\ IF Full(queue[RoleOf(p)])
     THEN overflow' = TRUE /\ UNCHANGED queue
     ELSE /\ queue' = [queue EXCEPT ![RoleOf(p)] = PushFront(@, rx[p])]
          /\ UNCHANGED overflow
  /\ UNCHANGED <<site, line, outgoing, busy, fault, offered, accepted, torn, losses>>

\* ExampleCarrier::requeue returns Ok and puts nothing back.
SplitRequeue(p) ==
  /\ site.kind = "split"
  /\ MayRecv(p) /\ rx[p] # None
  /\ rx' = [rx EXCEPT ![p] = None]
  /\ consumed' = [consumed EXCEPT ![p] = SubSeq(@, 1, Len(@) - 1)]
  /\ overflow' = TRUE
  /\ UNCHANGED <<site, line, queue, outgoing, busy, fault, offered, accepted, torn, losses>>

-----------------------------------------------------------------------------
Polls(p) ==
  \/ HostPollSendLocal(p) \/ HostPollSend(p) \/ M33PollSend(p) \/ ProofPollSend(p)
  \/ SplitPollSend(p)
  \/ HostPollRecv(p) \/ M33PollRecv(p) \/ ProofPollRecv(p) \/ SplitPollRecv(p)

Next ==
  \/ \E p \in Port :
       \/ \E to \in Role, l \in site.lens : BeginSend(p, to, l)
       \/ Polls(p)
       \/ Requeue(p)
       \/ SplitRequeue(p)
  \/ \E m \in Machine :
       \/ WriteByte(m)
       \/ AbortWrite(m)
       \/ DrainByte(m)
       \/ DrainEnd(m)
  \/ M33DropByte
  \/ Arrive
  \/ PumpRxRing
  \/ M33RecvDeadline

Safety == Init /\ [][Next]_vars

SendPolls(m) ==
  \E p \in Port : /\ HostOf(RoleOf(p)) = m
                  /\ HostPollSendLocal(p) \/ HostPollSend(p) \/ M33PollSend(p) \/ ProofPollSend(p)
                     \/ SplitPollSend(p)

RecvPolls(p) == p \in Port /\ (HostPollRecv(p) \/ M33PollRecv(p))

PollRuns(m) == WriteByte(m) \/ DrainByte(m) \/ DrainEnd(m)

PortsOf(kind) == UNION {s.port : s \in {t \in Site : t.kind \in kind}}

\* The scheduler of a machine polls each of its tasks again and again, the code
\* of a poll runs to its end, the line carries what was written, and Hibana
\* gives a frame back finitely often.  Nothing obliges it to send.
Fairness ==
  /\ \A m \in Machine : WF_vars(PollRuns(m))
  /\ SF_vars(SendPolls("host")) /\ WF_vars(SendPolls("m33"))
  /\ \A p \in PortsOf({"uart"}) :
       IF RoleOf(p) = ROLE_M33_LED_KERNEL THEN WF_vars(RecvPolls(p)) ELSE SF_vars(RecvPolls(p))
  /\ \A p \in PortsOf({"loopback", "split"}) : WF_vars(p \in Port /\ (ProofPollRecv(p) \/ SplitPollRecv(p)))
  /\ WF_vars(Arrive)
  /\ <>[][\A p \in Port : ~Requeue(p)]_vars

Spec == Safety /\ Fairness

-----------------------------------------------------------------------------
Ids == 1..Len(offered)
Frame == [id : Nat \ {0}, from : 0..Nobody, to : 0..4, lane : Nat, len : PayloadLen]
LineByte == [id : Nat, k : Nat]
QueueSlots == 0..(PROOF_CARRIER_QUEUE_DEPTH - 1)
Queue == [frames : [QueueSlots -> Frame \cup {None}], head : QueueSlots,
          len : 0..PROOF_CARRIER_QUEUE_DEPTH]

\* The cells in use are those that hold a frame.
QueueOK(q) ==
  /\ q \in Queue
  /\ \A i \in QueueSlots : q.frames[i] # None <=> \E j \in 0..(q.len - 1) : At(q, j) = i

\* A parser is short of the header, or short of the length that it found there.
ParserOK(a) ==
  /\ a \in [buf : Seq(LineByte), need : Nat]
  /\ a.need = 0 => Len(a.buf) < UART_CARRIER_HEADER_BYTES
  /\ a.need # 0 => /\ Len(a.buf) \in UART_CARRIER_HEADER_BYTES..(a.need - 1)
                   /\ a.need \in {TotalLen(l) : l \in PayloadLen \cup {StaleLen}}

Writes == [op : {"write"}, port : Port, next : Nat]
Drains == [op : {"drain"}, port : Port, left : Nat]

\* The variables hold values of their types.
TypeOK ==
  /\ site \in Site
  /\ wire \in [Machine -> Seq(LineByte)]
  /\ rdr \in LineByte \cup {None}
  /\ ring \in Seq(LineByte) /\ Len(ring) < RX_RING_CAP
  /\ DOMAIN parser = Machine /\ \A m \in Machine : ParserOK(parser[m])
  /\ DOMAIN queue = Role /\ \A r \in Role : QueueOK(queue[r])
  /\ outgoing \in [Port -> Frame \cup {None}]
  /\ rx \in [Port -> Frame \cup {None}]
  /\ busy \in [Machine -> Writes \cup Drains \cup {None}]
  /\ offered \in Seq(Frame)
  /\ consumed \in [Port -> Seq(Nat)]
  /\ fault \subseteq Machine /\ accepted \subseteq Ids /\ torn \subseteq LineByte
  /\ overflow \in BOOLEAN

Queued(r) == {Contents(queue[r])[i].id : i \in 1..queue[r].len}
Taken(p) == {consumed[p][n] : n \in 1..Len(consumed[p])}
Held(r) == Queued(r) \cup UNION {Taken(p) : p \in {q \in Port : RoleOf(q) = r}}

\* The parser never looks at the bytes of MAGIC again: it may take those of one
\* frame and, when everything between was lost, the rest of another.
Lost(id) == \E k \in (MAGIC_LEN + 1)..TotalLen(offered[id].len) : Byte(id, k) \in torn

\* Whatever the line loses, a frame that lacks a byte is delivered only where the
\* checksum agreed by chance: each frame that a role holds is for that role, and
\* was received with all its bytes from the header on or was sent by nobody; and
\* none is of the session before (UartFrameParser::push).
IntactFrames ==
  \A r \in Role : \A id \in Held(r) :
    id \in Ids /\ offered[id].to = r /\ ~Lost(id)

\* No frame is held twice: neither at two places of a queue, nor by two ports or
\* twice by one, nor by a port while it is queued (pop_front, requeue).
HeldOnce ==
  /\ \A r \in Role : \A i, j \in 1..queue[r].len :
       Contents(queue[r])[i].id = Contents(queue[r])[j].id => i = j
  /\ \A p, q \in Port : \A i \in DOMAIN consumed[p], j \in DOMAIN consumed[q] :
       consumed[p][i] = consumed[q][j] => p = q /\ i = j
  /\ \A p \in Port : Taken(p) \cap Queued(RoleOf(p)) = {}

\* On one lane the frames of one role reach a port in the order of their sends,
\* through requeues, skipped lanes and lost bytes.  (So do those of nobody, in
\* the order of their arrival.)
InOrder ==
  \A p \in Port : \A i, j \in DOMAIN consumed[p] :
    i < j /\ offered[consumed[p][i]].from = offered[consumed[p][j]].from
      => consumed[p][i] < consumed[p][j]

-----------------------------------------------------------------------------
(* What makes this inductive.                                              *)

\* The bytes that machine m has not read, in the order in which it will.
Joined(in, register, out) == in \o (IF register = None THEN <<>> ELSE <<register>>) \o out
Unread(m) == IF m = "host" THEN wire["host"] ELSE Joined(ring, rdr, wire["m33"])

BytesOf(s) == {s[i] : i \in 1..Len(s)}
OnLine(m) == BytesOf(parser[m].buf) \cup BytesOf(Unread(m))

\* A frame is what its id says, for some role; one that somebody sent is between
\* two roles with a port on its lane.
OfferedInv ==
  \A id \in Ids : LET f == offered[id]
                  IN  /\ f.id = id /\ f.to \in Role
                      /\ IF Misread(id) THEN site.kind = "uart"
                         ELSE /\ <<f.from, f.to>> \in site.flow
                              /\ <<f.from, f.lane>> \in Port /\ <<f.to, f.lane>> \in Port

\* A role sends one frame at a time, its latest.
OutgoingInv ==
  \A p \in Port : outgoing[p] # None =>
    /\ outgoing[p].id \in Ids /\ outgoing[p] = offered[outgoing[p].id]
    /\ outgoing[p].from = RoleOf(p) /\ outgoing[p].lane = LaneOf(p)
    /\ \A id \in Ids : offered[id].from = RoleOf(p) => id <= outgoing[p].id
    /\ \A q \in Port : outgoing[q] # None /\ RoleOf(q) = RoleOf(p) => q = p

\* A machine writes a frame of one of its roles for the other machine, or reads.
BusyInv ==
  \A m \in Machine : busy[m] # None =>
    /\ site.kind = "uart" /\ HostOf(RoleOf(busy[m].port)) = m
    /\ busy[m].op = "write" => LET f == outgoing[busy[m].port]
                               IN  /\ f # None /\ HostOf(f.to) = Other(m)
                                   /\ busy[m].next \in 1..TotalLen(f.len)
    /\ busy[m].op = "drain" /\ m = "host" => busy[m].left <= Len(wire["host"])

\* Byte b is of a frame for machine m, and of one whose turn on the line has
\* come: of a frame still to be sent only the bytes before the next have gone.
SentTo(m, b) ==
  b.id # 0 =>
    /\ site.kind = "uart"
    /\ b.id \in Ids /\ ~Misread(b.id)
    /\ HostOf(offered[b.id].from) = Other(m) /\ HostOf(offered[b.id].to) = m
    /\ b.k \in 1..TotalLen(offered[b.id].len)
    /\ \A p \in Port : outgoing[p] # None /\ outgoing[p].id = b.id =>
         Writing(Other(m)) /\ busy[Other(m)].port = p /\ b.k < busy[Other(m)].next

SentInv ==
  /\ \A m \in Machine : \A b \in OnLine(m) : SentTo(m, b)
  /\ \A b \in torn : \E m \in Machine : SentTo(m, b)

\* The bytes of one role's frames come in the order of sends.
Before(b, c) ==
  b.id # 0 /\ c.id # 0 /\ offered[b.id].from = offered[c.id].from =>
    b.id < c.id \/ (b.id = c.id /\ b.k < c.k)

SortedInv ==
  \A m \in Machine :
    /\ \A i, j \in 1..Len(Unread(m)) : i < j => Before(Unread(m)[i], Unread(m)[j])
    /\ \A b \in BytesOf(parser[m].buf), c \in BytesOf(Unread(m)) : Before(b, c)

\* A byte that was lost is not there.
LostInv ==
  \A m \in Machine : \A b \in OnLine(m) : b.id # 0 => b \notin torn

\* The length that the parser goes by is that of the frame of the header.
NeedInv ==
  \A m \in Machine : LET a == parser[m]
                         h == UART_CARRIER_HEADER_BYTES
                     IN  Len(a.buf) >= h /\ a.buf[h].k = h => a.need = TotalLen(LenOf(a.buf[h].id))

\* Queues and ports hold frames as they were offered, and rx the last one.
HeldInv ==
  /\ \A r \in Role : \A i \in 1..queue[r].len :
       LET f == Contents(queue[r])[i] IN f.id \in Ids /\ f = offered[f.id] /\ f.to = r
  /\ \A p \in Port :
       /\ \A n \in DOMAIN consumed[p] :
            /\ consumed[p][n] \in Ids
            /\ offered[consumed[p][n]].to = RoleOf(p) /\ offered[consumed[p][n]].lane = LaneOf(p)
       /\ rx[p] # None => consumed[p] # <<>> /\ rx[p] = offered[consumed[p][Len(consumed[p])]]

\* Of one role's frames to another those held are older than those on the line,
\* and those older than the one to be sent.
NewerInv ==
  \A r \in Role : \A id \in Held(r) :
    /\ \A m \in Machine : \A b \in OnLine(m) :
         b.id # 0 /\ offered[b.id].from = offered[id].from /\ offered[b.id].to = r => id < b.id
    /\ \A p \in Port : outgoing[p] # None /\ RoleOf(p) = offered[id].from => id < outgoing[p].id

\* A queue holds the frames of a lane and a sender in order, newer than what the
\* port has taken.
QueueOrder ==
  \A r \in Role : \A j \in 1..queue[r].len :
    LET g == Contents(queue[r])[j]
    IN  /\ \A i \in 1..(j - 1) : LET f == Contents(queue[r])[i]
                                 IN  f.lane = g.lane /\ f.from = g.from => f.id < g.id
        /\ \A p \in Port : RoleOf(p) = r /\ LaneOf(p) = g.lane =>
             \A n \in DOMAIN consumed[p] : offered[consumed[p][n]].from = g.from => consumed[p][n] < g.id

\* A slot of the split carrier has room for one frame.
SlotInv ==
  site.kind = "split" =>
    \A r \in Role : \A i, j \in 1..queue[r].len :
      Contents(queue[r])[i].lane = Contents(queue[r])[j].lane => i = j

\* Whatever a role holds is whole, its own, and came in order, and the bytes of
\* the line are those of the frames being sent.
FramesInv ==
  /\ TypeOK /\ IntactFrames /\ HeldOnce /\ InOrder
  /\ OfferedInv /\ OutgoingInv /\ BusyInv
  /\ SentInv /\ SortedInv /\ LostInv /\ NeedInv
  /\ HeldInv /\ NewerInv /\ QueueOrder /\ SlotInv

-----------------------------------------------------------------------------
(* Nothing is lost by the carrier itself.                                  *)

\* Nothing of a frame is still on its way to machine m.
LineClear(m) ==
  /\ wire[m] = <<>> /\ ~Writing(Other(m))
  /\ m = "m33" => rdr = None /\ ring = <<>>

Damaged(m) ==
  \E b \in torn : IF b.id = 0 THEN m = "host" ELSE HostOf(offered[b.id].to) = m

\* As long as no byte of the line was lost and no queue was full, a frame
\* whose send returned Ready is with its role once the line is clear, whatever
\* banner or frame the line held before the session.  (A frame of that session
\* that was cut short has lost bytes, and may take some of the next.)
NothingLost ==
  \A id \in accepted :
    LET m == HostOf(offered[id].to)
    IN  ~overflow /\ ~Damaged(m) /\ LineClear(m) => id \in Held(offered[id].to)

\* The last byte of a frame, or of the banner.
Ends(b) == b.k = TotalLen(LenOf(b.id)) \/ b = Byte(0, OtherText)

\* Byte c comes after b on a line that loses nothing.
Follows(b, c) ==
  IF Ends(b) THEN c.k = 1
  ELSE c = Byte(b.id, b.k + 1) \/ (b = Byte(0, 1) /\ c = Byte(0, OtherText))

\* The byte that machine m wrote last, of a frame that it has not written to
\* the end.
Written(m) ==
  IF Writing(m) /\ busy[m].next > 1
  THEN Byte(outgoing[busy[m].port].id, busy[m].next - 1) ELSE None

\* Byte b is the last of a line whose writer has written w last.
Closes(w, b) == IF w = None THEN Ends(b) ELSE b = w

\* The parser has the beginning of a frame, the bytes that are unread go on from
\* there, and the writer goes on from them.
Stream(buf, in, w) ==
  /\ \A i \in 1..Len(buf) : buf[i] = Byte(buf[1].id, i)
  /\ \A i \in 1..(Len(in) - 1) : Follows(in[i], in[i + 1])
  /\ in # <<>> => /\ IF buf = <<>> THEN in[1].k = 1 ELSE Follows(buf[Len(buf)], in[1])
                  /\ Closes(w, in[Len(in)])
  /\ in = <<>> => IF buf = <<>> THEN w = None ELSE Closes(w, buf[Len(buf)])

\* So it is without a loss; and the M33 is sent nothing of another session.
StreamInv ==
  /\ \A b \in OnLine("m33") : b.id # 0
  /\ \A m \in Machine : ~Damaged(m) => Stream(parser[m].buf, Unread(m), Written(Other(m)))

\* Frame id is with its role, or its last byte is unread.
Arrived(id) ==
  LET f == offered[id]
      m == HostOf(f.to)
  IN  \/ id \in Held(f.to)
      \/ HostOf(f.from) # m /\ Byte(id, TotalLen(f.len)) \in BytesOf(Unread(m))

\* So it is with every frame that was accepted.
AcceptedInv ==
  \A id \in accepted : ~overflow /\ ~Damaged(HostOf(offered[id].to)) => Arrived(id)

\* The checksum agrees with what is not a frame only at a machine that bytes were
\* lost on the way to (UartFrameParser::push): while the line loses nothing, no
\* role is given a frame that nobody sent.
MisreadInv == \A id \in Ids : Misread(id) => Damaged(HostOf(offered[id].to))

\* The two machines as a whole.
LinkInv == FramesInv /\ StreamInv /\ AcceptedInv /\ MisreadInv

\* The frames that were offered are all delivered in the end, unless a byte was
\* lost, a queue was full or a machine stopped.
Delivered ==
  []<>(\/ fault # {} \/ overflow \/ torn # {}
       \/ \A id \in Ids : \E p \in Port : id \in Taken(p))
=============================================================================
