---------------------------- MODULE FifoCarrier ----------------------------
(***************************************************************************)
(* The RP2350 SIO carrier of the Pico 2 W firmware: a frame crosses the    *)
(* cores as a header of four words and its payload words, pushed one by    *)
(* one into the hardware FIFO of the other core and gathered there by an   *)
(* accumulator that every role of that core shares.  Cores run             *)
(* concurrently, word by word; the polls of one core never overlap.        *)
(*                                                                         *)
(* site           the deployment that runs                                 *)
(* fifo[c]        the words on their way to core c                         *)
(* accum[c]       SIO_RX_ACCUM_CORE0/1: the words of an unfinished frame   *)
(* stash[c][r]    SIO_RX_STASH_CORE0/1: one frame for each role            *)
(* outgoing[p]    the frame Hibana polls poll_send with                    *)
(* pending[p]     SioTx.pending: the frame being pushed, and word_index    *)
(* rx[p]          SioRx frame, delivered, requeued                         *)
(* busy[c]        the poll core c is executing                             *)
(* fault[c]       the error a poll returned: the image of core c ends      *)
(* offered        history: the frames handed to poll_send (id = place)     *)
(* sent[c]        history: the ids core c pushed whole, in order           *)
(* got[c]         history: the ids core c decoded whole, in order          *)
(* seen[p]        history: the ids staged at port p, in order              *)
(* cut[c]         history: core c dropped a frame between two of its words *)
(*                                                                         *)
(* A word is named by its frame and its place in it (1 MAGIC, 2 session,   *)
(* 3 meta, 4 lane, then payload); no other word equals MAGIC.              *)
(***************************************************************************)
EXTENDS Naturals, Sequences, FiniteSets

CONSTANTS
  Site,        \* deployments: opened ports, flows and the deadline
  PayloadWords,\* the payload sizes that are sent, in words
  FifoDepth,   \* words the hardware FIFO holds (four on RP2350)
  None,
  MaxFrames    \* bound: frames offered in a behaviour

VARIABLES site, fifo, accum, stash, outgoing, pending, rx, busy, fault,
          offered, sent, got, seen, cut

SIO_FRAME_HEADER_WORDS == 4
SIO_FRAME_PAYLOAD_WORDS == 32
SIO_RX_STASH_ROLES == 16

\* The low byte of MAGIC, read as a lane, and its third, read as a role.
MAGIC_AS_LANE == 1
MAGIC_AS_ROLE == 73

Core == {0, 1}
Peer(c) == 1 - c
Role == 0..2
Rp2wRoleCore(r) == IF r = 1 THEN 1 ELSE 0

\* The flow leaves the core of its sender.
Crosses(flow) == Rp2wRoleCore(flow[1]) # Rp2wRoleCore(flow[2])

\* In the choreographies of this board one role of each core, driver and
\* engine, talks to the other core; the boundary talks to the driver.
ASSUME FifoAssumption ==
  /\ \A s \in Site :
       /\ s.port \subseteq Role \X Nat
       /\ s.flow \subseteq Role \X Role
       /\ s.deadline \in BOOLEAN
       /\ \A f, g \in s.flow :
            Crosses(f) /\ Crosses(g) /\ Rp2wRoleCore(f[1]) = Rp2wRoleCore(g[1]) => f[1] = g[1]
  /\ PayloadWords \subseteq Nat
  /\ FifoDepth \in 1..SIO_FRAME_HEADER_WORDS
  /\ MaxFrames \in Nat
  /\ None \notin [id : Nat, from : Role, to : Role, lane : Nat, words : Nat]
  /\ None \notin [id : Nat, from : Role, to : Nat, lane : Nat, whole : BOOLEAN]
  /\ \A s \in Site : None \notin [op : {"send", "recv"}, port : s.port]
  /\ None \notin [frame : [id : Nat, from : Role, to : Role, lane : Nat, words : Nat], next : Nat]

Port == site.port
RoleOf(p) == p[1]
LaneOf(p) == p[2]
HostOf(p) == Rp2wRoleCore(RoleOf(p))

EmptyRx == [frame |-> None, delivered |-> FALSE, requeued |-> FALSE]

Init ==
  /\ site \in Site
  /\ fifo = [c \in Core |-> <<>>]
  /\ accum = [c \in Core |-> <<>>]
  /\ stash = [c \in Core |-> [r \in Role |-> None]]
  /\ outgoing = [p \in Port |-> None]
  /\ pending = [p \in Port |-> None]
  /\ rx = [p \in Port |-> EmptyRx]
  /\ busy = [c \in Core |-> None]
  /\ fault = [c \in Core |-> "none"]
  /\ offered = <<>>
  /\ sent = [c \in Core |-> <<>>]
  /\ got = [c \in Core |-> <<>>]
  /\ seen = [p \in Port |-> <<>>]
  /\ cut = [c \in Core |-> FALSE]

vars == <<site, fifo, accum, stash, outgoing, pending, rx, busy, fault,
          offered, sent, got, seen, cut>>

-----------------------------------------------------------------------------
Idle(c) == busy[c] = None /\ fault[c] = "none"
Fail(c, error) == fault' = [fault EXCEPT ![c] = error]

\* PendingTxFrame::total_words.
TotalWords(f) == SIO_FRAME_HEADER_WORDS + f.words

Sending(r) == {p \in Port : RoleOf(p) = r /\ outgoing[p] # None}

\* A role task awaits one operation of its endpoint at a time, and in the
\* capsules of this board a role sends only while its peer does not: their
\* choreographies are sequences.
MaySend(p, to) ==
  /\ Sending(RoleOf(p)) = {}
  /\ \A q \in Sending(to) : outgoing[q].to # RoleOf(p)

MayRecv(p) == Idle(HostOf(p)) /\ Sending(RoleOf(p)) = {}

-----------------------------------------------------------------------------
(* Sending.                                                                *)

\* Hibana starts a send on port p.
BeginSend(p, to, words) ==
  /\ Idle(HostOf(p))
  /\ <<RoleOf(p), to>> \in site.flow /\ <<to, LaneOf(p)>> \in Port
  /\ MaySend(p, to)
  /\ Len(offered) < MaxFrames
  /\ LET f == [id |-> Len(offered) + 1, from |-> RoleOf(p), to |-> to,
               lane |-> LaneOf(p), words |-> words]
     IN  /\ outgoing' = [outgoing EXCEPT ![p] = f]
         /\ offered' = Append(offered, f)
  /\ UNCHANGED <<site, fifo, accum, stash, pending, rx, busy, fault, sent, got, seen, cut>>

\* poll_send to the role itself: Ready, nothing is sent.
PollSendSelf(p) ==
  /\ Idle(HostOf(p)) /\ outgoing[p] # None
  /\ outgoing[p].to = RoleOf(p)
  /\ outgoing' = [outgoing EXCEPT ![p] = None]
  /\ UNCHANGED <<site, fifo, accum, stash, pending, rx, busy, fault, offered, sent, got, seen, cut>>

\* poll_send of more bytes than a frame holds.
PollSendOversize(p) ==
  /\ Idle(HostOf(p)) /\ outgoing[p] # None
  /\ outgoing[p].to # RoleOf(p)
  /\ outgoing[p].words > SIO_FRAME_PAYLOAD_WORDS
  /\ Fail(HostOf(p), "Capacity")
  /\ outgoing' = [outgoing EXCEPT ![p] = None]
  /\ UNCHANGED <<site, fifo, accum, stash, pending, rx, busy, offered, sent, got, seen, cut>>

Sendable(p) ==
  /\ Idle(HostOf(p)) /\ outgoing[p] # None
  /\ outgoing[p].to # RoleOf(p)
  /\ outgoing[p].words <= SIO_FRAME_PAYLOAD_WORDS

MutStashFrame(c, f) ==
  /\ stash' = [stash EXCEPT ![c][f.to] = f]
  /\ UNCHANGED fault

\* stash_frame: the role's slot takes the frame, or the poll fails.
StashFrame(c, f) ==
  IF f.to >= SIO_RX_STASH_ROLES \/ stash[c][f.to] # None
  THEN /\ Fail(c, "Capacity")
       /\ UNCHANGED stash
  ELSE /\ stash' = [stash EXCEPT ![c][f.to] = f]
       /\ UNCHANGED fault

\* poll_send to a role of this core: through the stash.
PollSendLocal(p) ==
  LET f == outgoing[p]
  IN  /\ Sendable(p)
      /\ Rp2wRoleCore(f.to) = HostOf(p)
      /\ StashFrame(HostOf(p), [id |-> f.id, from |-> f.from, to |-> f.to,
                                lane |-> f.lane, whole |-> TRUE])
      /\ outgoing' = [outgoing EXCEPT ![p] = None]
      /\ UNCHANGED <<site, fifo, accum, pending, rx, busy, offered, sent, got, seen, cut>>

MutPollSend(p) ==
  /\ Sendable(p)
  /\ Rp2wRoleCore(outgoing[p].to) # HostOf(p)
  /\ pending' = [pending EXCEPT ![p] = [frame |-> outgoing[p], next |-> 1]]
  /\ busy' = [busy EXCEPT ![HostOf(p)] = [op |-> "send", port |-> p]]
  /\ UNCHANGED <<site, fifo, accum, stash, outgoing, rx, fault, offered, sent, got, seen, cut>>

\* poll_send to a role of the other core: the poll goes on where the last one
\* left off.
PollSend(p) ==
  /\ Sendable(p)
  /\ Rp2wRoleCore(outgoing[p].to) # HostOf(p)
  /\ pending' = [pending EXCEPT ![p] =
                   IF @ = None THEN [frame |-> outgoing[p], next |-> 1] ELSE @]
  /\ busy' = [busy EXCEPT ![HostOf(p)] = [op |-> "send", port |-> p]]
  /\ UNCHANGED <<site, fifo, accum, stash, outgoing, rx, fault, offered, sent, got, seen, cut>>

MutPushWord(c) ==
  LET p == busy[c].port
      f == pending[p].frame
      w == [id |-> f.id, k |-> pending[p].next]
  IN  /\ busy[c] # None /\ busy[c].op = "send"
      /\ fifo' = [fifo EXCEPT ![Peer(c)] = IF Len(@) < FifoDepth THEN Append(@, w) ELSE @]
      /\ IF w.k < TotalWords(f)
         THEN /\ pending' = [pending EXCEPT ![p].next = @ + 1]
              /\ UNCHANGED <<busy, outgoing, sent>>
         ELSE /\ pending' = [pending EXCEPT ![p] = None]
              /\ outgoing' = [outgoing EXCEPT ![p] = None]
              /\ busy' = [busy EXCEPT ![c] = None]
              /\ sent' = [sent EXCEPT ![c] = Append(@, f.id)]
      /\ UNCHANGED <<site, accum, stash, rx, fault, offered, got, seen, cut>>

\* One round of the push loop, with room in the FIFO.  After the last word the
\* send is complete.
PushWord(c) ==
  LET p == busy[c].port
      f == pending[p].frame
      w == [id |-> f.id, k |-> pending[p].next]
  IN  /\ busy[c] # None /\ busy[c].op = "send"
      /\ Len(fifo[Peer(c)]) < FifoDepth
      /\ fifo' = [fifo EXCEPT ![Peer(c)] = Append(@, w)]
      /\ IF w.k < TotalWords(f)
         THEN /\ pending' = [pending EXCEPT ![p].next = @ + 1]
              /\ UNCHANGED <<busy, outgoing, sent>>
         ELSE /\ pending' = [pending EXCEPT ![p] = None]
              /\ outgoing' = [outgoing EXCEPT ![p] = None]
              /\ busy' = [busy EXCEPT ![c] = None]
              /\ sent' = [sent EXCEPT ![c] = Append(@, f.id)]
      /\ UNCHANGED <<site, accum, stash, rx, fault, offered, got, seen, cut>>

\* The FIFO is full: the poll wakes its task and returns Pending.
SendPending(c) ==
  /\ busy[c] # None /\ busy[c].op = "send"
  /\ Len(fifo[Peer(c)]) >= FifoDepth
  /\ busy' = [busy EXCEPT ![c] = None]
  /\ UNCHANGED <<site, fifo, accum, stash, outgoing, pending, rx, fault, offered, sent, got, seen, cut>>

\* cancel_send drops the pending frame.  The words already pushed stay.
CancelSend(p) ==
  /\ Idle(HostOf(p)) /\ outgoing[p] # None
  /\ outgoing' = [outgoing EXCEPT ![p] = None]
  /\ pending' = [pending EXCEPT ![p] = None]
  /\ cut' = [cut EXCEPT ![HostOf(p)] = @ \/ (pending[p] # None /\ pending[p].next > 1)]
  /\ UNCHANGED <<site, fifo, accum, stash, rx, busy, fault, offered, sent, got, seen>>

-----------------------------------------------------------------------------
(* Receiving.                                                              *)

Stage(p, f) ==
  /\ rx' = [rx EXCEPT ![p] = [frame |-> f, delivered |-> TRUE, requeued |-> FALSE]]
  /\ seen' = [seen EXCEPT ![p] = Append(@, f.id)]

FrameTargetsRxLane(f, p) == f.lane = LaneOf(p)

\* poll_recv returns the frame that requeue gave back.
PollRecvRequeued(p) ==
  /\ MayRecv(p)
  /\ rx[p].frame # None /\ (rx[p].requeued \/ ~rx[p].delivered)
  /\ rx' = [rx EXCEPT ![p].requeued = FALSE, ![p].delivered = TRUE]
  /\ UNCHANGED <<site, fifo, accum, stash, outgoing, pending, busy, fault, offered, sent, got, seen, cut>>

\* No frame was given back: the last one is finished with.
Fresh(p) == rx[p].frame # None => ~rx[p].requeued /\ rx[p].delivered

\* poll_recv finds a frame stashed for its role: staged on the right lane,
\* stashed again on another, without a look at the FIFO.
PollRecvStash(p) ==
  LET c == HostOf(p)
      f == stash[c][RoleOf(p)]
  IN  /\ MayRecv(p) /\ Fresh(p)
      /\ f # None
      /\ IF FrameTargetsRxLane(f, p)
         THEN /\ Stage(p, f)
              /\ stash' = [stash EXCEPT ![c][RoleOf(p)] = None]
         ELSE /\ rx' = [rx EXCEPT ![p] = EmptyRx]
              /\ UNCHANGED <<stash, seen>>
      /\ UNCHANGED <<site, fifo, accum, outgoing, pending, busy, fault, offered, sent, got, cut>>

MutPollRecvLoop(p) ==
  /\ MayRecv(p) /\ Fresh(p)
  /\ rx' = [rx EXCEPT ![p] = EmptyRx]
  /\ busy' = [busy EXCEPT ![HostOf(p)] = [op |-> "recv", port |-> p]]
  /\ UNCHANGED <<site, fifo, accum, stash, outgoing, pending, fault, offered, sent, got, seen, cut>>

\* poll_recv enters its pop loop.
PollRecvLoop(p) ==
  LET c == HostOf(p)
  IN  /\ MayRecv(p) /\ Fresh(p)
      /\ stash[c][RoleOf(p)] = None
      /\ rx' = [rx EXCEPT ![p] = EmptyRx]
      /\ busy' = [busy EXCEPT ![c] = [op |-> "recv", port |-> p]]
      /\ UNCHANGED <<site, fifo, accum, stash, outgoing, pending, fault, offered, sent, got, seen, cut>>

\* What push_word makes of the words gathered so far: an error, nothing yet,
\* or a frame read from the third and the fourth word.
Expected(a) == SIO_FRAME_HEADER_WORDS + (IF a[3].k = 1 THEN 1 ELSE offered[a[3].id].words)

Rejected(a) == a[1].k # 1 \/ (Len(a) = SIO_FRAME_HEADER_WORDS /\ a[3].k \notin {1, 3})

Complete(a) == Len(a) >= SIO_FRAME_HEADER_WORDS /\ Len(a) >= Expected(a)

Decoded(a) ==
  [id |-> a[3].id, from |-> offered[a[3].id].from,
   to |-> IF a[3].k = 1 THEN MAGIC_AS_ROLE ELSE offered[a[3].id].to,
   lane |-> IF a[4].k = 1 THEN MAGIC_AS_LANE ELSE offered[a[4].id].lane,
   whole |-> \A i \in 1..Len(a) : a[i] = [id |-> a[3].id, k |-> i]]

\* One round of the pop loop that finds a word.  A finished frame is returned
\* if it is for this role and lane and stashed otherwise.
PopWord(c) ==
  LET p == busy[c].port
      a == Append(accum[c], Head(fifo[c]))
      f == Decoded(a)
  IN  /\ busy[c] # None /\ busy[c].op = "recv"
      /\ fifo[c] # <<>>
      /\ fifo' = [fifo EXCEPT ![c] = Tail(@)]
      /\ accum' = [accum EXCEPT ![c] = IF Rejected(a) \/ Complete(a) THEN <<>> ELSE a]
      /\ \/ /\ Rejected(a)
            /\ Fail(c, "Failed")
            /\ busy' = [busy EXCEPT ![c] = None]
            /\ UNCHANGED <<stash, rx, got, seen>>
         \/ /\ ~Rejected(a) /\ ~Complete(a)
            /\ UNCHANGED <<stash, rx, busy, fault, got, seen>>
         \/ /\ ~Rejected(a) /\ Complete(a)
            /\ got' = [got EXCEPT ![c] = Append(@, f.id)]
            /\ IF f.to = RoleOf(p) /\ FrameTargetsRxLane(f, p)
               THEN /\ Stage(p, f)
                    /\ busy' = [busy EXCEPT ![c] = None]
                    /\ UNCHANGED <<stash, fault>>
               ELSE /\ StashFrame(c, f)
                    /\ busy' = [busy EXCEPT ![c] = IF fault'[c] = "none" THEN @ ELSE None]
                    /\ UNCHANGED <<rx, seen>>
      /\ UNCHANGED <<site, outgoing, pending, offered, sent, cut>>

MutPopNone(c) ==
  /\ busy[c] # None /\ busy[c].op = "recv"
  /\ fifo[c] = <<>>
  /\ ~site.deadline
  /\ accum' = [accum EXCEPT ![c] = <<>>]
  /\ busy' = [busy EXCEPT ![c] = None]
  /\ UNCHANGED <<site, fifo, stash, outgoing, pending, rx, fault, offered, sent, got, seen, cut>>

\* A round that finds no word: without a deadline the poll returns Pending and
\* the unfinished frame stays in the accumulator.
PopNone(c) ==
  /\ busy[c] # None /\ busy[c].op = "recv"
  /\ fifo[c] = <<>>
  /\ ~site.deadline
  /\ busy' = [busy EXCEPT ![c] = None]
  /\ UNCHANGED <<site, fifo, accum, stash, outgoing, pending, rx, fault, offered, sent, got, seen, cut>>

\* With a deadline the loop waits until the alarm, which may be seen after a
\* word arrived behind the last look at the FIFO.
DeadlineExpired(c) ==
  /\ busy[c] # None /\ busy[c].op = "recv"
  /\ site.deadline
  /\ Fail(c, "Deadline")
  /\ busy' = [busy EXCEPT ![c] = None]
  /\ UNCHANGED <<site, fifo, accum, stash, outgoing, pending, rx, offered, sent, got, seen, cut>>

\* requeue: Hibana gives the staged frame back.
Requeue(p) ==
  /\ MayRecv(p)
  /\ rx[p].frame # None
  /\ rx' = [rx EXCEPT ![p].requeued = TRUE, ![p].delivered = FALSE]
  /\ UNCHANGED <<site, fifo, accum, stash, outgoing, pending, busy, fault, offered, sent, got, seen, cut>>

-----------------------------------------------------------------------------
PortStep(p) ==
  \/ \E to \in Role, w \in PayloadWords : BeginSend(p, to, w)
  \/ PollSendSelf(p)
  \/ PollSendOversize(p)
  \/ PollSendLocal(p)
  \/ PollSend(p)
  \/ CancelSend(p)
  \/ PollRecvRequeued(p)
  \/ PollRecvStash(p)
  \/ PollRecvLoop(p)
  \/ Requeue(p)

CoreStep(c) ==
  \/ PushWord(c)
  \/ SendPending(c)
  \/ PopWord(c)
  \/ PopNone(c)
  \/ DeadlineExpired(c)

Next == (\E p \in Port : PortStep(p)) \/ (\E c \in Core : CoreStep(c))

On(c) == {p \in Port : HostOf(p) = c}

PollsSend(c) ==
  \E p \in On(c) : PollSendSelf(p) \/ PollSendOversize(p) \/ PollSendLocal(p) \/ PollSend(p)

PollsRecv(c) ==
  \E p \in On(c) : PollRecvLoop(p) \/ (PollRecvStash(p) /\ stash' # stash)

\* The scheduler visits every task of a core in turn, so what a poll can do
\* again and again is done, and the code of a poll runs to its end.  Hibana
\* consumes a frame after finitely many requeues.  Nothing obliges it to start
\* or to cancel a send.
Fairness ==
  \A c \in Core :
    /\ SF_vars(PollsSend(c))
    /\ SF_vars(PollsRecv(c))
    /\ WF_vars(\E p \in On(c) : PollRecvRequeued(p))
    /\ WF_vars(CoreStep(c))

Spec == Init /\ [][Next]_vars /\ Fairness

-----------------------------------------------------------------------------
Word == [id : Nat, k : Nat]
Frame == [id : Nat, from : Role, to : Role, lane : Nat, words : Nat]
TxState == [frame : Frame, next : Nat]
RxFrame == [id : Nat, from : Role, to : Nat, lane : Nat, whole : BOOLEAN]
RxState == [frame : RxFrame \cup {None}, delivered : BOOLEAN, requeued : BOOLEAN]
Poll == [op : {"send", "recv"}, port : Port]

TypeOK ==
  /\ site \in Site
  /\ fifo \in [Core -> Seq(Word)] /\ \A c \in Core : Len(fifo[c]) <= FifoDepth
  /\ accum \in [Core -> Seq(Word)]
  /\ stash \in [Core -> [Role -> RxFrame \cup {None}]]
  /\ outgoing \in [Port -> Frame \cup {None}]
  /\ pending \in [Port -> TxState \cup {None}]
  /\ rx \in [Port -> RxState]
  /\ busy \in [Core -> Poll \cup {None}]
  /\ fault \in [Core -> {"none", "Capacity", "Deadline", "Failed"}]
  /\ offered \in Seq(Frame) /\ Len(offered) <= MaxFrames
  /\ sent \in [Core -> Seq(Nat)]
  /\ got \in [Core -> Seq(Nat)]
  /\ seen \in [Port -> Seq(Nat)]
  /\ cut \in [Core -> BOOLEAN]

\* Until core c drops a frame between two words, every frame its peer decodes,
\* stashes or delivers is a frame that was sent, with all its words, for the
\* role and on the lane it was sent on; and no word is ever refused.
WholeFrames ==
  \A c \in Core : ~cut[Peer(c)] =>
    /\ fault[c] # "Failed"
    /\ \A f \in {stash[c][r] : r \in Role} \cup {rx[p].frame : p \in {q \in Port : HostOf(q) = c}} :
         f # None => f.whole /\ f.to = offered[f.id].to /\ f.lane = offered[f.id].lane

\* On one lane the frames of one role reach a port in the order of their sends,
\* each at most once.
InOrder ==
  \A p \in Port : ~cut[Peer(HostOf(p))] =>
    \A m, n \in 1..Len(seen[p]) :
      m < n /\ offered[seen[p][m]].from = offered[seen[p][n]].from => seen[p][m] < seen[p][n]

Held(c) == {stash[c][r].id : r \in {q \in Role : stash[c][q] # None}}
           \cup UNION {{seen[p][n] : n \in 1..Len(seen[p])} : p \in {q \in Port : HostOf(q) = c}}

\* A decoded frame is in the stash or was staged: only the frame whose slot was
\* taken is lost, and then the core has stopped with Capacity.
NothingLost ==
  \A c \in Core : ~cut[Peer(c)] /\ fault[c] # "Capacity" =>
    \A n \in 1..Len(got[c]) : got[c][n] \in Held(c)

-----------------------------------------------------------------------------
(* Why these hold: an invariant that no step breaks.                       *)

Id == 1..Len(offered)

\* Frame i is as it was handed to poll_send, on a flow of the capsule.
OfferedInv == \A i \in Id : offered[i].id = i /\ <<offered[i].from, offered[i].to>> \in site.flow

\* A port sends its own latest frame, one port of a role at a time; what it
\* pushes is that frame, and it is for the other core.
SendInv ==
  /\ \A p \in Port : outgoing[p] # None =>
       /\ outgoing[p].id \in Id /\ outgoing[p] = offered[outgoing[p].id]
       /\ outgoing[p].from = RoleOf(p)
       /\ \A i \in Id : offered[i].from = RoleOf(p) => i <= outgoing[p].id
  /\ \A p, q \in Port : outgoing[p] # None /\ outgoing[q] # None /\ RoleOf(p) = RoleOf(q) => p = q
  /\ \A p \in Port : pending[p] # None =>
       /\ pending[p].frame = outgoing[p] /\ outgoing[p] # None
       /\ Rp2wRoleCore(outgoing[p].to) # HostOf(p)
       /\ outgoing[p].words <= SIO_FRAME_PAYLOAD_WORDS
       /\ pending[p].next \in 1..TotalWords(outgoing[p])

\* A poll runs on the core of its port, which has not failed; a send has words
\* left to push, and nothing is stashed that the receiving port looks for.
PollInv(c) ==
  LET p == busy[c].port
  IN  busy[c] # None =>
        /\ HostOf(p) = c /\ fault[c] = "none"
        /\ busy[c].op = "send" => pending[p] # None
        /\ busy[c].op = "recv" /\ stash[c][RoleOf(p)] # None =>
             ~FrameTargetsRxLane(stash[c][RoleOf(p)], p)
BusyInv == \A c \in Core : PollInv(c)

\* What the receiving side names was offered.
HeldInv ==
  /\ \A c \in Core : /\ \A i \in 1..Len(fifo[c]) : fifo[c][i].id \in Id
                     /\ \A i \in 1..Len(accum[c]) : accum[c][i].id \in Id
                     /\ \A r \in Role : stash[c][r] # None => stash[c][r].id \in Id
  /\ \A p \in Port : /\ rx[p].frame # None => rx[p].frame.id \in Id
                     /\ \A n \in 1..Len(seen[p]) : seen[p][n] \in Id

\* Word w is the last of its frame, and what may follow it on the wire.
Ends(w) == w.k = TotalWords(offered[w.id])
Follows(v, w) ==
  IF Ends(v) THEN w.k = 1 /\ v.id < w.id ELSE w.k = v.k + 1 /\ w.id = v.id

\* Frame i goes from the other core to core c.
Arrives(c, i) ==
  /\ Crosses(<<offered[i].from, offered[i].to>>)
  /\ Rp2wRoleCore(offered[i].from) = Peer(c)

\* The words on their way to core c: the accumulator has the beginning of a
\* frame, the FIFO its rest and the beginning of the next one.  Two ends do not
\* fit in a FIFO no longer than a header.
WireInv(c) ==
  /\ \A i \in 1..Len(accum[c]) :
       /\ accum[c][i].k = i /\ accum[c][i].id = accum[c][1].id
       /\ i < TotalWords(offered[accum[c][1].id])
       /\ Arrives(c, accum[c][i].id)
  /\ fifo[c] # <<>> =>
       IF accum[c] = <<>> THEN fifo[c][1].k = 1
       ELSE fifo[c][1].k = Len(accum[c]) + 1 /\ fifo[c][1].id = accum[c][1].id
  /\ \A i \in 1..Len(fifo[c]) :
       fifo[c][i].k \in 1..TotalWords(offered[fifo[c][i].id]) /\ Arrives(c, fifo[c][i].id)
  /\ \A i, j \in 1..Len(fifo[c]) :
       /\ j = i + 1 => Follows(fifo[c][i], fifo[c][j])
       /\ i < j /\ Ends(fifo[c][i]) => fifo[c][j].k = j - i /\ fifo[c][i].id < fifo[c][j].id

Quiet(c) == fifo[c] = <<>> /\ accum[c] = <<>>
LastWord(c) == IF fifo[c] # <<>> THEN fifo[c][Len(fifo[c])] ELSE accum[c][Len(accum[c])]
Between(c) == Quiet(c) \/ Ends(LastWord(c))

\* A send of the other core goes on behind the last word, or begins if that one
\* ended its frame.
PushInv(c) ==
  /\ \A p \in Port : HostOf(p) = Peer(c) /\ pending[p] # None =>
       IF Between(c) THEN pending[p].next = 1
       ELSE pending[p].next = LastWord(c).k + 1 /\ pending[p].frame.id = LastWord(c).id
  /\ ~Between(c) => \E p \in Port : HostOf(p) = Peer(c) /\ pending[p] # None

\* The frame that was sent and not yet decoded is the one that ends in the FIFO.
CountInv(c) ==
  /\ Len(sent[Peer(c)]) =
       Len(got[c]) + IF \E i \in 1..Len(fifo[c]) : Ends(fifo[c][i]) THEN 1 ELSE 0
  /\ \A i \in 1..Len(fifo[c]) :
       Ends(fifo[c][i]) => sent[Peer(c)][Len(sent[Peer(c)])] = fifo[c][i].id

SameSender(i, j) == offered[i].from = offered[j].from

\* A frame that is being sent is nowhere yet.
NotYet(c) ==
  \A q \in Port : outgoing[q] # None =>
    /\ \A r \in Role : stash[c][r] # None => stash[c][r].id # outgoing[q].id
    /\ \A p \in Port : HostOf(p) = c =>
         \A n \in 1..Len(seen[p]) : seen[p][n] # outgoing[q].id
    /\ \A i \in 1..Len(fifo[c]) : Ends(fifo[c][i]) => fifo[c][i].id # outgoing[q].id

\* Frame i is older than the frames of its sender whose words are on the wire.
OlderThanWire(c, i) ==
  /\ \A n \in 1..Len(accum[c]) : SameSender(i, accum[c][n].id) => i < accum[c][n].id
  /\ \A n \in 1..Len(fifo[c]) : SameSender(i, fifo[c][n].id) => i < fifo[c][n].id

\* Of one sender's frames those a port has seen are older than a stashed one,
\* and both than those on the wire.
OrderInv(c) ==
  /\ NotYet(c)
  /\ \A p \in Port : HostOf(p) = c => \A n \in 1..Len(seen[p]) :
       /\ LET f == stash[c][RoleOf(p)]
          IN  f # None /\ FrameTargetsRxLane(f, p) /\ SameSender(seen[p][n], f.id)
                => seen[p][n] < f.id
       /\ OlderThanWire(c, seen[p][n])
  /\ \A r \in Role : stash[c][r] # None => OlderThanWire(c, stash[c][r].id)

ChannelInv == \A c \in Core : ~cut[Peer(c)] => WireInv(c) /\ PushInv(c) /\ CountInv(c) /\ OrderInv(c)

\* The receiving side as a whole: well typed, in order, and nothing dropped.
ReceiveInv ==
  /\ TypeOK /\ OfferedInv /\ SendInv /\ BusyInv /\ HeldInv /\ ChannelInv
  /\ InOrder /\ NothingLost

\* Until a send is cancelled between two words, the two FIFOs are the channel
\* that FrameChannel promises: a frame is complete on the sender's side only
\* after the receiver decoded the one before, for no FIFO holds more words
\* than a header has.
Channel == INSTANCE FrameChannel WITH Frame <- 1..MaxFrames, sent <- sent, got <- got

ChannelUntilCut ==
  /\ Channel!ChanInit
  /\ [][Channel!ChanNext \/ \E c \in Core : cut[c]]_<<sent, got>>

\* A send that is not cancelled completes although the FIFO is shorter than a
\* frame, unless a stash slot or a deadline stopped a core or words of a
\* cancelled frame are in the way.
SendCompletes ==
  \A r \in Role :
    Sending(r) # {}
      ~> (Sending(r) = {} \/ \E c \in Core : fault[c] \in {"Capacity", "Deadline"} \/ cut[c])
=============================================================================
