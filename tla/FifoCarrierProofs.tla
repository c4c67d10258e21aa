------------------------- MODULE FifoCarrierProofs -------------------------
(***************************************************************************)
(* The FIFO carrier of the Pico 2 W, for payloads of any length and any    *)
(* number of frames: the receiver finds the frames in the stream of words, *)
(* whole and in order, until a send is cancelled between two words.        *)
(***************************************************************************)
EXTENDS FifoCarrier, SequenceTheorems, TLAPS

\* The two cores, and the roles on them.
LEMMA PeerFacts ==
  ASSUME NEW c \in Core
  PROVE  Peer(c) \in Core /\ Peer(c) # c /\ Peer(Peer(c)) = c /\ \A d \in Core : d # c => d = Peer(c)
  BY DEF Core, Peer

LEMMA RoleFacts ==
  ASSUME NEW r \in Role
  PROVE  r \in Nat /\ Rp2wRoleCore(r) \in Core
  BY DEF Role, Rp2wRoleCore, Core

\* A port is a role on a lane, hosted on a core.
LEMMA PortFacts ==
  ASSUME TypeOK, NEW p \in Port
  PROVE  /\ p = <<RoleOf(p), LaneOf(p)>>
         /\ RoleOf(p) \in Role /\ LaneOf(p) \in Nat
         /\ HostOf(p) \in Core /\ HostOf(p) = Rp2wRoleCore(RoleOf(p))
  <1>1. p = <<RoleOf(p), LaneOf(p)>> /\ RoleOf(p) \in Role /\ LaneOf(p) \in Nat
    BY FifoAssumption DEF TypeOK, Port, RoleOf, LaneOf
  <1>2. QED
    BY <1>1, RoleFacts DEF HostOf

\* Frames, words and polls are not None.
LEMMA FrameFacts ==
  ASSUME NEW f \in Frame
  PROVE  /\ f # None
         /\ f.id \in Nat /\ f.from \in Role /\ f.to \in Role /\ f.lane \in Nat /\ f.words \in Nat
         /\ TotalWords(f) \in Nat /\ TotalWords(f) >= 4 /\ TotalWords(f) = 4 + f.words
  BY FifoAssumption DEF Frame, TotalWords, SIO_FRAME_HEADER_WORDS

LEMMA RxFrameFacts ==
  ASSUME NEW f \in RxFrame
  PROVE  f # None /\ f.id \in Nat /\ f.from \in Role /\ f.to \in Nat /\ f.lane \in Nat
  BY FifoAssumption DEF RxFrame

LEMMA StateFacts ==
  ASSUME TypeOK
  PROVE  /\ \A x \in TxState : x # None /\ x.frame \in Frame /\ x.next \in Nat
         /\ \A x \in Poll : x # None /\ x.op \in {"send", "recv"} /\ x.port \in Port
  BY FifoAssumption DEF TypeOK, TxState, Poll, Port, Frame

\* The deployment does not change.
LEMMA SameSite ==
  ASSUME site' = site
  PROVE  Port' = Port /\ Poll' = Poll
  BY DEF Port, Poll

\* Sequences with one more element, and without the first.
LEMMA AppendFacts ==
  ASSUME NEW S, NEW s \in Seq(S), NEW e \in S
  PROVE  /\ Append(s, e) \in Seq(S) /\ Append(s, e) # <<>>
         /\ Len(Append(s, e)) = Len(s) + 1 /\ Len(s) \in Nat
         /\ Append(s, e)[Len(s) + 1] = e
         /\ \A n \in 1..Len(s) : Append(s, e)[n] = s[n]
         /\ \A n \in 1..(Len(s) + 1) : n \in 1..Len(s) \/ n = Len(s) + 1
  <1>1. Append(s, e) \in Seq(S) /\ Len(Append(s, e)) = Len(s) + 1 /\ Len(s) \in Nat
    OBVIOUS
  <1>2. Append(s, e) # <<>>
    BY <1>1
  <1>3. Append(s, e)[Len(s) + 1] = e /\ \A n \in 1..Len(s) : Append(s, e)[n] = s[n]
    OBVIOUS
  <1>4. QED
    BY <1>1, <1>2, <1>3

LEMMA TailFacts ==
  ASSUME NEW S, NEW s \in Seq(S), s # <<>>
  PROVE  /\ Tail(s) \in Seq(S) /\ Head(s) = s[1] /\ Head(s) \in S
         /\ Len(Tail(s)) = Len(s) - 1 /\ Len(s) \in Nat /\ Len(s) > 0
         /\ \A n \in 1..(Len(s) - 1) : Tail(s)[n] = s[n + 1] /\ n + 1 \in 1..Len(s)
  OBVIOUS

\* A slot of the stash written.
LEMMA StashWrite ==
  ASSUME TypeOK, NEW c \in Core, NEW r \in Role, NEW f \in RxFrame \cup {None},
         stash' = [stash EXCEPT ![c][r] = f]
  PROVE  /\ stash' \in [Core -> [Role -> RxFrame \cup {None}]]
         /\ \A d \in Core, q \in Role : stash'[d][q] = IF d = c /\ q = r THEN f ELSE stash[d][q]
  <1> DEFINE row == [stash[c] EXCEPT ![r] = f]
  <1>1. stash' = [stash EXCEPT ![c] = row]
    BY DEF TypeOK
  <1>2. row \in [Role -> RxFrame \cup {None}] /\ \A q \in Role : row[q] = IF q = r THEN f ELSE stash[c][q]
    BY DEF TypeOK
  <1> HIDE DEF row
  <1>3. QED
    BY <1>1, <1>2 DEF TypeOK

\* stash_frame: the slot of the addressee, or Capacity.
LEMMA StashEffect ==
  ASSUME TypeOK, NEW c \in Core, NEW f \in RxFrame, f.to \in Role \/ f.to = MAGIC_AS_ROLE,
         StashFrame(c, f)
  PROVE  /\ stash' \in [Core -> [Role -> RxFrame \cup {None}]]
         /\ fault' \in [Core -> {"none", "Capacity", "Deadline", "Failed"}]
         /\ \/ /\ stash' = stash /\ fault'[c] = "Capacity"
               /\ \A d \in Core : d # c => fault'[d] = fault[d]
            \/ /\ fault' = fault /\ f.to \in Role /\ stash[c][f.to] = None
               /\ \A d \in Core, q \in Role :
                    stash'[d][q] = IF d = c /\ q = f.to THEN f ELSE stash[d][q]
  <1>1. CASE f.to >= SIO_RX_STASH_ROLES \/ stash[c][f.to] # None
    BY <1>1 DEF StashFrame, Fail, TypeOK
  <1>2. CASE ~(f.to >= SIO_RX_STASH_ROLES \/ stash[c][f.to] # None)
    <2>1. f.to \in Role
      BY <1>2 DEF SIO_RX_STASH_ROLES, MAGIC_AS_ROLE
    <2>2. stash' = [stash EXCEPT ![c][f.to] = f] /\ fault' = fault
      BY <1>2 DEF StashFrame
    <2>3. PICK r \in Role : r = f.to
      BY <2>1
    <2>4. /\ stash' \in [Core -> [Role -> RxFrame \cup {None}]]
          /\ \A d \in Core, q \in Role : stash'[d][q] = IF d = c /\ q = r THEN f ELSE stash[d][q]
      BY ZenonT(60), <2>2, <2>3, StashWrite
    <2>5. QED
      BY <1>2, <2>1, <2>2, <2>3, <2>4 DEF TypeOK
  <1>3. QED
    BY <1>1, <1>2

\* Staging a frame.
LEMMA StageEffect ==
  ASSUME TypeOK, NEW p \in Port, NEW f \in RxFrame, Stage(p, f)
  PROVE  /\ rx' \in [Port -> RxState] /\ seen' \in [Port -> Seq(Nat)]
         /\ rx'[p].frame = f /\ seen'[p] = Append(seen[p], f.id)
         /\ \A q \in Port : q # p => rx'[q] = rx[q] /\ seen'[q] = seen[q]
  <1>1. f.id \in Nat
    BY RxFrameFacts
  <1>2. [frame |-> f, delivered |-> TRUE, requeued |-> FALSE] \in RxState
    BY DEF RxState
  <1>3. Append(seen[p], f.id) \in Seq(Nat)
    BY <1>1 DEF TypeOK
  <1>4. rx' \in [Port -> RxState] /\ seen' \in [Port -> Seq(Nat)]
    BY <1>2, <1>3 DEF Stage, TypeOK
  <1>5. rx'[p].frame = f /\ \A q \in Port : q # p => rx'[q] = rx[q]
    BY DEF Stage, TypeOK
  <1>6. seen'[p] = Append(seen[p], f.id) /\ \A q \in Port : q # p => seen'[q] = seen[q]
    BY DEF Stage, TypeOK
  <1>7. QED
    BY <1>4, <1>5, <1>6

\* The words gathered, with one more, and the frame they make.
LEMMA GatherFacts ==
  ASSUME TypeOK, HeldInv, NEW c \in Core, fifo[c] # <<>>,
         NEW a, a = Append(accum[c], Head(fifo[c]))
  PROVE  /\ Head(fifo[c]) \in Word
         /\ a \in Seq(Word) /\ a # <<>> /\ Len(a) = Len(accum[c]) + 1 /\ Len(accum[c]) \in Nat
         /\ a[Len(a)] = Head(fifo[c]) /\ \A n \in 1..Len(accum[c]) : a[n] = accum[c][n]
         /\ \A n \in 1..Len(a) : a[n].id \in Id /\ a[n] \in Word
  <1>1. fifo[c] \in Seq(Word) /\ accum[c] \in Seq(Word)
    BY DEF TypeOK
  <1>2. Head(fifo[c]) \in Word /\ Head(fifo[c]) = fifo[c][1] /\ Len(fifo[c]) > 0 /\ Len(fifo[c]) \in Nat
    BY <1>1, TailFacts
  <1>3. Head(fifo[c]).id \in Id
    BY <1>2 DEF HeldInv
  <1>4. /\ a \in Seq(Word) /\ a # <<>> /\ Len(a) = Len(accum[c]) + 1 /\ Len(accum[c]) \in Nat
        /\ a[Len(a)] = Head(fifo[c]) /\ \A n \in 1..Len(accum[c]) : a[n] = accum[c][n]
        /\ \A n \in 1..Len(a) : n \in 1..Len(accum[c]) \/ n = Len(a)
    BY <1>1, <1>2, AppendFacts
  <1>5. \A n \in 1..Len(a) : a[n].id \in Id /\ a[n] \in Word
    BY <1>1, <1>3, <1>4 DEF HeldInv
  <1>6. QED
    BY <1>2, <1>4, <1>5

LEMMA DecodedType ==
  ASSUME TypeOK, HeldInv, NEW a \in Seq(Word), \A n \in 1..Len(a) : a[n].id \in Id, Complete(a),
         NEW f, f = Decoded(a)
  PROVE  f \in RxFrame /\ f.id = a[3].id /\ f.id \in Id /\ (f.to \in Role \/ f.to = MAGIC_AS_ROLE)
  <1>1. Len(a) \in Nat /\ Len(a) >= 4
    BY DEF Complete, SIO_FRAME_HEADER_WORDS
  <1>2. a[3].id \in Id /\ a[4].id \in Id
    BY <1>1
  <1>3. offered[a[3].id] \in Frame /\ offered[a[4].id] \in Frame /\ Id \subseteq Nat
    BY <1>2 DEF TypeOK, Id
  <1>4. /\ offered[a[3].id].from \in Role /\ offered[a[3].id].to \in Role
        /\ offered[a[4].id].lane \in Nat /\ offered[a[3].id].to \in Nat
    BY <1>3, FrameFacts, RoleFacts
  <1>5. f.id = a[3].id /\ (f.to \in Role \/ f.to = MAGIC_AS_ROLE)
    BY <1>4 DEF Decoded
  <1>6. f \in RxFrame
    BY <1>2, <1>3, <1>4 DEF Decoded, RxFrame, MAGIC_AS_ROLE, MAGIC_AS_LANE
  <1>7. QED
    BY <1>2, <1>5, <1>6

\* Giving a frame back and taking it again leave the frame itself alone.
LEMMA RequeueEffect ==
  ASSUME TypeOK, NEW p \in Port, PollRecvRequeued(p) \/ Requeue(p)
  PROVE  rx' \in [Port -> RxState] /\ \A q \in Port : rx'[q].frame = rx[q].frame
  <1>1. PICK d \in BOOLEAN, e \in BOOLEAN : rx' = [rx EXCEPT ![p].requeued = d, ![p].delivered = e]
    BY DEF PollRecvRequeued, Requeue
  <1>2. [rx[p] EXCEPT !.requeued = d, !.delivered = e] \in RxState
        /\ [rx[p] EXCEPT !.requeued = d, !.delivered = e].frame = rx[p].frame
    BY ZenonT(60) DEF TypeOK, RxState
  <1>3. rx' = [rx EXCEPT ![p] = [rx[p] EXCEPT !.requeued = d, !.delivered = e]]
    BY <1>1 DEF TypeOK, RxState
  <1>4. QED
    BY <1>2, <1>3 DEF TypeOK

\* A push: the next word of the pending frame.
LEMMA PushFacts ==
  ASSUME TypeOK, SendInv, BusyInv, NEW c \in Core, PushWord(c), NEW p, p = busy[c].port,
         NEW f, f = pending[p].frame, NEW k, k = pending[p].next, NEW w, w = [id |-> f.id, k |-> k]
  PROVE  /\ p \in Port /\ HostOf(p) = c /\ pending[p] # None /\ pending[p] \in TxState
         /\ f \in Frame /\ f = outgoing[p] /\ f.id \in Id /\ f = offered[f.id] /\ f.from = RoleOf(p)
         /\ k \in 1..TotalWords(f) /\ k \in Nat /\ Rp2wRoleCore(f.to) # c
         /\ w \in Word /\ w.id = f.id /\ w.k = k
         /\ Len(fifo[Peer(c)]) < FifoDepth
         /\ fifo' = [fifo EXCEPT ![Peer(c)] = Append(@, w)]
         /\ \/ /\ k < TotalWords(f)
               /\ pending' = [pending EXCEPT ![p] = [frame |-> f, next |-> k + 1]]
               /\ UNCHANGED <<busy, outgoing, sent>>
            \/ /\ k = TotalWords(f)
               /\ pending' = [pending EXCEPT ![p] = None]
               /\ outgoing' = [outgoing EXCEPT ![p] = None]
               /\ busy' = [busy EXCEPT ![c] = None]
               /\ sent' = [sent EXCEPT ![c] = Append(@, f.id)]
  <1>1. busy[c] \in Poll /\ busy[c] # None /\ busy[c].op = "send"
    BY DEF PushWord, TypeOK
  <1>2. p \in Port /\ HostOf(p) = c /\ pending[p] # None
    BY <1>1, StateFacts DEF BusyInv, PollInv
  <1>3. pending[p] \in TxState /\ f \in Frame /\ k \in Nat
    BY <1>2, StateFacts DEF TypeOK
  <1>4. /\ f = outgoing[p] /\ f.id \in Id /\ f = offered[f.id] /\ f.from = RoleOf(p)
        /\ k \in 1..TotalWords(f) /\ Rp2wRoleCore(f.to) # c
    BY <1>2 DEF SendInv
  <1>5. w \in Word /\ w.id = f.id /\ w.k = k
    BY <1>3, FrameFacts DEF Word
  <1>6. /\ Len(fifo[Peer(c)]) < FifoDepth /\ fifo' = [fifo EXCEPT ![Peer(c)] = Append(@, w)]
        /\ k < TotalWords(f) => UNCHANGED <<busy, outgoing, sent>>
        /\ k < TotalWords(f) => pending' = [pending EXCEPT ![p].next = @ + 1]
        /\ ~(k < TotalWords(f)) =>
               /\ pending' = [pending EXCEPT ![p] = None]
               /\ outgoing' = [outgoing EXCEPT ![p] = None]
               /\ busy' = [busy EXCEPT ![c] = None]
               /\ sent' = [sent EXCEPT ![c] = Append(@, f.id)]
    BY DEF PushWord
  <1>7. k < TotalWords(f) => pending' = [pending EXCEPT ![p] = [frame |-> f, next |-> k + 1]]
    <2>1. [pending[p] EXCEPT !.next = k + 1] = [frame |-> f, next |-> k + 1]
      BY <1>3 DEF TxState
    <2>2. [pending EXCEPT ![p].next = @ + 1] = [pending EXCEPT ![p] = [pending[p] EXCEPT !.next = k + 1]]
      OBVIOUS
    <2>3. QED
      BY <1>6, <2>1, <2>2
  <1>8. k < TotalWords(f) \/ k = TotalWords(f)
    BY <1>3, <1>4, FrameFacts
  <1>9. k < TotalWords(f) => ~(k = TotalWords(f))
    BY <1>3, <1>4, FrameFacts
  <1>10. k = TotalWords(f) => ~(k < TotalWords(f))
    BY <1>9
  <1>11. QED
    BY <1>2, <1>3, <1>4, <1>5, <1>6, <1>7, <1>8, <1>10

\* Every operation keeps the state well typed.
LEMMA TypeStep ==
  ASSUME TypeOK, SendInv, BusyInv, HeldInv, [Next]_vars
  PROVE  TypeOK' /\ site' = site
  <1>0. site' = site
    BY ZenonT(60) DEF Next, PortStep, CoreStep, vars, BeginSend, PollSendSelf, PollSendOversize, PollSendLocal, PollSend, CancelSend,
           PollRecvRequeued, PollRecvStash, PollRecvLoop, Requeue, PushWord, SendPending, PopWord, PopNone,
           DeadlineExpired
  <1>s. Port' = Port /\ Poll' = Poll
    BY <1>0, SameSite
  <1> USE <1>0, <1>s
  <1>1. ASSUME NEW p \in Port, NEW to \in Role, NEW w \in PayloadWords, BeginSend(p, to, w)
        PROVE  TypeOK'
    <2>1. PICK f : f = [id |-> Len(offered) + 1, from |-> RoleOf(p), to |-> to, lane |-> LaneOf(p), words |-> w]
      OBVIOUS
    <2>2. RoleOf(p) \in Role /\ LaneOf(p) \in Nat /\ w \in Nat /\ Len(offered) + 1 \in Nat
      BY PortFacts, FifoAssumption DEF TypeOK
    <2>3. f \in Frame
      BY <2>1, <2>2 DEF Frame
    <2>4. outgoing' = [outgoing EXCEPT ![p] = f] /\ offered' = Append(offered, f) /\ Len(offered) < MaxFrames
      BY <1>1, <2>1 DEF BeginSend
    <2>5. outgoing' \in [Port -> Frame \cup {None}]
      BY <2>3, <2>4 DEF TypeOK
    <2>6. offered' \in Seq(Frame) /\ Len(offered') <= MaxFrames
      BY <2>3, <2>4, FifoAssumption DEF TypeOK
    <2>7. QED
      BY <1>1, <2>5, <2>6 DEF BeginSend, TypeOK
  <1>2. ASSUME NEW p \in Port, PollSendSelf(p) PROVE TypeOK'
    BY <1>2 DEF PollSendSelf, TypeOK
  <1>3. ASSUME NEW p \in Port, PollSendOversize(p) PROVE TypeOK'
    <2>1. HostOf(p) \in Core
      BY PortFacts
    <2>2. QED
      BY <1>3, <2>1 DEF PollSendOversize, Fail, TypeOK
  <1>4. ASSUME NEW p \in Port, PollSendLocal(p) PROVE TypeOK'
    <2>1. HostOf(p) \in Core
      BY PortFacts
    <2>2. outgoing[p] \in Frame
      BY <1>4 DEF PollSendLocal, Sendable, TypeOK
    <2>3. PICK g : g = [id |-> outgoing[p].id, from |-> outgoing[p].from, to |-> outgoing[p].to,
                        lane |-> outgoing[p].lane, whole |-> TRUE]
      OBVIOUS
    <2>4. g \in RxFrame /\ g.to \in Role
      BY <2>2, <2>3, FrameFacts, RoleFacts DEF RxFrame
    <2>5. StashFrame(HostOf(p), g)
      BY <1>4, <2>3 DEF PollSendLocal
    <2>6. /\ stash' \in [Core -> [Role -> RxFrame \cup {None}]]
          /\ fault' \in [Core -> {"none", "Capacity", "Deadline", "Failed"}]
      BY <2>1, <2>4, <2>5, StashEffect
    <2>7. QED
      BY <1>4, <2>6 DEF PollSendLocal, TypeOK
  <1>5. ASSUME NEW p \in Port, PollSend(p) PROVE TypeOK'
    <2>1. HostOf(p) \in Core
      BY PortFacts
    <2>2. [frame |-> outgoing[p], next |-> 1] \in TxState
      BY <1>5 DEF PollSend, Sendable, TypeOK, TxState
    <2>3. [op |-> "send", port |-> p] \in Poll
      BY DEF Poll
    <2>4. pending' \in [Port -> TxState \cup {None}]
      BY <1>5, <2>2 DEF PollSend, TypeOK
    <2>5. busy' \in [Core -> Poll \cup {None}]
      BY <1>5, <2>1, <2>3 DEF PollSend, TypeOK
    <2>6. QED
      BY <1>5, <2>4, <2>5 DEF PollSend, TypeOK
  <1>6. ASSUME NEW p \in Port, CancelSend(p) PROVE TypeOK'
    <2>1. HostOf(p) \in Core
      BY PortFacts
    <2>2. cut' \in [Core -> BOOLEAN]
      BY <1>6, <2>1 DEF CancelSend, TypeOK
    <2>3. outgoing' \in [Port -> Frame \cup {None}] /\ pending' \in [Port -> TxState \cup {None}]
      BY <1>6 DEF CancelSend, TypeOK
    <2>4. QED
      BY <1>6, <2>2, <2>3 DEF CancelSend, TypeOK
  <1>7. ASSUME NEW p \in Port, PollRecvRequeued(p) \/ Requeue(p) PROVE TypeOK'
    <2>1. rx' \in [Port -> RxState]
      BY <1>7, RequeueEffect
    <2>2. QED
      BY <1>7, <2>1 DEF PollRecvRequeued, Requeue, TypeOK
  <1>8. ASSUME NEW p \in Port, PollRecvStash(p) PROVE TypeOK'
    <2>1. PICK c \in Core : c = HostOf(p)
      BY PortFacts
    <2>2. PICK r \in Role : r = RoleOf(p)
      BY PortFacts
    <2>3. PICK f \in RxFrame : f = stash[c][r]
      BY <1>8, <2>1, <2>2 DEF PollRecvStash, TypeOK
    <2>4. CASE FrameTargetsRxLane(f, p)
      <3>1. Stage(p, f) /\ stash' = [stash EXCEPT ![c][r] = None]
        BY <1>8, <2>1, <2>2, <2>3, <2>4 DEF PollRecvStash
      <3>2. stash' \in [Core -> [Role -> RxFrame \cup {None}]]
        BY <3>1, StashWrite
      <3>3. rx' \in [Port -> RxState] /\ seen' \in [Port -> Seq(Nat)]
        BY <3>1, StageEffect
      <3>4. QED
        BY <1>8, <3>2, <3>3 DEF PollRecvStash, TypeOK
    <2>5. CASE ~FrameTargetsRxLane(f, p)
      <3>1. rx' = [rx EXCEPT ![p] = EmptyRx] /\ stash' = stash /\ seen' = seen
        BY <1>8, <2>1, <2>2, <2>3, <2>5 DEF PollRecvStash
      <3>2. rx' \in [Port -> RxState]
        BY <3>1 DEF TypeOK, EmptyRx, RxState
      <3>3. QED
        BY <1>8, <3>1, <3>2 DEF PollRecvStash, TypeOK
    <2>6. QED
      BY <2>4, <2>5
  <1>9. ASSUME NEW p \in Port, PollRecvLoop(p) PROVE TypeOK'
    <2>1. HostOf(p) \in Core
      BY PortFacts
    <2>2. rx' \in [Port -> RxState]
      BY <1>9 DEF PollRecvLoop, TypeOK, EmptyRx, RxState
    <2>3. [op |-> "recv", port |-> p] \in Poll
      BY DEF Poll
    <2>4. busy' \in [Core -> Poll \cup {None}]
      BY <1>9, <2>1, <2>3 DEF PollRecvLoop, TypeOK
    <2>5. QED
      BY <1>9, <2>2, <2>4 DEF PollRecvLoop, TypeOK
  <1>10. ASSUME NEW c \in Core, PushWord(c) PROVE TypeOK'
    <2>1. PICK p : p = busy[c].port
      OBVIOUS
    <2>2. PICK f : f = pending[p].frame
      OBVIOUS
    <2>3. PICK k : k = pending[p].next
      OBVIOUS
    <2>4. PICK w : w = [id |-> f.id, k |-> k]
      OBVIOUS
    <2>5. /\ p \in Port /\ f \in Frame /\ k \in Nat /\ w \in Word /\ f.id \in Id
          /\ Len(fifo[Peer(c)]) < FifoDepth
          /\ fifo' = [fifo EXCEPT ![Peer(c)] = Append(@, w)]
          /\ \/ /\ pending' = [pending EXCEPT ![p] = [frame |-> f, next |-> k + 1]]
                /\ UNCHANGED <<busy, outgoing, sent>>
             \/ /\ pending' = [pending EXCEPT ![p] = None]
                /\ outgoing' = [outgoing EXCEPT ![p] = None]
                /\ busy' = [busy EXCEPT ![c] = None]
                /\ sent' = [sent EXCEPT ![c] = Append(@, f.id)]
      BY <1>10, <2>1, <2>2, <2>3, <2>4, PushFacts
    <2>6. Peer(c) \in Core
      BY PeerFacts
    <2>7. fifo[Peer(c)] \in Seq(Word)
      BY <2>6 DEF TypeOK
    <2>8. /\ Append(fifo[Peer(c)], w) \in Seq(Word)
          /\ Len(Append(fifo[Peer(c)], w)) = Len(fifo[Peer(c)]) + 1 /\ Len(fifo[Peer(c)]) \in Nat
      BY <2>5, <2>7, AppendFacts
    <2>9. \A d \in Core : fifo'[d] = IF d = Peer(c) THEN Append(fifo[Peer(c)], w) ELSE fifo[d]
      BY <2>5, <2>6 DEF TypeOK
    <2>10. fifo' \in [Core -> Seq(Word)]
      BY <2>5, <2>6, <2>8 DEF TypeOK
    <2>11. \A d \in Core : Len(fifo'[d]) <= FifoDepth
      <3>1. FifoDepth \in Nat
        BY FifoAssumption DEF SIO_FRAME_HEADER_WORDS
      <3>2. QED
        BY <2>5, <2>8, <2>9, <3>1 DEF TypeOK
    <2>12. [frame |-> f, next |-> k + 1] \in TxState
      BY <2>5 DEF TxState
    <2>13. pending' \in [Port -> TxState \cup {None}]
      BY <2>5, <2>12 DEF TypeOK
    <2>14. busy' \in [Core -> Poll \cup {None}] /\ outgoing' \in [Port -> Frame \cup {None}]
      BY <2>5 DEF TypeOK
    <2>15. sent' \in [Core -> Seq(Nat)]
      <3>1. f.id \in Nat
        BY <2>5, FrameFacts
      <3>2. sent[c] \in Seq(Nat)
        BY DEF TypeOK
      <3>3. Append(sent[c], f.id) \in Seq(Nat)
        BY <3>1, <3>2, AppendFacts
      <3>4. sent' = sent \/ sent' = [sent EXCEPT ![c] = Append(sent[c], f.id)]
        BY <2>5
      <3>5. QED
        BY <3>3, <3>4 DEF TypeOK
    <2>16. UNCHANGED <<accum, stash, rx, fault, offered, got, seen, cut>>
      BY <1>10 DEF PushWord
    <2>17. QED
      BY <2>10, <2>11, <2>13, <2>14, <2>15, <2>16 DEF TypeOK
  <1>11. ASSUME NEW c \in Core, SendPending(c) \/ PopNone(c) PROVE TypeOK'
    BY <1>11 DEF SendPending, PopNone, TypeOK
  <1>12. ASSUME NEW c \in Core, DeadlineExpired(c) PROVE TypeOK'
    BY <1>12 DEF DeadlineExpired, Fail, TypeOK
  <1>13. ASSUME NEW c \in Core, PopWord(c) PROVE TypeOK'
    <2>1. PICK p : p = busy[c].port
      OBVIOUS
    <2>2. PICK a : a = Append(accum[c], Head(fifo[c]))
      OBVIOUS
    <2>3. PICK f : f = Decoded(a)
      OBVIOUS
    <2>4. busy[c] \in Poll /\ fifo[c] # <<>> /\ fifo[c] \in Seq(Word)
      BY <1>13 DEF PopWord, TypeOK
    <2>5. p \in Port
      BY <2>1, <2>4, StateFacts
    <2>6. a \in Seq(Word) /\ \A n \in 1..Len(a) : a[n].id \in Id
      BY <2>2, <2>4, GatherFacts
    <2>7. fifo' = [fifo EXCEPT ![c] = Tail(@)]
          /\ accum' = [accum EXCEPT ![c] = IF Rejected(a) \/ Complete(a) THEN <<>> ELSE a]
          /\ UNCHANGED <<outgoing, pending, offered, sent, cut>>
      BY <1>13, <2>2 DEF PopWord
    <2>8. fifo' \in [Core -> Seq(Word)] /\ \A d \in Core : Len(fifo'[d]) <= FifoDepth
      <3>1. Tail(fifo[c]) \in Seq(Word) /\ Len(Tail(fifo[c])) = Len(fifo[c]) - 1 /\ Len(fifo[c]) \in Nat
        BY <2>4, TailFacts
      <3>2. FifoDepth \in Nat
        BY FifoAssumption DEF SIO_FRAME_HEADER_WORDS
      <3>3. \A d \in Core : fifo'[d] = IF d = c THEN Tail(fifo[c]) ELSE fifo[d]
        BY <2>7 DEF TypeOK
      <3>4. fifo' \in [Core -> Seq(Word)]
        BY <2>7, <3>1 DEF TypeOK
      <3>5. QED
        BY <3>1, <3>2, <3>3, <3>4 DEF TypeOK
    <2>9. accum' \in [Core -> Seq(Word)]
      BY <2>6, <2>7 DEF TypeOK
    <2>10. CASE Rejected(a)
      <3>1. Fail(c, "Failed") /\ busy' = [busy EXCEPT ![c] = None] /\ UNCHANGED <<stash, rx, got, seen>>
        BY <1>13, <2>2, <2>10 DEF PopWord
      <3>2. QED
        BY <2>7, <2>8, <2>9, <3>1 DEF TypeOK, Fail
    <2>11. CASE ~Rejected(a) /\ ~Complete(a)
      <3>1. UNCHANGED <<stash, rx, busy, fault, got, seen>>
        BY <1>13, <2>2, <2>11 DEF PopWord
      <3>2. QED
        BY <2>7, <2>8, <2>9, <3>1 DEF TypeOK
    <2>12. CASE ~Rejected(a) /\ Complete(a)
      <3>1. f \in RxFrame /\ f.id \in Id /\ (f.to \in Role \/ f.to = MAGIC_AS_ROLE)
        BY <2>3, <2>6, <2>12, DecodedType
      <3>2. f.id \in Nat
        BY <3>1, RxFrameFacts
      <3>3. got' = [got EXCEPT ![c] = Append(@, f.id)]
        BY <1>13, <2>2, <2>3, <2>12 DEF PopWord
      <3>4. got' \in [Core -> Seq(Nat)]
        BY <3>2, <3>3 DEF TypeOK
      <3>5. CASE f.to = RoleOf(p) /\ FrameTargetsRxLane(f, p)
        <4>1. Stage(p, f) /\ busy' = [busy EXCEPT ![c] = None] /\ UNCHANGED <<stash, fault>>
          BY <1>13, <2>1, <2>2, <2>3, <2>12, <3>5 DEF PopWord
        <4>2. rx' \in [Port -> RxState] /\ seen' \in [Port -> Seq(Nat)]
          BY <2>5, <3>1, <4>1, StageEffect
        <4>3. QED
          BY <2>7, <2>8, <2>9, <3>4, <4>1, <4>2 DEF TypeOK
      <3>6. CASE ~(f.to = RoleOf(p) /\ FrameTargetsRxLane(f, p))
        <4>1. /\ StashFrame(c, f) /\ UNCHANGED <<rx, seen>>
              /\ busy' = [busy EXCEPT ![c] = IF fault'[c] = "none" THEN @ ELSE None]
          BY <1>13, <2>1, <2>2, <2>3, <2>12, <3>6 DEF PopWord
        <4>2. /\ stash' \in [Core -> [Role -> RxFrame \cup {None}]]
              /\ fault' \in [Core -> {"none", "Capacity", "Deadline", "Failed"}]
          BY <3>1, <4>1, StashEffect
        <4>3. busy' \in [Core -> Poll \cup {None}]
          BY <4>1 DEF TypeOK
        <4>4. QED
          BY <2>7, <2>8, <2>9, <3>4, <4>1, <4>2, <4>3 DEF TypeOK
      <3>7. QED
        BY <3>5, <3>6
    <2>13. QED
      BY <2>10, <2>11, <2>12
  <1>14. CASE UNCHANGED vars
    BY SMTT(40), <1>14 DEF vars, TypeOK
  <1>15. QED
    BY SMTT(40), <1>1, <1>2, <1>3, <1>4, <1>5, <1>6, <1>7, <1>8, <1>9, <1>10, <1>11, <1>12, <1>13, <1>14
       DEF Next, PortStep, CoreStep

-----------------------------------------------------------------------------
(* Sending.                                                                *)

\* A frame that was offered stays as it is.
LEMMA OfferedKept ==
  ASSUME TypeOK, [Next]_vars
  PROVE  Id \subseteq Nat /\ Id \subseteq Id' /\ \A i \in Id : offered'[i] = offered[i]
  <1>1. ASSUME NEW p \in Port, NEW to \in Role, NEW w \in PayloadWords, BeginSend(p, to, w)
        PROVE  Id \subseteq Nat /\ Id \subseteq Id' /\ \A i \in Id : offered'[i] = offered[i]
    <2>1. PICK f : offered' = Append(offered, f)
      BY <1>1 DEF BeginSend
    <2>2. QED
      BY <2>1 DEF TypeOK, Id
  <1>2. CASE offered' = offered
    BY <1>2 DEF Id, TypeOK
  <1>3. QED
    BY ZenonT(60), <1>1, <1>2 DEF Next, PortStep, CoreStep, vars, BeginSend, PollSendSelf, PollSendOversize, PollSendLocal, PollSend, CancelSend,
           PollRecvRequeued, PollRecvStash, PollRecvLoop, Requeue, PushWord, SendPending, PopWord, PopNone,
           DeadlineExpired

LEMMA EndsKept ==
  ASSUME TypeOK, Id \subseteq Id', \A i \in Id : offered'[i] = offered[i]
  PROVE  /\ \A w : w.id \in Id => (Ends(w)' <=> Ends(w))
         /\ \A v, w : v.id \in Id => (Follows(v, w)' <=> Follows(v, w))
         /\ \A i, j \in Id : SameSender(i, j)' <=> SameSender(i, j)
  BY DEF Ends, TotalWords, Follows, SameSender

\* The frames of Hibana, on the flows of the capsule.
LEMMA BeginFacts ==
  ASSUME TypeOK, NEW p \in Port, NEW to \in Role, NEW w \in PayloadWords, BeginSend(p, to, w)
  PROVE  \E f \in Frame :
           /\ f.id = Len(offered) + 1 /\ f.from = RoleOf(p) /\ f.to = to
           /\ <<f.from, f.to>> \in site.flow
           /\ \A q \in Port : outgoing'[q] = IF q = p THEN f ELSE outgoing[q]
           /\ \A i \in Id' : i \in Id \/ i = f.id
           /\ f.id \in Id' /\ f.id \notin Id /\ offered'[f.id] = f
           /\ \A q \in Port : RoleOf(q) = RoleOf(p) => outgoing[q] = None
  <1>1. PICK f : f = [id |-> Len(offered) + 1, from |-> RoleOf(p), to |-> to, lane |-> LaneOf(p), words |-> w]
    OBVIOUS
  <1>2. RoleOf(p) \in Role /\ LaneOf(p) \in Nat /\ w \in Nat /\ Len(offered) + 1 \in Nat
    BY PortFacts, FifoAssumption DEF TypeOK
  <1>3. f \in Frame /\ f.id = Len(offered) + 1 /\ f.from = RoleOf(p) /\ f.to = to
    BY <1>1, <1>2 DEF Frame
  <1>4. /\ outgoing' = [outgoing EXCEPT ![p] = f] /\ offered' = Append(offered, f)
        /\ <<RoleOf(p), to>> \in site.flow
        /\ Sending(RoleOf(p)) = {}
    BY <1>1 DEF BeginSend, MaySend
  <1>5. \A q \in Port : outgoing'[q] = IF q = p THEN f ELSE outgoing[q]
    BY <1>4 DEF TypeOK
  <1>6. /\ \A i \in Id' : i \in Id \/ i = f.id
        /\ f.id \in Id' /\ f.id \notin Id /\ offered'[f.id] = f
    <2>1. offered \in Seq(Frame)
      BY DEF TypeOK
    <2>2. /\ Len(offered') = Len(offered) + 1 /\ Len(offered) \in Nat /\ offered'[Len(offered) + 1] = f
          /\ \A n \in 1..(Len(offered) + 1) : n \in 1..Len(offered) \/ n = Len(offered) + 1
      BY <1>3, <1>4, <2>1, AppendFacts
    <2>3. QED
      BY <1>3, <2>2 DEF Id
  <1>7. \A q \in Port : RoleOf(q) = RoleOf(p) => outgoing[q] = None
    BY <1>4 DEF Sending
  <1>8. QED
    BY <1>3, <1>4, <1>5, <1>6, <1>7

LEMMA OfferedStep ==
  ASSUME TypeOK, OfferedInv, site' = site, [Next]_vars
  PROVE  OfferedInv'
  <1>1. ASSUME NEW p \in Port, NEW to \in Role, NEW w \in PayloadWords, BeginSend(p, to, w)
        PROVE  OfferedInv'
    <2>1. PICK f \in Frame : /\ \A i \in Id' : i \in Id \/ i = f.id
                             /\ offered'[f.id] = f /\ <<f.from, f.to>> \in site.flow
      BY <1>1, BeginFacts
    <2>2. \A i \in Id : offered'[i] = offered[i]
      BY OfferedKept
    <2>3. QED
      BY <2>1, <2>2 DEF OfferedInv
  <1>2. CASE offered' = offered
    BY <1>2 DEF OfferedInv, Id
  <1>3. QED
    BY ZenonT(60), <1>1, <1>2 DEF Next, PortStep, CoreStep, vars, BeginSend, PollSendSelf, PollSendOversize, PollSendLocal, PollSend, CancelSend,
           PollRecvRequeued, PollRecvStash, PollRecvLoop, Requeue, PushWord, SendPending, PopWord, PopNone,
           DeadlineExpired

\* A step that starts no send: what is offered and being sent can only end.
LEMMA SendEnds ==
  ASSUME TypeOK, SendInv, site' = site, offered' = offered,
         \A q \in Port : outgoing'[q] = outgoing[q] \/ outgoing'[q] = None,
         \A q \in Port : pending'[q] # None =>
           /\ pending'[q].frame = outgoing'[q] /\ outgoing'[q] # None
           /\ Rp2wRoleCore(outgoing'[q].to) # HostOf(q)
           /\ outgoing'[q].words <= SIO_FRAME_PAYLOAD_WORDS
           /\ pending'[q].next \in 1..TotalWords(outgoing'[q])
  PROVE  SendInv'
  <1>1. Port' = Port /\ Id' = Id
    BY SameSite DEF Id
  <1>2. \A p \in Port : outgoing'[p] # None =>
          /\ outgoing'[p].id \in Id /\ outgoing'[p] = offered[outgoing'[p].id]
          /\ outgoing'[p].from = RoleOf(p)
          /\ \A i \in Id : offered[i].from = RoleOf(p) => i <= outgoing'[p].id
    BY DEF SendInv
  <1>3. \A p, q \in Port : outgoing'[p] # None /\ outgoing'[q] # None /\ RoleOf(p) = RoleOf(q) => p = q
    BY DEF SendInv
  <1>4. QED
    BY <1>1, <1>2, <1>3 DEF SendInv, TotalWords

LEMMA SendStep ==
  ASSUME TypeOK, SendInv, BusyInv, site' = site, [Next]_vars
  PROVE  SendInv'
  <1>1. ASSUME NEW p \in Port, NEW to \in Role, NEW w \in PayloadWords, BeginSend(p, to, w)
        PROVE  SendInv'
    <2>1. PICK f \in Frame : /\ f.id = Len(offered) + 1 /\ f.from = RoleOf(p) /\ f.to = to
                             /\ <<f.from, f.to>> \in site.flow
                             /\ \A q \in Port : outgoing'[q] = IF q = p THEN f ELSE outgoing[q]
                             /\ \A i \in Id' : i \in Id \/ i = f.id
                             /\ f.id \in Id' /\ f.id \notin Id /\ offered'[f.id] = f
                             /\ \A q \in Port : RoleOf(q) = RoleOf(p) => outgoing[q] = None
      BY <1>1, BeginFacts
    <2>2. Id \subseteq Id' /\ \A i \in Id : offered'[i] = offered[i] /\ i <= f.id
      <3>1. \A i \in Id : i <= Len(offered) + 1
        BY DEF Id, TypeOK
      <3>2. QED
        BY <2>1, <3>1, OfferedKept
    <2>3. Port' = Port /\ pending' = pending
      BY <1>1, SameSite DEF BeginSend
    <2>4. f.id \in Nat
      BY FrameFacts
    <2>5. ASSUME NEW q \in Port, outgoing'[q] # None
          PROVE  /\ outgoing'[q].id \in Id' /\ outgoing'[q] = offered'[outgoing'[q].id]
                 /\ outgoing'[q].from = RoleOf(q)
                 /\ \A i \in Id' : offered'[i].from = RoleOf(q) => i <= outgoing'[q].id
      <3>1. CASE q = p
        BY <2>1, <2>2, <2>4, <3>1
      <3>2. CASE q # p
        <4>1. outgoing'[q] = outgoing[q] /\ RoleOf(q) # RoleOf(p)
          BY <2>1, <2>5, <3>2
        <4>2. /\ outgoing[q].id \in Id /\ outgoing[q] = offered[outgoing[q].id]
              /\ outgoing[q].from = RoleOf(q)
              /\ \A i \in Id : offered[i].from = RoleOf(q) => i <= outgoing[q].id
          BY <2>5, <4>1 DEF SendInv
        <4>3. QED
          BY <2>1, <2>2, <4>1, <4>2
      <3>3. QED
        BY <3>1, <3>2
    <2>6. \A q, r \in Port : outgoing'[q] # None /\ outgoing'[r] # None /\ RoleOf(q) = RoleOf(r) => q = r
      BY <2>1 DEF SendInv
    <2>7. ASSUME NEW q \in Port, pending[q] # None
          PROVE  /\ pending[q].frame = outgoing'[q] /\ outgoing'[q] # None
                 /\ Rp2wRoleCore(outgoing'[q].to) # HostOf(q)
                 /\ outgoing'[q].words <= SIO_FRAME_PAYLOAD_WORDS
                 /\ pending[q].next \in 1..TotalWords(outgoing'[q])
      <3>1. outgoing[q] # None
        BY <2>7 DEF SendInv
      <3>2. outgoing'[q] = outgoing[q]
        BY <2>1, <3>1
      <3>3. QED
        BY <2>7, <3>2 DEF SendInv
    <2>8. QED
      BY <2>3, <2>5, <2>6, <2>7 DEF SendInv, TotalWords
  <1>2. ASSUME NEW p \in Port, PollSendSelf(p) \/ PollSendOversize(p) \/ PollSendLocal(p)
        PROVE  SendInv'
    <2>1. offered' = offered /\ pending' = pending /\ outgoing' = [outgoing EXCEPT ![p] = None]
      BY <1>2 DEF PollSendSelf, PollSendOversize, PollSendLocal
    <2>2. \A q \in Port : outgoing'[q] = IF q = p THEN None ELSE outgoing[q]
      BY <2>1 DEF TypeOK
    <2>3. pending[p] = None
      <3>1. SUFFICES ASSUME pending[p] # None PROVE FALSE
        OBVIOUS
      <3>2. /\ Rp2wRoleCore(outgoing[p].to) # HostOf(p) /\ outgoing[p] # None
            /\ outgoing[p].words <= SIO_FRAME_PAYLOAD_WORDS
        BY <3>1 DEF SendInv
      <3>3. outgoing[p] \in Frame
        BY <3>2 DEF TypeOK
      <3>4. CASE PollSendSelf(p) \/ PollSendLocal(p)
        BY <3>2, <3>4 DEF PollSendSelf, PollSendLocal, HostOf
      <3>5. CASE PollSendOversize(p)
        BY <3>2, <3>3, <3>5, FrameFacts DEF PollSendOversize, SIO_FRAME_PAYLOAD_WORDS
      <3>6. QED
        BY <1>2, <3>4, <3>5
    <2>4. \A q \in Port : pending'[q] # None =>
           /\ pending'[q].frame = outgoing'[q] /\ outgoing'[q] # None
           /\ Rp2wRoleCore(outgoing'[q].to) # HostOf(q)
           /\ outgoing'[q].words <= SIO_FRAME_PAYLOAD_WORDS
           /\ pending'[q].next \in 1..TotalWords(outgoing'[q])
      BY <2>1, <2>2, <2>3 DEF SendInv
    <2>5. QED
      BY <2>1, <2>2, <2>4, SendEnds
  <1>3. ASSUME NEW p \in Port, PollSend(p) PROVE SendInv'
    <2>1. offered' = offered /\ outgoing' = outgoing
      BY <1>3 DEF PollSend
    <2>2. \A q \in Port : pending'[q] = IF q = p /\ pending[p] = None
                                        THEN [frame |-> outgoing[p], next |-> 1] ELSE pending[q]
      BY <1>3 DEF PollSend, TypeOK
    <2>3. outgoing[p] \in Frame /\ outgoing[p] # None /\ Rp2wRoleCore(outgoing[p].to) # HostOf(p)
          /\ outgoing[p].words <= SIO_FRAME_PAYLOAD_WORDS
      BY <1>3 DEF PollSend, Sendable, TypeOK
    <2>4. 1 \in 1..TotalWords(outgoing[p])
      BY <2>3, FrameFacts
    <2>5. \A q \in Port : pending'[q] # None =>
           /\ pending'[q].frame = outgoing'[q] /\ outgoing'[q] # None
           /\ Rp2wRoleCore(outgoing'[q].to) # HostOf(q)
           /\ outgoing'[q].words <= SIO_FRAME_PAYLOAD_WORDS
           /\ pending'[q].next \in 1..TotalWords(outgoing'[q])
      BY <2>1, <2>2, <2>3, <2>4 DEF SendInv
    <2>6. QED
      BY <2>1, <2>5, SendEnds
  <1>4. ASSUME NEW p \in Port, CancelSend(p) PROVE SendInv'
    <2>1. /\ offered' = offered
          /\ \A q \in Port : /\ outgoing'[q] = IF q = p THEN None ELSE outgoing[q]
                             /\ pending'[q] = IF q = p THEN None ELSE pending[q]
      BY <1>4 DEF CancelSend, TypeOK
    <2>2. \A q \in Port : pending'[q] # None =>
           /\ pending'[q].frame = outgoing'[q] /\ outgoing'[q] # None
           /\ Rp2wRoleCore(outgoing'[q].to) # HostOf(q)
           /\ outgoing'[q].words <= SIO_FRAME_PAYLOAD_WORDS
           /\ pending'[q].next \in 1..TotalWords(outgoing'[q])
      BY <2>1 DEF SendInv
    <2>3. QED
      BY <2>1, <2>2, SendEnds
  <1>5. ASSUME NEW c \in Core, PushWord(c) PROVE SendInv'
    <2>1. PICK p : p = busy[c].port
      OBVIOUS
    <2>2. PICK f : f = pending[p].frame
      OBVIOUS
    <2>3. PICK k : k = pending[p].next
      OBVIOUS
    <2>w. PICK w : w = [id |-> f.id, k |-> k]
      OBVIOUS
    <2>4. /\ p \in Port /\ f \in Frame /\ k \in Nat /\ f = outgoing[p] /\ k \in 1..TotalWords(f)
          /\ pending[p] # None
          /\ \/ /\ k < TotalWords(f)
                /\ pending' = [pending EXCEPT ![p] = [frame |-> f, next |-> k + 1]]
                /\ UNCHANGED <<busy, outgoing, sent>>
             \/ /\ pending' = [pending EXCEPT ![p] = None]
                /\ outgoing' = [outgoing EXCEPT ![p] = None]
      BY <1>5, <2>1, <2>2, <2>3, <2>w, PushFacts
    <2>5. offered' = offered
      BY <1>5 DEF PushWord
    <2>6. CASE /\ k < TotalWords(f) /\ outgoing' = outgoing
               /\ pending' = [pending EXCEPT ![p] = [frame |-> f, next |-> k + 1]]
      <3>1. \A q \in Port : pending'[q] = IF q = p THEN [frame |-> f, next |-> k + 1] ELSE pending[q]
        BY <2>6 DEF TypeOK
      <3>2. k + 1 \in 1..TotalWords(f)
        BY <2>4, <2>6, FrameFacts
      <3>3. \A q \in Port : pending'[q] # None =>
             /\ pending'[q].frame = outgoing'[q] /\ outgoing'[q] # None
             /\ Rp2wRoleCore(outgoing'[q].to) # HostOf(q)
             /\ outgoing'[q].words <= SIO_FRAME_PAYLOAD_WORDS
             /\ pending'[q].next \in 1..TotalWords(outgoing'[q])
        BY <2>4, <2>6, <3>1, <3>2 DEF SendInv
      <3>4. QED
        BY <2>5, <2>6, <3>3, SendEnds
    <2>7. CASE pending' = [pending EXCEPT ![p] = None] /\ outgoing' = [outgoing EXCEPT ![p] = None]
      <3>1. \A q \in Port : /\ outgoing'[q] = IF q = p THEN None ELSE outgoing[q]
                            /\ pending'[q] = IF q = p THEN None ELSE pending[q]
        BY <2>7 DEF TypeOK
      <3>2. \A q \in Port : pending'[q] # None =>
             /\ pending'[q].frame = outgoing'[q] /\ outgoing'[q] # None
             /\ Rp2wRoleCore(outgoing'[q].to) # HostOf(q)
             /\ outgoing'[q].words <= SIO_FRAME_PAYLOAD_WORDS
             /\ pending'[q].next \in 1..TotalWords(outgoing'[q])
        BY <3>1 DEF SendInv
      <3>3. QED
        BY <2>5, <3>1, <3>2, SendEnds
    <2>8. QED
      BY <2>4, <2>6, <2>7
  <1>6. CASE UNCHANGED <<offered, outgoing, pending>>
    <2>1. \A q \in Port : pending'[q] # None =>
           /\ pending'[q].frame = outgoing'[q] /\ outgoing'[q] # None
           /\ Rp2wRoleCore(outgoing'[q].to) # HostOf(q)
           /\ outgoing'[q].words <= SIO_FRAME_PAYLOAD_WORDS
           /\ pending'[q].next \in 1..TotalWords(outgoing'[q])
      BY <1>6 DEF SendInv
    <2>2. QED
      BY <1>6, <2>1, SendEnds
  <1>7. QED
    BY <1>1, <1>2, <1>3, <1>4, <1>5, <1>6
       DEF Next, PortStep, CoreStep, vars, PollRecvRequeued, PollRecvStash, PollRecvLoop, Requeue,
           SendPending, PopWord, PopNone, DeadlineExpired

-----------------------------------------------------------------------------
(* Receiving.                                                              *)

\* A pop: what the word makes of the words gathered before.
PopCommon(c, p, a) ==
  /\ p \in Port /\ HostOf(p) = c /\ busy[c] # None /\ busy[c].op = "recv" /\ fault[c] = "none"
  /\ fifo[c] # <<>> /\ fifo'[c] = Tail(fifo[c])
  /\ accum'[c] = IF Rejected(a) \/ Complete(a) THEN <<>> ELSE a
  /\ \A d \in Core : d # c => fifo'[d] = fifo[d] /\ accum'[d] = accum[d]
  /\ UNCHANGED <<site, outgoing, pending, offered, sent, cut>>

PopRejected(c, a) ==
  /\ Rejected(a) /\ fault'[c] = "Failed" /\ busy'[c] = None
  /\ \A d \in Core : d # c => fault'[d] = fault[d] /\ busy'[d] = busy[d]
  /\ UNCHANGED <<stash, rx, got, seen>>

PopMore(a) ==
  /\ ~Rejected(a) /\ ~Complete(a)
  /\ UNCHANGED <<stash, rx, busy, fault, got, seen>>

PopFrame(c, a, f) ==
  /\ ~Rejected(a) /\ Complete(a)
  /\ f \in RxFrame /\ f.id \in Id
  /\ got' = [got EXCEPT ![c] = Append(@, f.id)]

PopStaged(c, p, f) ==
  /\ f.to = RoleOf(p) /\ FrameTargetsRxLane(f, p)
  /\ Stage(p, f) /\ busy'[c] = None
  /\ \A d \in Core : d # c => busy'[d] = busy[d]
  /\ UNCHANGED <<stash, fault>>

PopStashed(c, p, f) ==
  /\ ~(f.to = RoleOf(p) /\ FrameTargetsRxLane(f, p))
  /\ f.to \in Role /\ stash[c][f.to] = None
  /\ \A d \in Core, q \in Role : stash'[d][q] = IF d = c /\ q = f.to THEN f ELSE stash[d][q]
  /\ UNCHANGED <<busy, fault, rx, seen>>

PopDropped(c) ==
  /\ fault'[c] = "Capacity" /\ busy'[c] = None
  /\ \A d \in Core : d # c => fault'[d] = fault[d] /\ busy'[d] = busy[d]
  /\ UNCHANGED <<stash, rx, seen>>

LEMMA PopFacts ==
  ASSUME TypeOK, BusyInv, HeldInv, NEW c \in Core, PopWord(c), NEW p, p = busy[c].port,
         NEW a, a = Append(accum[c], Head(fifo[c])), NEW f, f = Decoded(a)
  PROVE  /\ PopCommon(c, p, a)
         /\ \/ PopRejected(c, a)
            \/ PopMore(a)
            \/ PopFrame(c, a, f) /\ (PopStaged(c, p, f) \/ PopStashed(c, p, f) \/ PopDropped(c))
  <1>1. busy[c] \in Poll /\ busy[c] # None /\ busy[c].op = "recv" /\ fifo[c] # <<>>
    BY DEF PopWord, TypeOK
  <1>2. p \in Port /\ HostOf(p) = c /\ fault[c] = "none"
    BY <1>1, StateFacts DEF BusyInv, PollInv
  <1>3. a \in Seq(Word) /\ \A n \in 1..Len(a) : a[n].id \in Id
    BY <1>1, GatherFacts
  <1>4. /\ fifo' = [fifo EXCEPT ![c] = Tail(@)]
        /\ accum' = [accum EXCEPT ![c] = IF Rejected(a) \/ Complete(a) THEN <<>> ELSE a]
        /\ UNCHANGED <<site, outgoing, pending, offered, sent, cut>>
    BY DEF PopWord
  <1>5. /\ fifo'[c] = Tail(fifo[c])
        /\ accum'[c] = IF Rejected(a) \/ Complete(a) THEN <<>> ELSE a
        /\ \A d \in Core : d # c => fifo'[d] = fifo[d] /\ accum'[d] = accum[d]
    BY <1>4 DEF TypeOK
  <1>c. PopCommon(c, p, a)
    BY <1>1, <1>2, <1>4, <1>5 DEF PopCommon
  <1>6. CASE Rejected(a)
    <2>1. Fail(c, "Failed") /\ busy' = [busy EXCEPT ![c] = None] /\ UNCHANGED <<stash, rx, got, seen>>
      BY <1>6 DEF PopWord
    <2>2. /\ fault'[c] = "Failed" /\ busy'[c] = None
          /\ \A d \in Core : d # c => fault'[d] = fault[d] /\ busy'[d] = busy[d]
      BY <2>1 DEF Fail, TypeOK
    <2>3. QED
      BY <1>c, <1>6, <2>1, <2>2 DEF PopRejected
  <1>7. CASE ~Rejected(a) /\ ~Complete(a)
    <2>1. UNCHANGED <<stash, rx, busy, fault, got, seen>>
      BY <1>7 DEF PopWord
    <2>2. QED
      BY <1>c, <1>7, <2>1 DEF PopMore
  <1>8. CASE ~Rejected(a) /\ Complete(a)
    <2>1. f \in RxFrame /\ f.id \in Id /\ (f.to \in Role \/ f.to = MAGIC_AS_ROLE)
      BY <1>3, <1>8, DecodedType
    <2>2. got' = [got EXCEPT ![c] = Append(@, f.id)]
      BY <1>8 DEF PopWord
    <2>f. PopFrame(c, a, f)
      BY <1>8, <2>1, <2>2 DEF PopFrame
    <2>3. CASE f.to = RoleOf(p) /\ FrameTargetsRxLane(f, p)
      <3>1. Stage(p, f) /\ busy' = [busy EXCEPT ![c] = None] /\ UNCHANGED <<stash, fault>>
        BY <1>8, <2>3 DEF PopWord
      <3>2. busy'[c] = None /\ \A d \in Core : d # c => busy'[d] = busy[d]
        BY <3>1 DEF TypeOK
      <3>3. QED
        BY <1>c, <2>f, <2>3, <3>1, <3>2 DEF PopStaged
    <2>4. CASE ~(f.to = RoleOf(p) /\ FrameTargetsRxLane(f, p))
      <3>1. /\ StashFrame(c, f) /\ UNCHANGED <<rx, seen>>
            /\ busy' = [busy EXCEPT ![c] = IF fault'[c] = "none" THEN @ ELSE None]
        BY <1>8, <2>4 DEF PopWord
      <3>2. \/ /\ stash' = stash /\ fault'[c] = "Capacity"
               /\ \A d \in Core : d # c => fault'[d] = fault[d]
            \/ /\ fault' = fault /\ f.to \in Role /\ stash[c][f.to] = None
               /\ \A d \in Core, q \in Role :
                    stash'[d][q] = IF d = c /\ q = f.to THEN f ELSE stash[d][q]
        BY <2>1, <3>1, StashEffect
      <3>3. CASE /\ stash' = stash /\ fault'[c] = "Capacity"
                 /\ \A d \in Core : d # c => fault'[d] = fault[d]
        <4>1. busy'[c] = None /\ \A d \in Core : d # c => busy'[d] = busy[d]
          BY <3>1, <3>3 DEF TypeOK
        <4>2. QED
          BY <1>c, <2>f, <3>1, <3>3, <4>1 DEF PopDropped
      <3>4. CASE /\ fault' = fault /\ f.to \in Role /\ stash[c][f.to] = None
                 /\ \A d \in Core, q \in Role :
                      stash'[d][q] = IF d = c /\ q = f.to THEN f ELSE stash[d][q]
        <4>1. busy' = busy
          BY <1>2, <3>1, <3>4 DEF TypeOK
        <4>2. QED
          BY <1>c, <2>f, <2>4, <3>1, <3>4, <4>1 DEF PopStashed
      <3>5. QED
        BY <3>2, <3>3, <3>4
    <2>5. QED
      BY <2>3, <2>4
  <1>9. QED
    BY <1>6, <1>7, <1>8

\* A poll that goes on.
LEMMA PollGoesOn ==
  ASSUME TypeOK, site' = site, NEW d \in Core, PollInv(d), busy'[d] = busy[d] \/ busy'[d] = None,
         fault'[d] = fault[d], \A r \in Role : stash'[d][r] = stash[d][r],
         \A q \in Port : HostOf(q) = d /\ pending[q] # None => pending'[q] # None
  PROVE  PollInv(d)'
  <1>1. SUFFICES ASSUME busy'[d] # None PROVE PollInv(d)'
    BY DEF PollInv
  <1>2. busy'[d] = busy[d] /\ busy[d] \in Poll
    BY <1>1 DEF TypeOK
  <1>3. PICK p \in Port : p = busy[d].port
    BY <1>2, StateFacts
  <1>4. HostOf(p) = d /\ RoleOf(p) \in Role
    BY <1>1, <1>2, <1>3, PortFacts DEF PollInv
  <1>5. QED
    BY <1>1, <1>2, <1>3, <1>4 DEF PollInv

LEMMA BusyStep ==
  ASSUME TypeOK, SendInv, BusyInv, HeldInv, site' = site, [Next]_vars
  PROVE  BusyInv'
  <1>1. CASE UNCHANGED <<busy, fault, pending, stash>>
    <2>1. \A d \in Core : PollInv(d)'
      BY <1>1, PollGoesOn DEF BusyInv
    <2>2. QED
      BY <2>1 DEF BusyInv
  <1>2. ASSUME NEW p \in Port, PollSendOversize(p) PROVE BusyInv'
    <2>1. PICK c \in Core : c = HostOf(p)
      BY PortFacts
    <2>2. /\ busy' = busy /\ pending' = pending /\ stash' = stash /\ busy[c] = None
          /\ \A d \in Core : d # c => fault'[d] = fault[d]
      BY <1>2, <2>1 DEF PollSendOversize, Fail, Idle, TypeOK
    <2>3. PollInv(c)'
      BY <2>2 DEF PollInv
    <2>4. \A d \in Core : d # c => PollInv(d)'
      BY <2>2, PollGoesOn DEF BusyInv
    <2>5. QED
      BY <2>3, <2>4 DEF BusyInv
  <1>3. ASSUME NEW p \in Port, PollSendLocal(p) PROVE BusyInv'
    <2>1. PICK c \in Core : c = HostOf(p)
      BY PortFacts
    <2>2. outgoing[p] \in Frame
      BY <1>3 DEF PollSendLocal, Sendable, TypeOK
    <2>3. PICK g : g = [id |-> outgoing[p].id, from |-> outgoing[p].from, to |-> outgoing[p].to,
                        lane |-> outgoing[p].lane, whole |-> TRUE]
      OBVIOUS
    <2>4. g \in RxFrame /\ g.to \in Role
      BY <2>2, <2>3, FrameFacts, RoleFacts DEF RxFrame
    <2>5. StashFrame(c, g) /\ busy' = busy /\ pending' = pending /\ busy[c] = None
      BY <1>3, <2>1, <2>3 DEF PollSendLocal, Sendable, Idle
    <2>6. \A d \in Core : d # c => fault'[d] = fault[d] /\ \A q \in Role : stash'[d][q] = stash[d][q]
      BY <2>4, <2>5, StashEffect
    <2>7. PollInv(c)'
      BY <2>5 DEF PollInv
    <2>8. \A d \in Core : d # c => PollInv(d)'
      BY <2>5, <2>6, PollGoesOn DEF BusyInv
    <2>9. QED
      BY <2>7, <2>8 DEF BusyInv
  <1>4. ASSUME NEW p \in Port, PollSend(p) PROVE BusyInv'
    <2>1. PICK c \in Core : c = HostOf(p)
      BY PortFacts
    <2>2. /\ stash' = stash /\ fault' = fault /\ fault[c] = "none"
          /\ busy'[c] = [op |-> "send", port |-> p] /\ \A d \in Core : d # c => busy'[d] = busy[d]
      BY <1>4, <2>1 DEF PollSend, Sendable, Idle, TypeOK
    <2>3. \A q \in Port : pending'[q] = IF q = p /\ pending[p] = None
                                        THEN [frame |-> outgoing[p], next |-> 1] ELSE pending[q]
      BY <1>4 DEF PollSend, TypeOK
    <2>4. [frame |-> outgoing[p], next |-> 1] # None
      <3>1. [frame |-> outgoing[p], next |-> 1] \in TxState
        BY <1>4 DEF PollSend, Sendable, TypeOK, TxState
      <3>2. QED
        BY <3>1, StateFacts
    <2>5. \A q \in Port : pending[q] # None \/ q = p => pending'[q] # None
      BY <2>3, <2>4
    <2>6. PollInv(c)'
      <3>1. busy'[c].op = "send" /\ busy'[c].port = p
        BY <2>2
      <3>2. pending'[p] # None
        BY <2>5
      <3>3. QED
        BY <2>1, <2>2, <3>1, <3>2 DEF PollInv, HostOf
    <2>7. \A d \in Core : d # c => PollInv(d)'
      BY <2>2, <2>5, PollGoesOn DEF BusyInv
    <2>8. QED
      BY <2>6, <2>7 DEF BusyInv
  <1>5. ASSUME NEW p \in Port, CancelSend(p) PROVE BusyInv'
    <2>1. PICK c \in Core : c = HostOf(p)
      BY PortFacts
    <2>2. /\ busy' = busy /\ fault' = fault /\ stash' = stash /\ busy[c] = None
          /\ \A q \in Port : q # p => pending'[q] = pending[q]
      BY <1>5, <2>1 DEF CancelSend, Idle, TypeOK
    <2>3. PollInv(c)'
      BY <2>2 DEF PollInv
    <2>4. \A d \in Core : d # c => PollInv(d)'
      BY <2>1, <2>2, PollGoesOn DEF BusyInv
    <2>5. QED
      BY <2>3, <2>4 DEF BusyInv
  <1>6. ASSUME NEW p \in Port, PollRecvStash(p) PROVE BusyInv'
    <2>1. PICK c \in Core : c = HostOf(p)
      BY PortFacts
    <2>2. PICK r \in Role : r = RoleOf(p)
      BY PortFacts
    <2>3. busy' = busy /\ fault' = fault /\ pending' = pending /\ busy[c] = None
      BY <1>6, <2>1 DEF PollRecvStash, MayRecv, Idle
    <2>4. stash' = stash \/ stash' = [stash EXCEPT ![c][r] = None]
      BY <1>6, <2>1, <2>2 DEF PollRecvStash
    <2>5. \A d \in Core : d # c => \A q \in Role : stash'[d][q] = stash[d][q]
      BY <2>4, StashWrite
    <2>6. PollInv(c)'
      BY <2>3 DEF PollInv
    <2>7. \A d \in Core : d # c => PollInv(d)'
      BY <2>3, <2>5, PollGoesOn DEF BusyInv
    <2>8. QED
      BY <2>6, <2>7 DEF BusyInv
  <1>7. ASSUME NEW p \in Port, PollRecvLoop(p) PROVE BusyInv'
    <2>1. PICK c \in Core : c = HostOf(p)
      BY PortFacts
    <2>2. /\ stash' = stash /\ fault' = fault /\ fault[c] = "none" /\ pending' = pending
          /\ busy'[c] = [op |-> "recv", port |-> p] /\ \A d \in Core : d # c => busy'[d] = busy[d]
          /\ stash[c][RoleOf(p)] = None
      BY <1>7, <2>1 DEF PollRecvLoop, MayRecv, Idle, TypeOK
    <2>3. PollInv(c)'
      <3>1. busy'[c].op = "recv" /\ busy'[c].port = p
        BY <2>2
      <3>2. QED
        BY <2>1, <2>2, <3>1 DEF PollInv, HostOf
    <2>4. \A d \in Core : d # c => PollInv(d)'
      BY <2>2, PollGoesOn DEF BusyInv
    <2>5. QED
      BY <2>3, <2>4 DEF BusyInv
  <1>8. ASSUME NEW c \in Core, PushWord(c) PROVE BusyInv'
    <2>1. PICK p : p = busy[c].port
      OBVIOUS
    <2>2. PICK f : f = pending[p].frame
      OBVIOUS
    <2>3. PICK k : k = pending[p].next
      OBVIOUS
    <2>w. PICK w : w = [id |-> f.id, k |-> k]
      OBVIOUS
    <2>4. /\ p \in Port /\ HostOf(p) = c /\ f \in Frame /\ k \in Nat
          /\ \/ /\ pending' = [pending EXCEPT ![p] = [frame |-> f, next |-> k + 1]]
                /\ UNCHANGED <<busy, outgoing, sent>>
             \/ /\ pending' = [pending EXCEPT ![p] = None]
                /\ busy' = [busy EXCEPT ![c] = None]
      BY <1>8, <2>1, <2>2, <2>3, <2>w, PushFacts
    <2>5. fault' = fault /\ stash' = stash
      BY <1>8 DEF PushWord
    <2>6. CASE pending' = [pending EXCEPT ![p] = [frame |-> f, next |-> k + 1]] /\ busy' = busy
      <3>1. [frame |-> f, next |-> k + 1] # None
        <4>1. [frame |-> f, next |-> k + 1] \in TxState
          BY <2>4 DEF TxState
        <4>2. QED
          BY <4>1, StateFacts
      <3>2. \A q \in Port : pending[q] # None => pending'[q] # None
        BY <2>6, <3>1 DEF TypeOK
      <3>3. \A d \in Core : PollInv(d)'
        BY <2>5, <2>6, <3>2, PollGoesOn DEF BusyInv
      <3>4. QED
        BY <3>3 DEF BusyInv
    <2>7. CASE pending' = [pending EXCEPT ![p] = None] /\ busy' = [busy EXCEPT ![c] = None]
      <3>1. /\ busy'[c] = None /\ \A d \in Core : d # c => busy'[d] = busy[d]
            /\ \A q \in Port : q # p => pending'[q] = pending[q]
        BY <2>7 DEF TypeOK
      <3>2. PollInv(c)'
        BY <3>1 DEF PollInv
      <3>3. \A d \in Core : d # c => PollInv(d)'
        BY <2>4, <2>5, <3>1, PollGoesOn DEF BusyInv
      <3>4. QED
        BY <3>2, <3>3 DEF BusyInv
    <2>8. QED
      BY <2>4, <2>6, <2>7
  <1>9. ASSUME NEW c \in Core, SendPending(c) \/ PopNone(c) \/ DeadlineExpired(c) PROVE BusyInv'
    <2>1. /\ busy'[c] = None /\ \A d \in Core : d # c => busy'[d] = busy[d]
          /\ \A d \in Core : d # c => fault'[d] = fault[d]
          /\ pending' = pending /\ stash' = stash
      BY <1>9 DEF SendPending, PopNone, DeadlineExpired, Fail, TypeOK
    <2>2. PollInv(c)'
      BY <2>1 DEF PollInv
    <2>3. \A d \in Core : d # c => PollInv(d)'
      BY <2>1, PollGoesOn DEF BusyInv
    <2>4. QED
      BY <2>2, <2>3 DEF BusyInv
  <1>10. ASSUME NEW c \in Core, PopWord(c) PROVE BusyInv'
    <2>1. PICK p : p = busy[c].port
      OBVIOUS
    <2>2. PICK a : a = Append(accum[c], Head(fifo[c]))
      OBVIOUS
    <2>3. PICK f : f = Decoded(a)
      OBVIOUS
    <2>o. /\ PopCommon(c, p, a)
          /\ \/ PopRejected(c, a)
             \/ PopMore(a)
             \/ PopFrame(c, a, f) /\ (PopStaged(c, p, f) \/ PopStashed(c, p, f) \/ PopDropped(c))
      BY <1>10, <2>1, <2>2, <2>3, PopFacts
    <2>4. /\ p \in Port /\ HostOf(p) = c /\ busy[c] # None /\ busy[c].op = "recv" /\ fault[c] = "none"
          /\ UNCHANGED <<site, outgoing, pending, offered, sent, cut>>
      BY <2>o DEF PopCommon
    <2>5. CASE /\ busy'[c] = None
               /\ \A d \in Core : d # c => fault'[d] = fault[d] /\ busy'[d] = busy[d]
               /\ stash' = stash
      <3>1. PollInv(c)'
        BY <2>5 DEF PollInv
      <3>2. \A d \in Core : d # c => PollInv(d)'
        BY <2>4, <2>5, PollGoesOn DEF BusyInv
      <3>3. QED
        BY <3>1, <3>2 DEF BusyInv
    <2>6. CASE UNCHANGED <<stash, busy, fault>>
      BY <1>1, <2>4, <2>6
    <2>7. CASE /\ ~(f.to = RoleOf(p) /\ FrameTargetsRxLane(f, p))
               /\ f.to \in Role
               /\ \A d \in Core, q \in Role :
                    stash'[d][q] = IF d = c /\ q = f.to THEN f ELSE stash[d][q]
               /\ UNCHANGED <<busy, fault>>
      <3>1. PollInv(c)'
        <4>1. RoleOf(p) \in Role
          BY <2>4, PortFacts
        <4>2. stash'[c][RoleOf(p)] = IF RoleOf(p) = f.to THEN f ELSE stash[c][RoleOf(p)]
          BY <2>7, <4>1
        <4>3. stash[c][RoleOf(p)] # None => ~FrameTargetsRxLane(stash[c][RoleOf(p)], p)
          BY <2>1, <2>4 DEF BusyInv, PollInv
        <4>4. stash'[c][RoleOf(p)] # None => ~FrameTargetsRxLane(stash'[c][RoleOf(p)], p)
          BY <2>7, <4>2, <4>3
        <4>5. QED
          BY <2>1, <2>4, <2>7, <4>4 DEF PollInv, FrameTargetsRxLane
      <3>2. \A d \in Core : d # c => PollInv(d)'
        BY <2>4, <2>7, PollGoesOn DEF BusyInv
      <3>3. QED
        BY <3>1, <3>2 DEF BusyInv
    <2>8. QED
      BY <2>o, <2>5, <2>6, <2>7 DEF PopRejected, PopMore, PopStaged, PopStashed, PopDropped
  <1>11. QED
    BY <1>1, <1>2, <1>3, <1>4, <1>5, <1>6, <1>7, <1>8, <1>9, <1>10
       DEF Next, PortStep, CoreStep, vars, BeginSend, PollSendSelf, PollRecvRequeued, Requeue

\* What is offered, whatever holds it.
WordsHeld(c) ==
  /\ \A i \in 1..Len(fifo[c]) : fifo[c][i].id \in Id
  /\ \A i \in 1..Len(accum[c]) : accum[c][i].id \in Id
StashHeld(c) == \A r \in Role : stash[c][r] # None => stash[c][r].id \in Id
PortHeld(p) ==
  /\ rx[p].frame # None => rx[p].frame.id \in Id
  /\ \A n \in 1..Len(seen[p]) : seen[p][n] \in Id

LEMMA HeldParts == HeldInv <=> (\A c \in Core : WordsHeld(c) /\ StashHeld(c)) /\ \A p \in Port : PortHeld(p)
  BY DEF HeldInv, WordsHeld, StashHeld, PortHeld

LEMMA HeldPartsNext ==
  HeldInv' <=> (\A c \in Core : WordsHeld(c)' /\ StashHeld(c)') /\ \A p \in Port' : PortHeld(p)'
  BY DEF HeldInv, WordsHeld, StashHeld, PortHeld, Core

\* A frame staged at a port.
LEMMA StageHeld ==
  ASSUME TypeOK, HeldInv, NEW p \in Port, NEW f \in RxFrame, f.id \in Id, Stage(p, f), Id \subseteq Id'
  PROVE  \A q \in Port : PortHeld(q)'
  <1>1. /\ rx'[p].frame = f /\ seen'[p] = Append(seen[p], f.id)
        /\ \A q \in Port : q # p => rx'[q] = rx[q] /\ seen'[q] = seen[q]
    BY StageEffect
  <1>2. PortHeld(p)'
    <2>1. seen[p] \in Seq(Nat) /\ f.id \in Nat
      BY RxFrameFacts DEF TypeOK
    <2>2. /\ Len(seen'[p]) = Len(seen[p]) + 1 /\ seen'[p][Len(seen[p]) + 1] = f.id
          /\ \A n \in 1..Len(seen[p]) : seen'[p][n] = seen[p][n]
          /\ \A n \in 1..(Len(seen[p]) + 1) : n \in 1..Len(seen[p]) \/ n = Len(seen[p]) + 1
      BY <1>1, <2>1, AppendFacts
    <2>3. \A n \in 1..Len(seen[p]) : seen[p][n] \in Id
      BY DEF HeldInv
    <2>4. \A n \in 1..Len(seen'[p]) : seen'[p][n] \in Id'
      BY <2>2, <2>3
    <2>5. QED
      BY <1>1, <2>4 DEF PortHeld
  <1>3. \A q \in Port : q # p => PortHeld(q)'
    BY <1>1 DEF HeldInv, PortHeld
  <1>4. QED
    BY <1>2, <1>3

LEMMA HeldStep ==
  ASSUME TypeOK, SendInv, BusyInv, HeldInv, site' = site, [Next]_vars
  PROVE  HeldInv'
  <1>i. Id \subseteq Id'
    BY OfferedKept
  <1>p. Port' = Port
    BY SameSite
  <1>h. (\A d \in Core : WordsHeld(d) /\ StashHeld(d)) /\ \A q \in Port : PortHeld(q)
    BY HeldParts
  <1>g. ASSUME \A d \in Core : WordsHeld(d)' /\ StashHeld(d)', \A q \in Port : PortHeld(q)'
        PROVE  HeldInv'
    BY <1>g, <1>p, HeldPartsNext
  <1>w. fifo' = fifo /\ accum' = accum => \A d \in Core : WordsHeld(d)'
    BY <1>h, <1>i DEF WordsHeld
  <1>s. stash' = stash => \A d \in Core : StashHeld(d)'
    BY <1>h, <1>i DEF StashHeld
  <1>r. rx' = rx /\ seen' = seen => \A q \in Port : PortHeld(q)'
    BY <1>h, <1>i DEF PortHeld
  <1>1. CASE UNCHANGED <<fifo, accum, stash, rx, seen>>
    BY <1>1, <1>g, <1>w, <1>s, <1>r
  <1>2. ASSUME NEW p \in Port, PollRecvRequeued(p) \/ Requeue(p) PROVE HeldInv'
    <2>1. fifo' = fifo /\ accum' = accum /\ stash' = stash /\ seen' = seen
      BY <1>2 DEF PollRecvRequeued, Requeue
    <2>2. \A q \in Port : rx'[q].frame = rx[q].frame
      BY <1>2, RequeueEffect
    <2>3. \A q \in Port : PortHeld(q)'
      BY <2>1, <2>2, <1>h, <1>i DEF PortHeld
    <2>4. QED
      BY <2>1, <2>3, <1>g, <1>w, <1>s
  <1>3. ASSUME NEW p \in Port, PollSendLocal(p) PROVE HeldInv'
    <2>1. PICK c \in Core : c = HostOf(p)
      BY PortFacts
    <2>2. outgoing[p] \in Frame /\ outgoing[p].id \in Id
      BY <1>3 DEF PollSendLocal, Sendable, TypeOK, SendInv
    <2>3. PICK g : g = [id |-> outgoing[p].id, from |-> outgoing[p].from, to |-> outgoing[p].to,
                        lane |-> outgoing[p].lane, whole |-> TRUE]
      OBVIOUS
    <2>4. g \in RxFrame /\ g.to \in Role /\ g.id \in Id
      BY <2>2, <2>3, FrameFacts, RoleFacts DEF RxFrame
    <2>5. StashFrame(c, g) /\ fifo' = fifo /\ accum' = accum /\ rx' = rx /\ seen' = seen
      BY <1>3, <2>1, <2>3 DEF PollSendLocal
    <2>6. \A d \in Core, q \in Role : stash'[d][q] = g \/ stash'[d][q] = stash[d][q]
      BY <2>4, <2>5, StashEffect
    <2>7. \A d \in Core : StashHeld(d)'
      BY <2>4, <2>6, <1>h, <1>i DEF StashHeld
    <2>8. QED
      BY <2>5, <2>7, <1>g, <1>w, <1>r
  <1>4. ASSUME NEW p \in Port, PollRecvStash(p) PROVE HeldInv'
    <2>1. PICK c \in Core : c = HostOf(p)
      BY PortFacts
    <2>2. PICK r \in Role : r = RoleOf(p)
      BY PortFacts
    <2>3. PICK f \in RxFrame : f = stash[c][r] /\ f # None
      BY <1>4, <2>1, <2>2 DEF PollRecvStash, TypeOK
    <2>4. fifo' = fifo /\ accum' = accum
      BY <1>4 DEF PollRecvStash
    <2>5. CASE FrameTargetsRxLane(f, p)
      <3>1. Stage(p, f) /\ stash' = [stash EXCEPT ![c][r] = None]
        BY <1>4, <2>1, <2>2, <2>3, <2>5 DEF PollRecvStash
      <3>2. f.id \in Id
        BY <2>3, <1>h DEF StashHeld
      <3>3. \A q \in Port : PortHeld(q)'
        BY <3>1, <3>2, <1>i, StageHeld
      <3>4. \A d \in Core, q \in Role : stash'[d][q] = None \/ stash'[d][q] = stash[d][q]
        BY <3>1, StashWrite
      <3>5. \A d \in Core : StashHeld(d)'
        BY <3>4, <1>h, <1>i DEF StashHeld
      <3>6. QED
        BY <2>4, <3>3, <3>5, <1>g, <1>w
    <2>6. CASE ~FrameTargetsRxLane(f, p)
      <3>1. rx' = [rx EXCEPT ![p] = EmptyRx] /\ stash' = stash /\ seen' = seen
        BY <1>4, <2>1, <2>2, <2>3, <2>6 DEF PollRecvStash
      <3>2. \A q \in Port : rx'[q].frame = None \/ rx'[q].frame = rx[q].frame
        BY <3>1 DEF TypeOK, EmptyRx
      <3>3. \A q \in Port : PortHeld(q)'
        BY <3>1, <3>2, <1>h, <1>i DEF PortHeld
      <3>4. QED
        BY <2>4, <3>1, <3>3, <1>g, <1>w, <1>s
    <2>7. QED
      BY <2>5, <2>6
  <1>5. ASSUME NEW p \in Port, PollRecvLoop(p) PROVE HeldInv'
    <2>1. fifo' = fifo /\ accum' = accum /\ stash' = stash /\ seen' = seen
          /\ rx' = [rx EXCEPT ![p] = EmptyRx]
      BY <1>5 DEF PollRecvLoop
    <2>2. \A q \in Port : rx'[q].frame = None \/ rx'[q].frame = rx[q].frame
      BY <2>1 DEF TypeOK, EmptyRx
    <2>3. \A q \in Port : PortHeld(q)'
      BY <2>1, <2>2, <1>h, <1>i DEF PortHeld
    <2>4. QED
      BY <2>1, <2>3, <1>g, <1>w, <1>s
  <1>6. ASSUME NEW c \in Core, PushWord(c) PROVE HeldInv'
    <2>1. PICK p : p = busy[c].port
      OBVIOUS
    <2>2. PICK f : f = pending[p].frame
      OBVIOUS
    <2>3. PICK k : k = pending[p].next
      OBVIOUS
    <2>4. PICK w : w = [id |-> f.id, k |-> k]
      OBVIOUS
    <2>5. f.id \in Id /\ w \in Word /\ w.id = f.id /\ fifo' = [fifo EXCEPT ![Peer(c)] = Append(@, w)]
      BY <1>6, <2>1, <2>2, <2>3, <2>4, PushFacts
    <2>6. accum' = accum /\ stash' = stash /\ rx' = rx /\ seen' = seen
      BY <1>6 DEF PushWord
    <2>7. PICK d \in Core : d = Peer(c)
      BY PeerFacts
    <2>8. fifo'[d] = Append(fifo[d], w) /\ \A e \in Core : e # d => fifo'[e] = fifo[e]
      BY <2>5, <2>7 DEF TypeOK
    <2>9. WordsHeld(d)'
      <3>1. fifo[d] \in Seq(Word)
        BY DEF TypeOK
      <3>2. /\ Len(fifo'[d]) = Len(fifo[d]) + 1 /\ fifo'[d][Len(fifo[d]) + 1] = w
            /\ \A n \in 1..Len(fifo[d]) : fifo'[d][n] = fifo[d][n]
            /\ \A n \in 1..(Len(fifo[d]) + 1) : n \in 1..Len(fifo[d]) \/ n = Len(fifo[d]) + 1
        BY <2>5, <2>8, <3>1, AppendFacts
      <3>3. QED
        BY <2>5, <2>6, <3>2, <1>h, <1>i DEF WordsHeld
    <2>10. \A e \in Core : e # d => WordsHeld(e)'
      BY <2>6, <2>8, <1>h, <1>i DEF WordsHeld
    <2>11. QED
      BY <2>6, <2>9, <2>10, <1>g, <1>s, <1>r
  <1>7. ASSUME NEW c \in Core, PopWord(c) PROVE HeldInv'
    <2>1. PICK p : p = busy[c].port
      OBVIOUS
    <2>2. PICK a : a = Append(accum[c], Head(fifo[c]))
      OBVIOUS
    <2>3. PICK f : f = Decoded(a)
      OBVIOUS
    <2>4. /\ PopCommon(c, p, a)
          /\ \/ PopRejected(c, a)
             \/ PopMore(a)
             \/ PopFrame(c, a, f) /\ (PopStaged(c, p, f) \/ PopStashed(c, p, f) \/ PopDropped(c))
      BY <1>7, <2>1, <2>2, <2>3, PopFacts
    <2>5. fifo[c] # <<>>
      BY <2>4 DEF PopCommon
    <2>6. /\ a \in Seq(Word) /\ \A n \in 1..Len(a) : a[n].id \in Id
      BY <2>2, <2>5, GatherFacts
    <2>7. WordsHeld(c)'
      <3>1. fifo[c] \in Seq(Word)
        BY DEF TypeOK
      <3>2. /\ Len(fifo'[c]) = Len(fifo[c]) - 1
            /\ \A n \in 1..(Len(fifo[c]) - 1) : fifo'[c][n] = fifo[c][n + 1] /\ n + 1 \in 1..Len(fifo[c])
        BY <2>4, <2>5, <3>1, TailFacts DEF PopCommon
      <3>3. \A n \in 1..Len(fifo'[c]) : fifo'[c][n].id \in Id'
        BY <3>2, <1>h, <1>i DEF WordsHeld
      <3>4. accum'[c] = <<>> \/ accum'[c] = a
        BY <2>4 DEF PopCommon
      <3>5. \A n \in 1..Len(accum'[c]) : accum'[c][n].id \in Id'
        BY <2>6, <3>4, <1>i
      <3>6. QED
        BY <3>3, <3>5 DEF WordsHeld
    <2>8. \A d \in Core : d # c => WordsHeld(d)'
      BY <2>4, <1>h, <1>i DEF PopCommon, WordsHeld
    <2>9. (\A d \in Core : StashHeld(d)') /\ \A q \in Port : PortHeld(q)'
      <3>1. CASE UNCHANGED <<stash, rx, seen>>
        BY <3>1, <1>s, <1>r
      <3>2. CASE PopFrame(c, a, f) /\ PopStaged(c, p, f)
        <4>1. f \in RxFrame /\ f.id \in Id /\ Stage(p, f) /\ p \in Port /\ stash' = stash
          BY <2>4, <3>2 DEF PopCommon, PopFrame, PopStaged
        <4>2. QED
          BY <4>1, <1>i, <1>s, StageHeld
      <3>3. CASE PopFrame(c, a, f) /\ PopStashed(c, p, f)
        <4>1. /\ f.id \in Id /\ rx' = rx /\ seen' = seen
              /\ \A d \in Core, q \in Role : stash'[d][q] = f \/ stash'[d][q] = stash[d][q]
          BY <3>3 DEF PopFrame, PopStashed
        <4>2. \A d \in Core : StashHeld(d)'
          BY <4>1, <1>h, <1>i DEF StashHeld
        <4>3. QED
          BY <4>1, <4>2, <1>r
      <3>4. QED
        BY <2>4, <3>1, <3>2, <3>3 DEF PopRejected, PopMore, PopDropped
    <2>10. QED
      BY <2>7, <2>8, <2>9, <1>g
  <1>8. QED
    BY ZenonT(60), <1>1, <1>2, <1>3, <1>4, <1>5, <1>6, <1>7
       DEF Next, PortStep, CoreStep, vars, BeginSend, PollSendSelf, PollSendOversize, PollSend,
           CancelSend, SendPending, PopNone, DeadlineExpired

-----------------------------------------------------------------------------
(* The wire.                                                               *)

\* All frames that arrive at a core come from the one role that crosses.
LEMMA OneSender ==
  ASSUME TypeOK, OfferedInv, NEW c \in Core, NEW i \in Id, NEW j \in Id, Arrives(c, i), Arrives(c, j)
  PROVE  offered[i].from = offered[j].from
  <1>1. PICK f : f = <<offered[i].from, offered[i].to>>
    OBVIOUS
  <1>2. PICK g : g = <<offered[j].from, offered[j].to>>
    OBVIOUS
  <1>3. f \in site.flow /\ g \in site.flow /\ Crosses(f) /\ Crosses(g)
    BY <1>1, <1>2 DEF OfferedInv, Arrives
  <1>4. Rp2wRoleCore(f[1]) = Rp2wRoleCore(g[1])
    BY <1>1, <1>2 DEF Arrives
  <1>5. f[1] = g[1]
    BY <1>3, <1>4, FifoAssumption DEF TypeOK
  <1>6. QED
    BY <1>1, <1>2, <1>5

\* The frame that a port pushes arrives at the other core.
LEMMA PendingArrives ==
  ASSUME TypeOK, OfferedInv, SendInv, NEW p \in Port, pending[p] # None, NEW c \in Core, HostOf(p) = Peer(c)
  PROVE  /\ outgoing[p] # None /\ outgoing[p].id \in Id /\ offered[outgoing[p].id] = outgoing[p]
         /\ outgoing[p].from = RoleOf(p) /\ pending[p].frame = outgoing[p]
         /\ Arrives(c, outgoing[p].id)
  <1>1. /\ outgoing[p] # None /\ outgoing[p].id \in Id /\ offered[outgoing[p].id] = outgoing[p]
        /\ outgoing[p].from = RoleOf(p) /\ pending[p].frame = outgoing[p]
        /\ Rp2wRoleCore(outgoing[p].to) # HostOf(p)
    BY DEF SendInv
  <1>2. HostOf(p) = Rp2wRoleCore(RoleOf(p))
    BY PortFacts
  <1>3. QED
    BY <1>1, <1>2 DEF Arrives, Crosses

LEMMA OnePending ==
  ASSUME TypeOK, OfferedInv, SendInv, NEW c \in Core,
         NEW p \in Port, pending[p] # None, HostOf(p) = Peer(c),
         NEW q \in Port, pending[q] # None, HostOf(q) = Peer(c)
  PROVE  p = q
  <1>1. /\ outgoing[p] # None /\ outgoing[p].id \in Id /\ offered[outgoing[p].id] = outgoing[p]
        /\ outgoing[p].from = RoleOf(p) /\ Arrives(c, outgoing[p].id)
    BY PendingArrives
  <1>2. /\ outgoing[q] # None /\ outgoing[q].id \in Id /\ offered[outgoing[q].id] = outgoing[q]
        /\ outgoing[q].from = RoleOf(q) /\ Arrives(c, outgoing[q].id)
    BY PendingArrives
  <1>3. offered[outgoing[p].id].from = offered[outgoing[q].id].from
    BY <1>1, <1>2, OneSender
  <1>4. QED
    BY <1>1, <1>2, <1>3 DEF SendInv

\* Two frames that are being sent are two frames.
LEMMA OneOutgoing ==
  ASSUME TypeOK, SendInv, NEW p \in Port, NEW q \in Port, outgoing[p] # None, outgoing[q] # None,
         outgoing[p].id = outgoing[q].id
  PROVE  p = q
  BY SMTT(40) DEF SendInv

\* A core that cut a frame off has done so for good.
LEMMA CutKept ==
  ASSUME TypeOK, [Next]_vars, NEW c \in Core, ~cut'[c]
  PROVE  ~cut[c]
  <1>1. ASSUME NEW p \in Port, CancelSend(p) PROVE ~cut[c]
    BY <1>1 DEF CancelSend, TypeOK
  <1>2. CASE cut' = cut
    BY <1>2
  <1>3. QED
    BY ZenonT(60), <1>1, <1>2 DEF Next, PortStep, CoreStep, vars, BeginSend, PollSendSelf, PollSendOversize, PollSendLocal, PollSend, CancelSend,
           PollRecvRequeued, PollRecvStash, PollRecvLoop, Requeue, PushWord, SendPending, PopWord, PopNone,
           DeadlineExpired

\* While no word moves, the wire is as it was.
LEMMA WireKept ==
  ASSUME TypeOK, HeldInv, Id \subseteq Id', \A i \in Id : offered'[i] = offered[i],
         NEW c \in Core, fifo'[c] = fifo[c], accum'[c] = accum[c]
  PROVE  /\ WireInv(c) => WireInv(c)'
         /\ Quiet(c)' = Quiet(c) /\ LastWord(c)' = LastWord(c)
         /\ Between(c)' = Between(c)
  <1>1. Quiet(c)' = Quiet(c) /\ LastWord(c)' = LastWord(c)
    BY DEF Quiet, LastWord
  <1>2. \A i \in 1..Len(fifo[c]) : offered'[fifo[c][i].id] = offered[fifo[c][i].id]
    BY DEF HeldInv
  <1>3. \A i \in 1..Len(accum[c]) : offered'[accum[c][i].id] = offered[accum[c][i].id]
    BY DEF HeldInv
  <1>4. Between(c)' = Between(c)
    <2>1. CASE Quiet(c)
      BY <1>1, <2>1 DEF Between
    <2>2. CASE ~Quiet(c)
      <3>1. fifo[c] \in Seq(Word) /\ accum[c] \in Seq(Word)
        BY DEF TypeOK
      <3>2. offered'[LastWord(c).id] = offered[LastWord(c).id]
        BY <1>2, <1>3, <2>2, <3>1 DEF Quiet, LastWord
      <3>3. Ends(LastWord(c))' = Ends(LastWord(c))
        BY <1>1, <3>2 DEF Ends, TotalWords
      <3>4. QED
        BY <1>1, <2>2, <3>3 DEF Between
    <2>3. QED
      BY <2>1, <2>2
  <1>5. ASSUME WireInv(c) PROVE WireInv(c)'
    <2>1. \A i \in 1..Len(accum[c]) :
            /\ accum[c][i].k = i /\ accum[c][i].id = accum[c][1].id
            /\ i < TotalWords(offered'[accum[c][1].id])
            /\ Crosses(<<offered'[accum[c][i].id].from, offered'[accum[c][i].id].to>>)
            /\ Rp2wRoleCore(offered'[accum[c][i].id].from) = Peer(c)
      BY <1>3, <1>5 DEF WireInv, Arrives
    <2>2. \A i \in 1..Len(fifo[c]) :
            /\ fifo[c][i].k \in 1..TotalWords(offered'[fifo[c][i].id])
            /\ Crosses(<<offered'[fifo[c][i].id].from, offered'[fifo[c][i].id].to>>)
            /\ Rp2wRoleCore(offered'[fifo[c][i].id].from) = Peer(c)
      BY <1>2, <1>5 DEF WireInv, Arrives
    <2>3. \A i \in 1..Len(fifo[c]) : Ends(fifo[c][i])' = Ends(fifo[c][i])
      BY <1>2 DEF Ends, TotalWords
    <2>4. QED
      BY <1>5, <2>1, <2>2, <2>3 DEF WireInv, Arrives, Crosses, TotalWords, Follows, Ends
  <1>6. QED
    BY <1>1, <1>4, <1>5

\* A push onto the wire: the word, and the frame it is of.
PushPlaced(c, p, f, k, w) ==
  /\ p \in Port /\ HostOf(p) = Peer(c) /\ pending[p] # None /\ outgoing[p] = f /\ pending[p].next = k
  /\ f \in Frame /\ f.id \in Id /\ offered[f.id] = f /\ f.from = RoleOf(p) /\ k \in 1..TotalWords(f)
  /\ w \in Word /\ w.id = f.id /\ w.k = k
  /\ Len(fifo[c]) < 4 /\ fifo'[c] = Append(fifo[c], w)
  /\ \A d \in Core : d # c => fifo'[d] = fifo[d]
  /\ UNCHANGED <<site, accum, stash, rx, fault, offered, got, seen, cut>>
  /\ Arrives(c, f.id)
  /\ IF Between(c) THEN k = 1 ELSE k = LastWord(c).k + 1 /\ f.id = LastWord(c).id

\* More words to come, or the last one.
PushEffect(c, p, f, k) ==
  \/ /\ k < TotalWords(f)
     /\ \A q \in Port : pending'[q] = IF q = p THEN [frame |-> f, next |-> k + 1] ELSE pending[q]
     /\ UNCHANGED <<outgoing, sent>>
  \/ /\ k = TotalWords(f)
     /\ \A q \in Port : pending'[q] = IF q = p THEN None ELSE pending[q]
     /\ \A q \in Port : outgoing'[q] = IF q = p THEN None ELSE outgoing[q]
     /\ sent'[Peer(c)] = Append(sent[Peer(c)], f.id)
     /\ sent' = [sent EXCEPT ![Peer(c)] = Append(sent[Peer(c)], f.id)]

LEMMA PushOnWire ==
  ASSUME TypeOK, OfferedInv, SendInv, BusyInv, NEW c \in Core, PushWord(Peer(c)),
         PushInv(c), NEW p, p = busy[Peer(c)].port,
         NEW f, f = pending[p].frame, NEW k, k = pending[p].next, NEW w, w = [id |-> f.id, k |-> k]
  PROVE  PushPlaced(c, p, f, k, w) /\ PushEffect(c, p, f, k)
  <1>1. PICK e \in Core : e = Peer(c) /\ Peer(e) = c
    BY PeerFacts
  <1>2. /\ p \in Port /\ HostOf(p) = e /\ pending[p] # None /\ pending[p] \in TxState
        /\ f \in Frame /\ f = outgoing[p] /\ f.id \in Id /\ f = offered[f.id] /\ f.from = RoleOf(p)
        /\ k \in 1..TotalWords(f) /\ k \in Nat /\ Rp2wRoleCore(f.to) # e
        /\ w \in Word /\ w.id = f.id /\ w.k = k
        /\ Len(fifo[Peer(e)]) < FifoDepth
        /\ fifo' = [fifo EXCEPT ![Peer(e)] = Append(@, w)]
        /\ \/ /\ k < TotalWords(f)
              /\ pending' = [pending EXCEPT ![p] = [frame |-> f, next |-> k + 1]]
              /\ UNCHANGED <<busy, outgoing, sent>>
           \/ /\ k = TotalWords(f)
              /\ pending' = [pending EXCEPT ![p] = None]
              /\ outgoing' = [outgoing EXCEPT ![p] = None]
              /\ busy' = [busy EXCEPT ![e] = None]
              /\ sent' = [sent EXCEPT ![e] = Append(@, f.id)]
    BY SMTT(40), <1>1, PushFacts
  <1>3. Len(fifo[c]) < 4
    <2>1. fifo[c] \in Seq(Word)
      BY DEF TypeOK
    <2>2. FifoDepth \in 1..4
      BY SMTT(40), FifoAssumption DEF SIO_FRAME_HEADER_WORDS
    <2>3. QED
      BY <1>1, <1>2, <2>1, <2>2
  <1>4. fifo'[c] = Append(fifo[c], w) /\ \A d \in Core : d # c => fifo'[d] = fifo[d]
    BY <1>1, <1>2 DEF TypeOK
  <1>5. UNCHANGED <<site, accum, stash, rx, fault, offered, got, seen, cut>>
    BY DEF PushWord
  <1>6. Arrives(c, f.id)
    BY <1>1, <1>2, PendingArrives
  <1>7. IF Between(c) THEN k = 1 ELSE k = LastWord(c).k + 1 /\ f.id = LastWord(c).id
    BY ZenonT(60), <1>1, <1>2 DEF PushInv
  <1>8. PushPlaced(c, p, f, k, w)
    BY <1>1, <1>2, <1>3, <1>4, <1>5, <1>6, <1>7 DEF PushPlaced
  <1>9. PushEffect(c, p, f, k)
    <2>1. CASE /\ k < TotalWords(f)
               /\ pending' = [pending EXCEPT ![p] = [frame |-> f, next |-> k + 1]]
               /\ UNCHANGED <<busy, outgoing, sent>>
      BY SMTT(40), <1>2, <2>1 DEF PushEffect, TypeOK
    <2>2. CASE /\ k = TotalWords(f)
               /\ pending' = [pending EXCEPT ![p] = None]
               /\ outgoing' = [outgoing EXCEPT ![p] = None]
               /\ sent' = [sent EXCEPT ![e] = Append(@, f.id)]
      BY <1>1, <1>2, <2>2 DEF PushEffect, TypeOK
    <2>3. QED
      BY SMTT(40), <1>2, <2>1, <2>2
  <1>10. QED
    BY <1>8, <1>9

\* The words of one frame behind each other, and a younger frame behind the
\* end of an older one.
LEMMA PushBehind ==
  ASSUME TypeOK, OfferedInv, SendInv, HeldInv, NEW c \in Core, WireInv(c), OrderInv(c),
         NEW p, NEW f, NEW k, NEW w, PushPlaced(c, p, f, k, w)
  PROVE  /\ \A i \in Id : Arrives(c, i) => i <= f.id
         /\ \A i \in 1..Len(fifo[c]) : Ends(fifo[c][i]) =>
               k = Len(fifo[c]) + 1 - i /\ fifo[c][i].id < f.id
         /\ fifo[c] # <<>> => Follows(fifo[c][Len(fifo[c])], w)
  <1>0. /\ p \in Port /\ outgoing[p] = f /\ f \in Frame /\ f # None /\ f.id \in Id /\ offered[f.id] = f
        /\ f.from = RoleOf(p) /\ w.id = f.id /\ w.k = k /\ Arrives(c, f.id) /\ Len(fifo[c]) < 4
        /\ k \in 1..TotalWords(f)
    BY FrameFacts DEF PushPlaced
  <1>1. \A i \in Id : Arrives(c, i) => i <= f.id
    <2>1. SUFFICES ASSUME NEW i \in Id, Arrives(c, i) PROVE i <= f.id
      OBVIOUS
    <2>2. offered[i].from = offered[f.id].from
      BY <1>0, <2>1, OneSender
    <2>3. QED
      BY <1>0, <2>2 DEF SendInv
  <1>2. PICK s \in Seq(Word) : s = fifo[c]
    BY DEF TypeOK
  <1>3. PICK n \in Nat : n = Len(s) /\ n < 4
    BY <1>0, <1>2
  <1>4. ASSUME NEW i \in 1..n
        PROVE  /\ s[i].id \in Id /\ s[i].id \in Nat /\ Arrives(c, s[i].id) /\ s[i].k \in Nat
               /\ TotalWords(offered[s[i].id]) \in Nat /\ TotalWords(offered[s[i].id]) >= 4
               /\ Ends(s[i]) => s[i].id # f.id
    <2>1. s[i] \in Word /\ s[i].id \in Id /\ Arrives(c, s[i].id)
      BY <1>2, <1>3 DEF HeldInv, WireInv
    <2>2. offered[s[i].id] \in Frame
      BY <2>1 DEF TypeOK, Id
    <2>3. Ends(s[i]) => s[i].id # f.id
      BY <1>0, <1>2, <1>3 DEF OrderInv, NotYet
    <2>4. QED
      BY <2>1, <2>2, <2>3, FrameFacts DEF Word
  <1>5. n > 0 => IF Ends(s[n]) THEN k = 1 ELSE k = s[n].k + 1 /\ f.id = s[n].id
    <2>1. SUFFICES ASSUME n > 0 PROVE IF Ends(s[n]) THEN k = 1 ELSE k = s[n].k + 1 /\ f.id = s[n].id
      OBVIOUS
    <2>2. LastWord(c) = s[n] /\ ~Quiet(c)
      BY <1>2, <1>3, <2>1 DEF LastWord, Quiet
    <2>3. Between(c) <=> Ends(s[n])
      BY <2>2 DEF Between
    <2>4. QED
      BY <2>2, <2>3 DEF PushPlaced
  <1>6. f.id \in Nat
    BY <1>0, FrameFacts
  <1>7. ASSUME NEW i \in 1..n, Ends(s[i]) PROVE k = n + 1 - i /\ s[i].id < f.id
    <2>1. s[i].id < f.id
      BY <1>1, <1>4, <1>6, <1>7
    <2>2. CASE i = n
      BY <1>5, <1>7, <2>1, <2>2
    <2>3. CASE i < n
      <3>1. s[n].k = n - i
        BY <1>2, <1>3, <1>7, <2>3 DEF WireInv
      <3>2. ~Ends(s[n])
        BY <1>3, <1>4, <3>1 DEF Ends
      <3>3. QED
        BY <1>3, <1>5, <2>1, <2>3, <3>1, <3>2
    <2>4. QED
      BY <2>2, <2>3
  <1>8. n > 0 => Follows(s[n], w)
    BY <1>0, <1>5, <1>7 DEF Follows
  <1>9. QED
    BY <1>1, <1>2, <1>3, <1>7, <1>8

\* The wire after a step that offers nothing.
LEMMA SameWire ==
  ASSUME offered' = offered, NEW c \in Core,
         \A i \in 1..Len(accum'[c]) :
           /\ accum'[c][i].k = i /\ accum'[c][i].id = accum'[c][1].id
           /\ i < TotalWords(offered[accum'[c][1].id])
           /\ Arrives(c, accum'[c][i].id),
         fifo'[c] # <<>> =>
           IF accum'[c] = <<>> THEN fifo'[c][1].k = 1
           ELSE fifo'[c][1].k = Len(accum'[c]) + 1 /\ fifo'[c][1].id = accum'[c][1].id,
         \A i \in 1..Len(fifo'[c]) :
           fifo'[c][i].k \in 1..TotalWords(offered[fifo'[c][i].id]) /\ Arrives(c, fifo'[c][i].id),
         \A i, j \in 1..Len(fifo'[c]) :
           /\ j = i + 1 => Follows(fifo'[c][i], fifo'[c][j])
           /\ i < j /\ Ends(fifo'[c][i]) => fifo'[c][j].k = j - i /\ fifo'[c][i].id < fifo'[c][j].id
  PROVE  WireInv(c)'
  BY DEF WireInv, Arrives, Crosses, Ends, TotalWords, Follows

LEMMA PushWire ==
  ASSUME TypeOK, OfferedInv, SendInv, HeldInv, NEW c \in Core, WireInv(c), OrderInv(c),
         NEW p, NEW f, NEW k, NEW w, PushPlaced(c, p, f, k, w)
  PROVE  WireInv(c)'
  <1>0. /\ f \in Frame /\ f.id \in Id /\ offered[f.id] = f /\ w.id = f.id /\ w.k = k /\ w \in Word
        /\ k \in 1..TotalWords(f) /\ Arrives(c, f.id)
        /\ offered' = offered /\ accum' = accum /\ fifo'[c] = Append(fifo[c], w)
    BY DEF PushPlaced
  <1>1. PICK s \in Seq(Word) : s = fifo[c]
    BY DEF TypeOK
  <1>2. PICK n \in Nat : n = Len(s)
    OBVIOUS
  <1>3. PICK t : t = fifo'[c]
    OBVIOUS
  <1>4. /\ Len(t) = n + 1 /\ t[n + 1] = w /\ \A i \in 1..n : t[i] = s[i]
        /\ \A i \in 1..(n + 1) : i \in 1..n \/ i = n + 1
    BY <1>0, <1>1, <1>2, <1>3, AppendFacts
  <1>5. /\ \A i \in 1..n : Ends(s[i]) => k = n + 1 - i /\ s[i].id < f.id
        /\ n > 0 => Follows(s[n], w)
    BY <1>1, <1>2, PushBehind
  <1>6. \A i \in 1..Len(accum'[c]) :
       /\ accum'[c][i].k = i /\ accum'[c][i].id = accum'[c][1].id
       /\ i < TotalWords(offered[accum'[c][1].id])
       /\ Arrives(c, accum'[c][i].id)
    BY <1>0 DEF WireInv
  <1>7. IF accum'[c] = <<>> THEN t[1].k = 1
        ELSE t[1].k = Len(accum'[c]) + 1 /\ t[1].id = accum'[c][1].id
    <2>1. CASE n > 0
      BY <1>0, <1>1, <1>2, <1>4, <2>1 DEF WireInv
    <2>2. CASE n = 0 /\ accum[c] = <<>>
      <3>1. Between(c)
        BY <1>1, <1>2, <2>2, EmptySeq DEF Between, Quiet
      <3>2. QED
        BY <1>0, <1>4, <2>2, <3>1 DEF PushPlaced
    <2>3. CASE n = 0 /\ accum[c] # <<>>
      <3>1. PICK a \in Seq(Word) : a = accum[c]
        BY DEF TypeOK
      <3>2. PICK m \in Nat : m = Len(a) /\ m > 0
        BY <2>3, <3>1
      <3>3. LastWord(c) = a[m] /\ ~Quiet(c)
        BY <1>1, <1>2, <2>3, <3>1, <3>2, EmptySeq DEF LastWord, Quiet
      <3>4. a[m].k = m /\ a[m].id = a[1].id /\ m < TotalWords(offered[a[1].id])
        BY <3>1, <3>2 DEF WireInv
      <3>5. a[1].id \in Id /\ offered[a[1].id] \in Frame
        <4>1. a[1].id \in Id
          BY <3>1, <3>2 DEF HeldInv
        <4>2. QED
          BY <4>1 DEF TypeOK, Id
      <3>6. TotalWords(offered[a[1].id]) \in Nat
        BY <3>5, FrameFacts
      <3>7. ~Ends(a[m])
        BY <3>2, <3>4, <3>6 DEF Ends
      <3>8. k = m + 1 /\ f.id = a[1].id
        BY <3>3, <3>4, <3>7 DEF PushPlaced, Between
      <3>9. QED
        BY <1>0, <1>4, <2>3, <3>1, <3>2, <3>8
    <2>4. QED
      BY <1>2, <2>1, <2>2, <2>3
  <1>8. \A i \in 1..(n + 1) : t[i].k \in 1..TotalWords(offered[t[i].id]) /\ Arrives(c, t[i].id)
    BY ZenonT(60), <1>0, <1>1, <1>2, <1>4 DEF WireInv
  <1>9. ASSUME NEW i \in 1..(n + 1), NEW j \in 1..(n + 1)
        PROVE  /\ j = i + 1 => Follows(t[i], t[j])
               /\ i < j /\ Ends(t[i]) => t[j].k = j - i /\ t[i].id < t[j].id
    <2>1. CASE i \in 1..n /\ j \in 1..n
      BY ZenonT(60), <1>1, <1>2, <1>4, <2>1 DEF WireInv
    <2>2. CASE i \in 1..n /\ j = n + 1
      BY <1>0, <1>4, <1>5, <2>2
    <2>3. CASE i = n + 1
      BY <2>3
    <2>4. QED
      BY <1>4, <2>1, <2>2, <2>3
  <1>10. \A i, j \in 1..Len(fifo'[c]) :
           /\ j = i + 1 => Follows(fifo'[c][i], fifo'[c][j])
           /\ i < j /\ Ends(fifo'[c][i]) => fifo'[c][j].k = j - i /\ fifo'[c][i].id < fifo'[c][j].id
    BY <1>3, <1>4, <1>9
  <1>11. \A i \in 1..Len(fifo'[c]) :
           fifo'[c][i].k \in 1..TotalWords(offered[fifo'[c][i].id]) /\ Arrives(c, fifo'[c][i].id)
    BY <1>3, <1>4, <1>8
  <1>12. fifo'[c] # <<>> =>
           IF accum'[c] = <<>> THEN fifo'[c][1].k = 1
           ELSE fifo'[c][1].k = Len(accum'[c]) + 1 /\ fifo'[c][1].id = accum'[c][1].id
    BY <1>3, <1>7
  <1>13. QED
    BY <1>0, <1>6, <1>10, <1>11, <1>12, SameWire

\* After a push: the last word of the wire is the one pushed.
LEMMA PushLast ==
  ASSUME TypeOK, NEW c \in Core, NEW p, NEW f, NEW k, NEW w, PushPlaced(c, p, f, k, w)
  PROVE  /\ LastWord(c)' = w /\ ~Quiet(c)' /\ (Ends(w) <=> k = TotalWords(f))
         /\ Between(c)' <=> k = TotalWords(f)
  <1>1. /\ f.id \in Id /\ offered[f.id] = f /\ w.id = f.id /\ w.k = k /\ w \in Word
        /\ offered' = offered /\ fifo'[c] = Append(fifo[c], w)
    BY DEF PushPlaced
  <1>2. fifo[c] \in Seq(Word)
    BY DEF TypeOK
  <1>3. fifo'[c] # <<>> /\ fifo'[c][Len(fifo'[c])] = w
    BY <1>1, <1>2, AppendFacts
  <1>4. LastWord(c)' = w /\ ~Quiet(c)'
    BY <1>3 DEF LastWord, Quiet
  <1>5. Ends(w) <=> k = TotalWords(f)
    BY <1>1 DEF Ends
  <1>6. Ends(LastWord(c))' <=> k = TotalWords(f)
    BY <1>1, <1>4 DEF Ends, TotalWords
  <1>7. QED
    BY <1>4, <1>5, <1>6 DEF Between

LEMMA PushPush ==
  ASSUME TypeOK, OfferedInv, SendInv, NEW c \in Core,
         NEW p, NEW f, NEW k, NEW w, PushPlaced(c, p, f, k, w), PushEffect(c, p, f, k)
  PROVE  PushInv(c)'
  <1>1. /\ LastWord(c)' = w /\ (Between(c)' <=> k = TotalWords(f))
    BY PushLast
  <1>2. /\ p \in Port /\ HostOf(p) = Peer(c) /\ pending[p] # None /\ f \in Frame /\ f.id \in Id
        /\ w.id = f.id /\ w.k = k /\ site' = site /\ k \in 1..TotalWords(f)
    BY DEF PushPlaced
  <1>3. Port' = Port
    BY <1>2, SameSite
  <1>4. \A q \in Port : HostOf(q) = Peer(c) /\ pending[q] # None => q = p
    BY <1>2, OnePending
  <1>5. k \in Nat /\ TotalWords(f) \in Nat
    BY <1>2, FrameFacts
  <1>6. CASE k < TotalWords(f)
    <2>1. \A q \in Port : pending'[q] = IF q = p THEN [frame |-> f, next |-> k + 1] ELSE pending[q]
      BY <1>5, <1>6 DEF PushEffect
    <2>2. pending'[p].next = k + 1 /\ pending'[p].frame = f /\ pending'[p] # None
      <3>1. [frame |-> f, next |-> k + 1] \in TxState
        BY <1>2, <1>5 DEF TxState
      <3>2. QED
        BY <1>2, <2>1, <3>1, StateFacts
    <2>3. ~Between(c)'
      BY <1>1, <1>5, <1>6
    <2>4. \A q \in Port : HostOf(q) = Peer(c) /\ pending'[q] # None =>
            pending'[q].next = w.k + 1 /\ pending'[q].frame.id = w.id
      BY <1>2, <1>4, <2>1, <2>2
    <2>5. QED
      BY <1>1, <1>2, <1>3, <2>2, <2>3, <2>4 DEF PushInv
  <1>7. CASE k = TotalWords(f)
    <2>1. \A q \in Port : pending'[q] = IF q = p THEN None ELSE pending[q]
      BY <1>5, <1>7 DEF PushEffect
    <2>2. \A q \in Port : HostOf(q) = Peer(c) => pending'[q] = None
      BY <1>4, <2>1
    <2>3. QED
      BY <1>1, <1>3, <1>7, <2>2 DEF PushInv
  <1>8. QED
    BY <1>2, <1>5, <1>6, <1>7

LEMMA PushCount ==
  ASSUME TypeOK, OfferedInv, SendInv, HeldInv, NEW c \in Core, WireInv(c), OrderInv(c), CountInv(c),
         NEW p, NEW f, NEW k, NEW w, PushPlaced(c, p, f, k, w), PushEffect(c, p, f, k)
  PROVE  /\ CountInv(c)'
         /\ k = TotalWords(f) => Len(sent[Peer(c)]) = Len(got[c])
  <1>0. /\ f \in Frame /\ f.id \in Id /\ offered[f.id] = f /\ w.id = f.id /\ w.k = k /\ w \in Word
        /\ k \in 1..TotalWords(f) /\ Len(fifo[c]) < 4
        /\ offered' = offered /\ got' = got /\ fifo'[c] = Append(fifo[c], w)
    BY DEF PushPlaced
  <1>1. PICK s \in Seq(Word) : s = fifo[c]
    BY DEF TypeOK
  <1>2. PICK n \in Nat : n = Len(s) /\ n < 4
    BY <1>0, <1>1
  <1>3. PICK t : t = fifo'[c]
    OBVIOUS
  <1>4. /\ Len(t) = n + 1 /\ t[n + 1] = w /\ (\A i \in 1..n : t[i] = s[i])
        /\ \A i \in 1..(n + 1) : i \in 1..n \/ i = n + 1
    BY <1>0, <1>1, <1>2, <1>3, AppendFacts
  <1>5. \A i \in 1..n : Ends(s[i]) => k = n + 1 - i
    BY <1>1, <1>2, PushBehind
  <1>6. (Ends(w) <=> k = TotalWords(f)) /\ TotalWords(f) \in Nat /\ TotalWords(f) >= 4
    BY <1>0, PushLast, FrameFacts
  <1>7. PICK S \in Seq(Nat) : S = sent[Peer(c)]
    BY PeerFacts DEF TypeOK
  <1>8. PICK g \in Nat : g = Len(got[c])
    BY DEF TypeOK
  <1>9. /\ Len(S) = g + IF \E i \in 1..n : Ends(s[i]) THEN 1 ELSE 0
        /\ \A i \in 1..n : Ends(s[i]) => S[Len(S)] = s[i].id
    BY <1>1, <1>2, <1>7, <1>8 DEF CountInv
  <1>s. ASSUME NEW T, T = sent'[Peer(c)],
               Len(T) = g + IF \E i \in 1..Len(t) : Ends(t[i]) THEN 1 ELSE 0,
               \A i \in 1..Len(t) : Ends(t[i]) => T[Len(T)] = t[i].id
        PROVE  CountInv(c)'
    BY <1>0, <1>3, <1>8, <1>s DEF CountInv, Ends, TotalWords
  <1>10. CASE k < TotalWords(f)
    <2>1. sent' = sent
      BY <1>0, <1>6, <1>10 DEF PushEffect
    <2>2. ~Ends(w)
      BY <1>0, <1>6, <1>10
    <2>3. (\E i \in 1..Len(t) : Ends(t[i])) <=> (\E i \in 1..n : Ends(s[i]))
      <3>1. ASSUME NEW i \in 1..Len(t), Ends(t[i]) PROVE \E j \in 1..n : Ends(s[j])
        BY <1>4, <2>2, <3>1
      <3>2. ASSUME NEW i \in 1..n, Ends(s[i]) PROVE \E j \in 1..Len(t) : Ends(t[j])
        <4>1. i \in 1..Len(t) /\ t[i] = s[i]
          BY <1>4
        <4>2. QED
          BY <3>2, <4>1
      <3>3. QED
        BY <3>1, <3>2
    <2>4. \A i \in 1..Len(t) : Ends(t[i]) => S[Len(S)] = t[i].id
      BY <1>4, <1>9, <2>2
    <2>5. S = sent'[Peer(c)]
      BY <1>7, <2>1
    <2>6. CountInv(c)'
      BY <1>9, <2>3, <2>4, <2>5, <1>s
    <2>7. QED
      BY <1>0, <1>6, <1>10, <2>6
  <1>11. CASE k = TotalWords(f)
    <2>1. ~\E i \in 1..n : Ends(s[i])
      BY <1>2, <1>5, <1>6, <1>11
    <2>2. Len(S) = g
      BY <1>9, <2>1
    <2>3. PICK T : T = sent'[Peer(c)]
      OBVIOUS
    <2>4. T = Append(S, f.id)
      BY <1>6, <1>7, <1>11, <2>3 DEF PushEffect
    <2>5. Len(T) = g + 1 /\ T[Len(T)] = f.id
      BY <1>0, <2>2, <2>4, FrameFacts
    <2>6. \E i \in 1..Len(t) : Ends(t[i])
      <3>1. n + 1 \in 1..Len(t) /\ Ends(t[n + 1])
        BY <1>4, <1>6, <1>11
      <3>2. QED
        BY <3>1
    <2>7. \A i \in 1..Len(t) : Ends(t[i]) => t[i].id = f.id
      BY <1>0, <1>4, <2>1
    <2>8. CountInv(c)'
      BY <2>3, <2>5, <2>6, <2>7, <1>s
    <2>9. QED
      BY <1>7, <1>8, <2>2, <2>8
  <1>12. QED
    BY <1>0, <1>6, <1>10, <1>11

-----------------------------------------------------------------------------
(* The order of the frames.                                                *)

\* The order after a step that offers nothing, from its parts.
SeenBeforeStash(c, p, i) ==
  LET f == stash[c][RoleOf(p)]
  IN  f # None /\ FrameTargetsRxLane(f, p) /\ SameSender(i, f.id) => i < f.id

LEMMA OrderNext ==
  ASSUME TypeOK, site' = site, NEW c \in Core,
         NotYet(c)',
         \A p \in Port : HostOf(p) = c => \A n \in 1..Len(seen'[p]) :
           SeenBeforeStash(c, p, seen[p][n])' /\ OlderThanWire(c, seen[p][n])',
         \A r \in Role : stash'[c][r] # None => OlderThanWire(c, stash[c][r].id)'
  PROVE  OrderInv(c)'
  <1>1. Port' = Port
    BY SameSite
  <1>2. QED
    BY <1>1 DEF OrderInv, SeenBeforeStash

LEMMA PushOrder ==
  ASSUME TypeOK, OfferedInv, SendInv, HeldInv, NEW c \in Core, WireInv(c), OrderInv(c),
         NEW p, NEW f, NEW k, NEW w, PushPlaced(c, p, f, k, w), PushEffect(c, p, f, k)
  PROVE  OrderInv(c)'
  <1>0. /\ f \in Frame /\ f # None /\ f.id \in Id /\ offered[f.id] = f /\ w.id = f.id /\ w.k = k /\ w \in Word
        /\ p \in Port /\ outgoing[p] = f /\ f.from = RoleOf(p) /\ k \in 1..TotalWords(f)
        /\ UNCHANGED <<site, offered, accum, stash, seen>> /\ fifo'[c] = Append(fifo[c], w)
    BY FrameFacts DEF PushPlaced
  <1>1. PICK s \in Seq(Word) : s = fifo[c]
    BY DEF TypeOK
  <1>2. PICK n \in Nat : n = Len(s)
    OBVIOUS
  <1>3. PICK t : t = fifo'[c]
    OBVIOUS
  <1>4. /\ Len(t) = n + 1 /\ t[n + 1] = w /\ (\A i \in 1..n : t[i] = s[i])
        /\ \A i \in 1..(n + 1) : i \in 1..n \/ i = n + 1
    BY <1>0, <1>1, <1>2, <1>3, AppendFacts
  <1>5. Ends(w) <=> k = TotalWords(f)
    BY PushLast
  <1>6. Port' = Port
    BY <1>0, SameSite
  <1>7. \A q \in Port : outgoing'[q] # None => outgoing'[q] = outgoing[q]
    BY DEF PushEffect
  <1>8. ASSUME NEW q \in Port, outgoing'[q] # None PROVE Ends(w) => w.id # outgoing'[q].id
    <2>1. SUFFICES ASSUME k = TotalWords(f), f.id = outgoing'[q].id PROVE FALSE
      BY <1>0, <1>5
    <2>2. outgoing'[q] = outgoing[q] /\ q # p
      <3>1. TotalWords(f) \in Nat
        BY <1>0, FrameFacts
      <3>2. QED
        BY <1>8, <2>1, <3>1 DEF PushEffect
    <2>3. QED
      BY <1>0, <1>8, <2>1, <2>2, OneOutgoing
  <1>9. NotYet(c)'
    <2>1. \A q \in Port : outgoing'[q] # None =>
            /\ \A r \in Role : stash'[c][r] # None => stash'[c][r].id # outgoing'[q].id
            /\ \A x \in Port : HostOf(x) = c =>
                 \A m \in 1..Len(seen'[x]) : seen'[x][m] # outgoing'[q].id
      BY <1>0, <1>7 DEF OrderInv, NotYet
    <2>2. \A q \in Port : outgoing'[q] # None =>
            \A i \in 1..Len(fifo'[c]) : Ends(fifo'[c][i]) => fifo'[c][i].id # outgoing'[q].id
      <3>1. \A q \in Port : outgoing'[q] # None =>
              \A i \in 1..n : Ends(s[i]) => s[i].id # outgoing'[q].id
        BY <1>1, <1>2, <1>7 DEF OrderInv, NotYet
      <3>2. QED
        BY <1>3, <1>4, <1>8, <3>1
    <2>3. QED
      BY <1>0, <1>6, <2>1, <2>2 DEF NotYet, Ends, TotalWords
  <1>10. ASSUME NEW i \in Id, OlderThanWire(c, i), i # f.id PROVE \A x : x = i => OlderThanWire(c, x)'
    <2>1. offered[i].from = RoleOf(p) => i <= f.id
      BY <1>0 DEF SendInv
    <2>2. i \in Nat /\ f.id \in Nat
      BY <1>0, FrameFacts DEF Id
    <2>3. SameSender(i, w.id) => i < w.id
      BY <1>0, <1>10, <2>1, <2>2 DEF SameSender
    <2>4. \A m \in 1..n : SameSender(i, s[m].id) => i < s[m].id
      BY <1>1, <1>2, <1>10 DEF OlderThanWire
    <2>5. \A m \in 1..Len(t) : SameSender(i, t[m].id) => i < t[m].id
      BY <1>4, <2>3, <2>4
    <2>6. \A m \in 1..Len(accum'[c]) : SameSender(i, accum'[c][m].id) => i < accum'[c][m].id
      BY <1>0, <1>10 DEF OlderThanWire
    <2>7. QED
      BY <1>0, <1>3, <2>5, <2>6 DEF OlderThanWire, SameSender
  <1>11. ASSUME NEW x \in Port, HostOf(x) = c, NEW m \in 1..Len(seen'[x])
         PROVE  SeenBeforeStash(c, x, seen[x][m])' /\ OlderThanWire(c, seen[x][m])'
    <2>1. m \in 1..Len(seen[x]) /\ seen'[x][m] = seen[x][m]
      BY <1>0, <1>11
    <2>2. seen[x][m] \in Id /\ OlderThanWire(c, seen[x][m]) /\ seen[x][m] # f.id
      BY <1>0, <1>11, <2>1 DEF HeldInv, OrderInv, NotYet
    <2>3. OlderThanWire(c, seen[x][m])'
      BY <1>10, <2>1, <2>2
    <2>4. SeenBeforeStash(c, x, seen[x][m])'
      BY <1>0, <1>11, <2>1 DEF OrderInv, SeenBeforeStash, SameSender, FrameTargetsRxLane
    <2>5. QED
      BY <2>3, <2>4
  <1>12. ASSUME NEW r \in Role, stash'[c][r] # None PROVE OlderThanWire(c, stash[c][r].id)'
    <2>1. stash[c][r].id \in Id /\ OlderThanWire(c, stash[c][r].id) /\ stash[c][r].id # f.id
      BY <1>0, <1>12 DEF HeldInv, OrderInv, NotYet
    <2>2. stash'[c][r].id = stash[c][r].id
      BY <1>0
    <2>3. QED
      BY <1>10, <2>1, <2>2
  <1>13. QED
    BY <1>0, <1>9, <1>11, <1>12, OrderNext

-----------------------------------------------------------------------------
(* A word popped.                                                          *)

\* The words gathered are the beginning of one frame: none is refused, and at
\* its last word the frame is read as it was sent.
Gathered(a, f, h) ==
  /\ h \in Word /\ h.id \in Id /\ Len(a) = h.k /\ a \in Seq(Word)
  /\ \A n \in 1..Len(a) : a[n].k = n /\ a[n].id = h.id
  /\ ~Rejected(a)
  /\ Complete(a) <=> Ends(h)
  /\ ~Complete(a) => Len(a) < TotalWords(offered[h.id])
  /\ Complete(a) => /\ f.id = h.id /\ f.whole /\ f.from = offered[h.id].from
                    /\ f.to = offered[h.id].to /\ f.lane = offered[h.id].lane

LEMMA GatheredFrame ==
  ASSUME TypeOK, HeldInv, NEW c \in Core, WireInv(c), fifo[c] # <<>>,
         NEW a, a = Append(accum[c], Head(fifo[c])), NEW f, f = Decoded(a),
         NEW h, h = fifo[c][1]
  PROVE  Gathered(a, f, h)
  <1>1. /\ Head(fifo[c]) \in Word
        /\ a \in Seq(Word) /\ a # <<>> /\ Len(a) = Len(accum[c]) + 1 /\ Len(accum[c]) \in Nat
        /\ a[Len(a)] = Head(fifo[c]) /\ \A n \in 1..Len(accum[c]) : a[n] = accum[c][n]
        /\ \A n \in 1..Len(a) : a[n].id \in Id /\ a[n] \in Word
    BY GatherFacts
  <1>2. fifo[c] \in Seq(Word) /\ accum[c] \in Seq(Word)
    BY DEF TypeOK
  <1>3. Head(fifo[c]) = h /\ Len(fifo[c]) > 0 /\ Len(fifo[c]) \in Nat
    BY <1>2, TailFacts
  <1>4. PICK m \in Nat : m = Len(accum[c])
    BY <1>1
  <1>5. h.id \in Id /\ offered[h.id] \in Frame
    <2>1. h.id \in Id
      BY <1>1, <1>3, <1>4
    <2>2. QED
      BY <2>1 DEF TypeOK, Id
  <1>6. PICK T \in Nat : T = TotalWords(offered[h.id]) /\ T >= 4 /\ T = 4 + offered[h.id].words
    BY <1>5, FrameFacts
  <1>7. h.k \in 1..T
    <2>1. 1 \in 1..Len(fifo[c])
      BY <1>3
    <2>2. QED
      BY <1>6, <2>1 DEF WireInv
  <1>8. h.k = m + 1 /\ \A n \in 1..m : accum[c][n].k = n /\ accum[c][n].id = h.id
    <2>1. CASE accum[c] = <<>>
      BY <1>4, <2>1 DEF WireInv
    <2>2. CASE accum[c] # <<>>
      BY <1>4, <2>2 DEF WireInv
    <2>3. QED
      BY <2>1, <2>2
  <1>9. \A n \in 1..Len(a) : n \in 1..m \/ n = m + 1
    BY <1>1, <1>4
  <1>10. Len(a) = m + 1 /\ \A n \in 1..Len(a) : a[n].k = n /\ a[n].id = h.id
    BY <1>1, <1>3, <1>4, <1>8, <1>9
  <1>11. ~Rejected(a)
    BY <1>10 DEF Rejected, SIO_FRAME_HEADER_WORDS
  <1>12. Len(a) >= 4 => Expected(a) = T
    BY <1>6, <1>10 DEF Expected, SIO_FRAME_HEADER_WORDS
  <1>13. Complete(a) <=> Len(a) = T
    <2>1. Len(a) <= T /\ Len(a) \in Nat
      BY <1>7, <1>8, <1>10
    <2>2. QED
      BY <1>6, <1>12, <2>1 DEF Complete, SIO_FRAME_HEADER_WORDS
  <1>14. Ends(h) <=> h.k = T
    BY <1>6 DEF Ends
  <1>15. ASSUME Complete(a)
         PROVE  /\ f.id = h.id /\ f.whole /\ f.from = offered[h.id].from
                /\ f.to = offered[h.id].to /\ f.lane = offered[h.id].lane
    <2>1. Len(a) >= 4 /\ Len(a) \in Nat
      BY <1>6, <1>10, <1>13, <1>15
    <2>2. a[3].id = h.id /\ a[3].k = 3 /\ a[4].id = h.id /\ a[4].k = 4
      BY <1>10, <2>1
    <2>3. \A i \in 1..Len(a) : a[i] = [id |-> a[3].id, k |-> i]
      BY <1>1, <1>10, <2>2 DEF Word
    <2>4. /\ f.id = h.id /\ f.from = offered[h.id].from
          /\ f.to = offered[h.id].to /\ f.lane = offered[h.id].lane
      <3>1. /\ f.id = a[3].id /\ f.from = offered[a[3].id].from
            /\ f.to = IF a[3].k = 1 THEN MAGIC_AS_ROLE ELSE offered[a[3].id].to
            /\ f.lane = IF a[4].k = 1 THEN MAGIC_AS_LANE ELSE offered[a[4].id].lane
        BY Zenon DEF Decoded
      <3>2. a[3].k # 1 /\ a[4].k # 1
        <4>1. 3 # 1 /\ 4 # 1
          OBVIOUS
        <4>2. QED
          BY <2>2, <4>1, Zenon
      <3>3. f.to = offered[a[3].id].to /\ f.lane = offered[a[4].id].lane
        BY <3>1, <3>2, Zenon
      <3>4. QED
        BY <2>2, <3>1, <3>3, Zenon
    <2>5. f.whole = (\A i \in 1..Len(a) : a[i] = [id |-> a[3].id, k |-> i])
      BY Zenon DEF Decoded
    <2>6. QED
      BY <2>3, <2>4, <2>5
  <1>16. ~Complete(a) => Len(a) < T
    BY <1>6, <1>7, <1>8, <1>10, <1>13
  <1>17. QED
    BY <1>1, <1>3, <1>5, <1>6, <1>8, <1>10, <1>11, <1>13, <1>14, <1>15, <1>16 DEF Gathered

\* A pop that finds the wire in order.
Popped(c, p, a, h, f) ==
  /\ PopCommon(c, p, a)
  /\ h = fifo[c][1] /\ h \in Word /\ h.id \in Id /\ Len(a) = h.k /\ a \in Seq(Word)
  /\ \A n \in 1..Len(a) : a[n].k = n /\ a[n].id = h.id
  /\ IF Ends(h) THEN accum'[c] = <<>>
     ELSE accum'[c] = a /\ Len(a) < TotalWords(offered[h.id])

PoppedFrame(c, p, h, f) ==
  /\ Ends(h) /\ f \in RxFrame /\ f.id = h.id /\ f.whole
  /\ f.to = offered[h.id].to /\ f.lane = offered[h.id].lane
  /\ got' = [got EXCEPT ![c] = Append(@, f.id)]
  /\ PopStaged(c, p, f) \/ PopStashed(c, p, f) \/ PopDropped(c)

LEMMA PopOnWire ==
  ASSUME TypeOK, BusyInv, HeldInv, NEW c \in Core, WireInv(c), PopWord(c), NEW p, p = busy[c].port,
         NEW a, a = Append(accum[c], Head(fifo[c])), NEW f, f = Decoded(a), NEW h, h = fifo[c][1]
  PROVE  /\ Popped(c, p, a, h, f)
         /\ (~Ends(h) /\ PopMore(a)) \/ PoppedFrame(c, p, h, f)
  <1>1. /\ PopCommon(c, p, a)
        /\ \/ PopRejected(c, a)
           \/ PopMore(a)
           \/ PopFrame(c, a, f) /\ (PopStaged(c, p, f) \/ PopStashed(c, p, f) \/ PopDropped(c))
    BY PopFacts
  <1>2. fifo[c] # <<>>
    BY <1>1 DEF PopCommon
  <1>g. Gathered(a, f, h)
    BY <1>2, GatheredFrame
  <1>3. /\ h \in Word /\ h.id \in Id /\ Len(a) = h.k /\ a \in Seq(Word)
        /\ \A n \in 1..Len(a) : a[n].k = n /\ a[n].id = h.id
        /\ ~Rejected(a)
        /\ Complete(a) <=> Ends(h)
        /\ ~Complete(a) => Len(a) < TotalWords(offered[h.id])
        /\ Complete(a) => /\ f.id = h.id /\ f.whole /\ f.from = offered[h.id].from
                          /\ f.to = offered[h.id].to /\ f.lane = offered[h.id].lane
    BY <1>g DEF Gathered
  <1>4. Popped(c, p, a, h, f)
    BY <1>1, <1>3 DEF Popped, PopCommon
  <1>5. ~PopRejected(c, a)
    BY <1>3 DEF PopRejected
  <1>6. PopMore(a) => ~Ends(h)
    BY <1>3 DEF PopMore
  <1>7. ASSUME PopFrame(c, a, f), PopStaged(c, p, f) \/ PopStashed(c, p, f) \/ PopDropped(c)
        PROVE  PoppedFrame(c, p, h, f)
    BY <1>3, <1>7 DEF PopFrame, PoppedFrame
  <1>8. QED
    BY <1>1, <1>4, <1>5, <1>6, <1>7

LEMMA WordEq ==
  ASSUME NEW v \in Word, NEW w \in Word, v.id = w.id, v.k = w.k
  PROVE  v = w
  BY DEF Word

LEMMA PopWire ==
  ASSUME TypeOK, HeldInv, NEW c \in Core, WireInv(c),
         NEW p, NEW a, NEW h, NEW f, Popped(c, p, a, h, f)
  PROVE  /\ WireInv(c)'
         /\ ~Between(c) => ~Between(c)' /\ LastWord(c)' = LastWord(c)
         /\ Between(c) => Between(c)'
  <1>0. /\ fifo[c] # <<>> /\ fifo'[c] = Tail(fifo[c]) /\ offered' = offered
        /\ h = fifo[c][1] /\ h \in Word /\ h.id \in Id /\ Len(a) = h.k /\ a \in Seq(Word)
        /\ \A n \in 1..Len(a) : a[n].k = n /\ a[n].id = h.id
        /\ IF Ends(h) THEN accum'[c] = <<>>
           ELSE accum'[c] = a /\ Len(a) < TotalWords(offered[h.id])
    BY DEF Popped, PopCommon
  <1>1. PICK s \in Seq(Word) : s = fifo[c]
    BY DEF TypeOK
  <1>2. PICK n \in Nat : n = Len(s) /\ n > 0
    BY <1>0, <1>1
  <1>3. PICK t : t = fifo'[c]
    OBVIOUS
  <1>4. /\ t \in Seq(Word) /\ Len(t) = n - 1
        /\ \A i \in 1..(n - 1) : t[i] = s[i + 1] /\ i + 1 \in 1..n
    BY <1>0, <1>1, <1>2, <1>3, TailFacts
  <1>5. \A i, j \in 1..n :
          /\ j = i + 1 => Follows(s[i], s[j])
          /\ i < j /\ Ends(s[i]) => s[j].k = j - i /\ s[i].id < s[j].id
    BY <1>1, <1>2 DEF WireInv
  <1>6. \A i \in 1..n : s[i].k \in 1..TotalWords(offered[s[i].id]) /\ Arrives(c, s[i].id)
    BY <1>1, <1>2 DEF WireInv
  <1>7. h.k \in Nat /\ h.k > 0 /\ Arrives(c, h.id) /\ h = s[1]
    <2>1. offered[h.id] \in Frame
      BY <1>0 DEF TypeOK, Id
    <2>2. TotalWords(offered[h.id]) \in Nat
      BY <2>1, FrameFacts
    <2>3. h = s[1] /\ 1 \in 1..n
      BY <1>0, <1>1, <1>2
    <2>4. QED
      BY <1>6, <2>2, <2>3
  <1>8. \A i \in 1..Len(accum'[c]) :
          /\ accum'[c][i].k = i /\ accum'[c][i].id = accum'[c][1].id
          /\ i < TotalWords(offered[accum'[c][1].id])
          /\ Arrives(c, accum'[c][i].id)
    <2>1. CASE Ends(h)
      BY <1>0, <2>1
    <2>2. CASE ~Ends(h)
      <3>1. accum'[c] = a /\ Len(a) < TotalWords(offered[h.id]) /\ a[1].id = h.id
        BY <1>0, <1>7, <2>2
      <3>2. TotalWords(offered[h.id]) \in Nat
        <4>1. offered[h.id] \in Frame
          BY <1>0 DEF TypeOK, Id
        <4>2. QED
          BY <4>1, FrameFacts
      <3>3. QED
        BY <1>0, <1>7, <3>1, <3>2
    <2>3. QED
      BY <2>1, <2>2
  <1>9. fifo'[c] # <<>> =>
          IF accum'[c] = <<>> THEN fifo'[c][1].k = 1
          ELSE fifo'[c][1].k = Len(accum'[c]) + 1 /\ fifo'[c][1].id = accum'[c][1].id
    <2>1. SUFFICES ASSUME t # <<>>
                   PROVE  IF accum'[c] = <<>> THEN t[1].k = 1
                          ELSE t[1].k = Len(accum'[c]) + 1 /\ t[1].id = accum'[c][1].id
      BY <1>3
    <2>2. n > 1
      BY <1>2, <1>4, <2>1, EmptySeq
    <2>3. t[1] = s[2] /\ Follows(s[1], s[2])
      BY <1>2, <1>4, <1>5, <2>2
    <2>4. CASE Ends(h)
      BY <1>0, <1>7, <2>3, <2>4 DEF Follows
    <2>5. CASE ~Ends(h)
      <3>1. t[1].k = h.k + 1 /\ t[1].id = h.id
        BY <1>7, <2>3, <2>5 DEF Follows
      <3>2. accum'[c] = a /\ a # <<>> /\ a[1].id = h.id
        BY <1>0, <1>7, <2>5
      <3>3. QED
        BY <1>0, <3>1, <3>2
    <2>6. QED
      BY <2>4, <2>5
  <1>10. \A i \in 1..Len(fifo'[c]) :
           fifo'[c][i].k \in 1..TotalWords(offered[fifo'[c][i].id]) /\ Arrives(c, fifo'[c][i].id)
    BY <1>3, <1>4, <1>6
  <1>11. \A i, j \in 1..Len(fifo'[c]) :
           /\ j = i + 1 => Follows(fifo'[c][i], fifo'[c][j])
           /\ i < j /\ Ends(fifo'[c][i]) => fifo'[c][j].k = j - i /\ fifo'[c][i].id < fifo'[c][j].id
    <2>1. SUFFICES ASSUME NEW i \in 1..(n - 1), NEW j \in 1..(n - 1)
                   PROVE  /\ j = i + 1 => Follows(t[i], t[j])
                          /\ i < j /\ Ends(t[i]) => t[j].k = j - i /\ t[i].id < t[j].id
      BY <1>3, <1>4
    <2>2. t[i] = s[i + 1] /\ t[j] = s[j + 1] /\ i + 1 \in 1..n /\ j + 1 \in 1..n
      BY <1>4
    <2>3. /\ j + 1 = (i + 1) + 1 => Follows(s[i + 1], s[j + 1])
          /\ i + 1 < j + 1 /\ Ends(s[i + 1]) =>
                s[j + 1].k = (j + 1) - (i + 1) /\ s[i + 1].id < s[j + 1].id
      BY <1>5, <2>2
    <2>4. QED
      BY <2>2, <2>3
  <1>12. WireInv(c)'
    BY <1>0, <1>8, <1>9, <1>10, <1>11, SameWire
  <1>13. LastWord(c) = s[n] /\ ~Quiet(c)
    BY <1>0, <1>1, <1>2 DEF LastWord, Quiet
  <1>14. CASE n > 1
    <2>1. t # <<>> /\ t[Len(t)] = s[n]
      BY <1>2, <1>4, <1>14
    <2>2. LastWord(c)' = s[n] /\ ~Quiet(c)'
      BY <1>3, <2>1 DEF LastWord, Quiet
    <2>3. Ends(LastWord(c))' <=> Ends(s[n])
      BY <1>0, <2>2 DEF Ends, TotalWords
    <2>4. QED
      BY <1>12, <1>13, <2>2, <2>3 DEF Between
  <1>15. CASE n = 1
    <2>1. fifo'[c] = <<>>
      BY <1>3, <1>4, <1>15, EmptySeq
    <2>2. CASE Ends(h)
      BY <1>0, <1>7, <1>12, <1>13, <1>15, <2>1, <2>2 DEF Between, Quiet
    <2>3. CASE ~Ends(h)
      <3>1. accum'[c] = a /\ a # <<>> /\ a[Len(a)] = h
        <4>1. accum'[c] = a /\ Len(a) \in Nat /\ Len(a) > 0 /\ a[Len(a)] \in Word
          BY <1>0, <1>7, <2>3
        <4>2. a[Len(a)].k = h.k /\ a[Len(a)].id = h.id
          BY <1>0, <4>1
        <4>3. a[Len(a)] = h
          BY <1>0, <4>1, <4>2, WordEq
        <4>4. QED
          BY <1>7, <4>1, <4>3
      <3>2. LastWord(c)' = h /\ ~Quiet(c)'
        BY <2>1, <3>1 DEF LastWord, Quiet
      <3>3. ~Ends(LastWord(c))'
        BY <1>0, <2>3, <3>2 DEF Ends, TotalWords
      <3>4. QED
        BY <1>7, <1>12, <1>13, <1>15, <2>3, <3>2, <3>3 DEF Between
    <2>4. QED
      BY <2>2, <2>3
  <1>16. QED
    BY <1>2, <1>14, <1>15

LEMMA PopPush ==
  ASSUME TypeOK, HeldInv, NEW c \in Core, WireInv(c), PushInv(c),
         NEW p, NEW a, NEW h, NEW f, Popped(c, p, a, h, f)
  PROVE  PushInv(c)'
  <1>1. /\ ~Between(c) => ~Between(c)' /\ LastWord(c)' = LastWord(c)
        /\ Between(c) => Between(c)'
    BY PopWire
  <1>2. site' = site /\ pending' = pending
    BY DEF Popped, PopCommon
  <1>3. Port' = Port
    BY <1>2, SameSite
  <1>4. CASE Between(c)
    BY <1>1, <1>2, <1>3, <1>4 DEF PushInv
  <1>5. CASE ~Between(c)
    BY <1>1, <1>2, <1>3, <1>5 DEF PushInv
  <1>6. QED
    BY <1>4, <1>5

\* The FIFO without its first word.
Shifted(c, h, s, t, n) ==
  /\ s = fifo[c] /\ t = fifo'[c] /\ n > 0 /\ n <= 4 /\ Len(s) = n /\ Len(t) = n - 1 /\ s[1] = h
  /\ \A i \in 1..(n - 1) : t[i] = s[i + 1] /\ i + 1 \in 1..n
  /\ Ends(h) => \A i \in 1..(n - 1) : ~Ends(t[i]) /\ h.id < t[i].id
  /\ ~Ends(h) => ((\E i \in 1..n : Ends(s[i])) <=> \E i \in 1..(n - 1) : Ends(t[i]))

LEMMA PopTail ==
  ASSUME TypeOK, HeldInv, NEW c \in Core, WireInv(c),
         NEW p, NEW a, NEW h, NEW f, Popped(c, p, a, h, f)
  PROVE  \E s \in Seq(Word), t \in Seq(Word), n \in Nat : Shifted(c, h, s, t, n)
  <1>1. fifo[c] # <<>> /\ fifo'[c] = Tail(fifo[c]) /\ h = fifo[c][1]
    BY DEF Popped, PopCommon
  <1>2. PICK s \in Seq(Word) : s = fifo[c]
    BY DEF TypeOK
  <1>3. PICK n \in Nat : n = Len(s) /\ n > 0 /\ n <= 4
    <2>1. FifoDepth \in 1..4
      BY FifoAssumption DEF SIO_FRAME_HEADER_WORDS
    <2>2. Len(s) <= FifoDepth
      BY <1>2 DEF TypeOK
    <2>3. QED
      BY <1>1, <1>2, <2>1, <2>2
  <1>4. PICK t \in Seq(Word) : t = fifo'[c]
    BY <1>1, <1>2, TailFacts
  <1>5. Len(t) = n - 1 /\ \A i \in 1..(n - 1) : t[i] = s[i + 1] /\ i + 1 \in 1..n
    BY <1>1, <1>2, <1>3, <1>4, TailFacts
  <1>6. ASSUME Ends(h), NEW i \in 1..(n - 1) PROVE ~Ends(t[i]) /\ h.id < t[i].id
    <2>1. t[i] = s[i + 1] /\ i + 1 \in 1..n /\ 1 \in 1..n /\ h = s[1]
      BY <1>1, <1>2, <1>3, <1>5
    <2>2. s[i + 1].k = (i + 1) - 1 /\ h.id < s[i + 1].id
      BY <1>2, <1>3, <1>6, <2>1 DEF WireInv
    <2>3. s[i + 1].id \in Id
      BY <1>2, <1>3, <2>1 DEF HeldInv
    <2>4. offered[s[i + 1].id] \in Frame
      BY <2>3 DEF TypeOK, Id
    <2>5. TotalWords(offered[s[i + 1].id]) >= 4 /\ TotalWords(offered[s[i + 1].id]) \in Nat
      BY <2>4, FrameFacts
    <2>6. ~Ends(s[i + 1])
      BY <1>3, <2>2, <2>5 DEF Ends
    <2>7. QED
      BY <2>1, <2>2, <2>6
  <1>7. ASSUME ~Ends(h) PROVE (\E i \in 1..n : Ends(s[i])) <=> \E i \in 1..(n - 1) : Ends(t[i])
    <2>1. ASSUME NEW i \in 1..n, Ends(s[i]) PROVE \E j \in 1..(n - 1) : Ends(t[j])
      <3>1. i # 1
        BY <1>1, <1>2, <1>7, <2>1
      <3>2. i - 1 \in 1..(n - 1)
        BY <3>1
      <3>3. t[i - 1] = s[i]
        <4>1. t[i - 1] = s[(i - 1) + 1] /\ (i - 1) + 1 = i
          BY <1>5, <3>2
        <4>2. QED
          BY <4>1
      <3>4. QED
        BY <2>1, <3>2, <3>3
    <2>2. ASSUME NEW i \in 1..(n - 1), Ends(t[i]) PROVE \E j \in 1..n : Ends(s[j])
      BY <1>5, <2>2
    <2>3. QED
      BY <2>1, <2>2
  <1>8. s[1] = h
    BY <1>1, <1>2
  <1>9. Shifted(c, h, s, t, n)
    BY <1>2, <1>3, <1>4, <1>5, <1>6, <1>7, <1>8 DEF Shifted
  <1>10. QED
    BY <1>9

LEMMA PopCount ==
  ASSUME TypeOK, HeldInv, NEW c \in Core, WireInv(c), CountInv(c),
         NEW p, NEW a, NEW h, NEW f, Popped(c, p, a, h, f),
         (~Ends(h) /\ PopMore(a)) \/ PoppedFrame(c, p, h, f)
  PROVE  /\ CountInv(c)'
         /\ Ends(h) => /\ Len(sent[Peer(c)]) = Len(got[c]) + 1
                       /\ sent[Peer(c)][Len(got[c]) + 1] = h.id
  <1>0. sent' = sent /\ offered' = offered
    BY DEF Popped, PopCommon
  <1>t. PICK s \in Seq(Word), t \in Seq(Word), n \in Nat : Shifted(c, h, s, t, n)
    BY PopTail
  <1>1. /\ s = fifo[c] /\ t = fifo'[c] /\ n > 0 /\ n <= 4 /\ Len(s) = n /\ Len(t) = n - 1 /\ s[1] = h
        /\ \A i \in 1..(n - 1) : t[i] = s[i + 1] /\ i + 1 \in 1..n
        /\ Ends(h) => \A i \in 1..(n - 1) : ~Ends(t[i]) /\ h.id < t[i].id
        /\ ~Ends(h) => ((\E i \in 1..n : Ends(s[i])) <=> \E i \in 1..(n - 1) : Ends(t[i]))
    BY <1>t DEF Shifted
  <1>2. PICK S \in Seq(Nat) : S = sent[Peer(c)]
    BY PeerFacts DEF TypeOK
  <1>3. PICK g \in Nat : g = Len(got[c])
    BY DEF TypeOK
  <1>4. /\ Len(S) = g + IF \E i \in 1..n : Ends(s[i]) THEN 1 ELSE 0
        /\ \A i \in 1..n : Ends(s[i]) => S[Len(S)] = s[i].id
    BY <1>1, <1>2, <1>3 DEF CountInv
  <1>s. ASSUME NEW G, G = Len(got'[c]),
               Len(S) = G + IF \E i \in 1..Len(t) : Ends(t[i]) THEN 1 ELSE 0,
               \A i \in 1..Len(t) : Ends(t[i]) => S[Len(S)] = t[i].id
        PROVE  CountInv(c)'
    BY <1>0, <1>1, <1>2, <1>s DEF CountInv, Ends, TotalWords
  <1>5. CASE ~Ends(h)
    <2>1. got' = got
      BY <1>5 DEF PopMore, PoppedFrame
    <2>2. \A i \in 1..Len(t) : Ends(t[i]) => S[Len(S)] = t[i].id
      <3>1. SUFFICES ASSUME NEW i \in 1..Len(t), Ends(t[i]) PROVE S[Len(S)] = t[i].id
        OBVIOUS
      <3>2. t[i] = s[i + 1] /\ i + 1 \in 1..n
        BY <1>1
      <3>3. QED
        BY <1>4, <3>1, <3>2
    <2>3. g = Len(got'[c])
      BY <1>3, <2>1
    <2>4. Len(S) = g + IF \E i \in 1..Len(t) : Ends(t[i]) THEN 1 ELSE 0
      BY <1>1, <1>4, <1>5
    <2>5. CountInv(c)'
      BY <2>2, <2>3, <2>4, <1>s
    <2>6. QED
      BY <1>5, <2>5
  <1>6. CASE Ends(h)
    <2>1. got' = [got EXCEPT ![c] = Append(@, f.id)] /\ f \in RxFrame
      BY <1>6 DEF PoppedFrame
    <2>2. Len(got'[c]) = g + 1
      <3>1. got'[c] = Append(got[c], f.id) /\ got[c] \in Seq(Nat) /\ f.id \in Nat
        BY <2>1, RxFrameFacts DEF TypeOK
      <3>2. QED
        BY <1>3, <3>1, AppendFacts
    <2>3. 1 \in 1..n /\ Ends(s[1])
      BY <1>1, <1>6
    <2>4. Len(S) = g + 1 /\ S[Len(S)] = h.id
      BY <1>1, <1>4, <2>3
    <2>5. ~\E i \in 1..Len(t) : Ends(t[i])
      BY <1>1, <1>6
    <2>6. CountInv(c)'
      BY <2>2, <2>4, <2>5, <1>s
    <2>7. QED
      BY <1>2, <1>3, <2>4, <2>6
  <1>7. QED
    BY <1>5, <1>6

\* What was older than the wire stays so, and the frame that ends now is older
\* than what is left of it.
LEMMA PopOlder ==
  ASSUME TypeOK, HeldInv, NEW c \in Core, WireInv(c),
         NEW p, NEW a, NEW h, NEW f, Popped(c, p, a, h, f), NEW i
  PROVE  /\ OlderThanWire(c, i) => OlderThanWire(c, i)'
         /\ Ends(h) /\ i = h.id => OlderThanWire(c, i)'
  <1>0. /\ offered' = offered /\ IF Ends(h) THEN accum'[c] = <<>> ELSE accum'[c] = a
        /\ \A n \in 1..Len(a) : a[n].id = h.id
    BY DEF Popped, PopCommon
  <1>t. PICK s \in Seq(Word), t \in Seq(Word), n \in Nat : Shifted(c, h, s, t, n)
    BY PopTail
  <1>1. /\ s = fifo[c] /\ t = fifo'[c] /\ n > 0 /\ n <= 4 /\ Len(s) = n /\ Len(t) = n - 1 /\ s[1] = h
        /\ \A j \in 1..(n - 1) : t[j] = s[j + 1] /\ j + 1 \in 1..n
        /\ Ends(h) => \A j \in 1..(n - 1) : ~Ends(t[j]) /\ h.id < t[j].id
        /\ ~Ends(h) => ((\E j \in 1..n : Ends(s[j])) <=> \E j \in 1..(n - 1) : Ends(t[j]))
    BY <1>t DEF Shifted
  <1>s. ASSUME \A m \in 1..Len(accum'[c]) : SameSender(i, accum'[c][m].id) => i < accum'[c][m].id,
               \A m \in 1..Len(t) : SameSender(i, t[m].id) => i < t[m].id
        PROVE  OlderThanWire(c, i)'
    BY <1>0, <1>1, <1>s DEF OlderThanWire, SameSender
  <1>2. ASSUME OlderThanWire(c, i) PROVE OlderThanWire(c, i)'
    <2>1. \A m \in 1..n : SameSender(i, s[m].id) => i < s[m].id
      BY <1>1, <1>2 DEF OlderThanWire
    <2>2. SameSender(i, h.id) => i < h.id
      BY SMTT(40), <1>1, <2>1
    <2>3. \A m \in 1..Len(accum'[c]) : SameSender(i, accum'[c][m].id) => i < accum'[c][m].id
      BY <1>0, <2>2
    <2>4. \A m \in 1..Len(t) : SameSender(i, t[m].id) => i < t[m].id
      BY <1>1, <2>1
    <2>5. QED
      BY <2>3, <2>4, <1>s
  <1>3. ASSUME Ends(h), i = h.id PROVE OlderThanWire(c, i)'
    BY <1>0, <1>1, <1>3, <1>s
  <1>4. QED
    BY <1>2, <1>3

\* What the stash and the ports hold after a pop.
NewlyStashed(c, h, f, r) == Ends(h) /\ f.id = h.id /\ stash'[c][r] = f
NewlySeen(c, p, h, q, n) == Ends(h) /\ q = p /\ stash' = stash /\ seen'[q][n] = h.id

LEMMA PopHolds ==
  ASSUME TypeOK, NEW c \in Core, NEW p, NEW a, NEW h, NEW f, Popped(c, p, a, h, f),
         (~Ends(h) /\ PopMore(a)) \/ PoppedFrame(c, p, h, f)
  PROVE  /\ \A r \in Role : stash'[c][r] = stash[c][r] \/ NewlyStashed(c, h, f, r)
         /\ \A q \in Port : \A n \in 1..Len(seen'[q]) :
              (n \in 1..Len(seen[q]) /\ seen'[q][n] = seen[q][n]) \/ NewlySeen(c, p, h, q, n)
  <1>1. CASE UNCHANGED <<stash, seen>>
    BY <1>1
  <1>2. CASE PoppedFrame(c, p, h, f) /\ PopStaged(c, p, f)
    <2>1. /\ p \in Port /\ f \in RxFrame /\ f.id = h.id /\ Ends(h) /\ Stage(p, f) /\ stash' = stash
      BY <1>2 DEF Popped, PopCommon, PoppedFrame, PopStaged
    <2>2. /\ seen'[p] = Append(seen[p], f.id)
          /\ \A q \in Port : q # p => seen'[q] = seen[q]
      BY <2>1, StageEffect
    <2>3. seen[p] \in Seq(Nat) /\ f.id \in Nat
      BY <2>1, RxFrameFacts DEF TypeOK
    <2>4. /\ Len(seen'[p]) = Len(seen[p]) + 1 /\ seen'[p][Len(seen[p]) + 1] = f.id
          /\ \A n \in 1..Len(seen[p]) : seen'[p][n] = seen[p][n]
          /\ \A n \in 1..(Len(seen[p]) + 1) : n \in 1..Len(seen[p]) \/ n = Len(seen[p]) + 1
      BY <2>2, <2>3, AppendFacts
    <2>5. \A n \in 1..Len(seen'[p]) :
            (n \in 1..Len(seen[p]) /\ seen'[p][n] = seen[p][n]) \/ NewlySeen(c, p, h, p, n)
      BY <2>1, <2>4 DEF NewlySeen
    <2>6. QED
      BY <2>1, <2>2, <2>5
  <1>3. CASE PoppedFrame(c, p, h, f) /\ PopStashed(c, p, f)
    <2>1. /\ f.id = h.id /\ Ends(h) /\ seen' = seen
          /\ \A d \in Core, q \in Role : stash'[d][q] = IF d = c /\ q = f.to THEN f ELSE stash[d][q]
      BY <1>3 DEF PoppedFrame, PopStashed
    <2>2. \A r \in Role : stash'[c][r] = stash[c][r] \/ NewlyStashed(c, h, f, r)
      BY <2>1 DEF NewlyStashed
    <2>3. QED
      BY <2>1, <2>2
  <1>4. QED
    BY <1>1, <1>2, <1>3 DEF PopMore, PoppedFrame, PopDropped

LEMMA PopOrder ==
  ASSUME TypeOK, BusyInv, HeldInv, NEW c \in Core, WireInv(c), OrderInv(c),
         NEW p, NEW a, NEW h, NEW f, Popped(c, p, a, h, f), p = busy[c].port,
         (~Ends(h) /\ PopMore(a)) \/ PoppedFrame(c, p, h, f)
  PROVE  OrderInv(c)'
  <1>0. /\ UNCHANGED <<site, outgoing, offered>> /\ p \in Port /\ HostOf(p) = c
        /\ busy[c] # None /\ busy[c].op = "recv"
    BY DEF Popped, PopCommon
  <1>h. /\ \A r \in Role : stash'[c][r] = stash[c][r] \/ NewlyStashed(c, h, f, r)
        /\ \A q \in Port : \A n \in 1..Len(seen'[q]) :
             (n \in 1..Len(seen[q]) /\ seen'[q][n] = seen[q][n]) \/ NewlySeen(c, p, h, q, n)
    BY PopHolds
  <1>t. PICK s \in Seq(Word), t \in Seq(Word), n \in Nat : Shifted(c, h, s, t, n)
    BY PopTail
  <1>1. /\ s = fifo[c] /\ t = fifo'[c] /\ n > 0 /\ Len(s) = n /\ Len(t) = n - 1 /\ s[1] = h
        /\ \A i \in 1..(n - 1) : t[i] = s[i + 1] /\ i + 1 \in 1..n
    BY <1>t DEF Shifted
  <1>2. Port' = Port
    BY <1>0, SameSite
  <1>3. \A q \in Port : outgoing[q] # None =>
          \A i \in 1..n : Ends(s[i]) => s[i].id # outgoing[q].id
    BY <1>1 DEF OrderInv, NotYet
  <1>4. \A q \in Port : outgoing[q] # None /\ Ends(h) => h.id # outgoing[q].id
    <2>1. 1 \in 1..n
      BY <1>1
    <2>2. QED
      BY <1>1, <1>3, <2>1
  <1>5. NotYet(c)'
    <2>1. \A q \in Port : outgoing'[q] # None =>
            \A r \in Role : stash'[c][r] # None => stash'[c][r].id # outgoing'[q].id
      BY <1>0, <1>4, <1>h DEF NewlyStashed, OrderInv, NotYet
    <2>2. \A q \in Port : outgoing'[q] # None => \A x \in Port : HostOf(x) = c =>
            \A m \in 1..Len(seen'[x]) : seen'[x][m] # outgoing'[q].id
      BY <1>0, <1>4, <1>h DEF NewlySeen, OrderInv, NotYet
    <2>3. \A q \in Port : outgoing'[q] # None =>
            \A i \in 1..Len(t) : Ends(t[i]) => t[i].id # outgoing'[q].id
      <3>1. SUFFICES ASSUME NEW q \in Port, outgoing[q] # None, NEW i \in 1..Len(t), Ends(t[i])
                     PROVE  t[i].id # outgoing[q].id
        BY <1>0
      <3>2. t[i] = s[i + 1] /\ i + 1 \in 1..n
        BY <1>1
      <3>3. QED
        BY <1>3, <3>1, <3>2
    <2>4. QED
      BY <1>0, <1>1, <1>2, <2>1, <2>2, <2>3 DEF NotYet, Ends, TotalWords
  <1>6. ASSUME NEW i, OlderThanWire(c, i) \/ (Ends(h) /\ i = h.id) PROVE OlderThanWire(c, i)'
    BY <1>6, PopOlder
  <1>7. ASSUME NEW x \in Port, HostOf(x) = c, NEW m \in 1..Len(seen'[x])
        PROVE  SeenBeforeStash(c, x, seen[x][m])' /\ OlderThanWire(c, seen[x][m])'
    <2>1. PICK i : i = seen'[x][m]
      OBVIOUS
    <2>2. PICK r \in Role : r = RoleOf(x)
      BY PortFacts
    <2>s. ASSUME stash'[c][r] # None /\ FrameTargetsRxLane(stash'[c][r], x)
                   /\ SameSender(i, stash'[c][r].id) => i < stash'[c][r].id,
                 OlderThanWire(c, i)'
          PROVE  SeenBeforeStash(c, x, seen[x][m])' /\ OlderThanWire(c, seen[x][m])'
      BY <1>0, <2>1, <2>2, <2>s DEF SeenBeforeStash, SameSender, FrameTargetsRxLane, OlderThanWire
    <2>3. CASE m \in 1..Len(seen[x]) /\ i = seen[x][m]
      <3>1. /\ OlderThanWire(c, i)
            /\ stash[c][r] # None /\ FrameTargetsRxLane(stash[c][r], x) /\ SameSender(i, stash[c][r].id)
                 => i < stash[c][r].id
        BY <1>7, <2>2, <2>3 DEF OrderInv
      <3>2. SameSender(i, h.id) => i < h.id
        BY <1>1, <3>1 DEF OlderThanWire
      <3>3. stash'[c][r] # None /\ FrameTargetsRxLane(stash'[c][r], x) /\ SameSender(i, stash'[c][r].id)
              => i < stash'[c][r].id
        BY <1>h, <3>1, <3>2 DEF NewlyStashed
      <3>4. OlderThanWire(c, i)'
        BY <1>6, <3>1
      <3>5. QED
        BY <2>s, <3>3, <3>4
    <2>4. CASE NewlySeen(c, p, h, x, m)
      <3>1. x = p /\ stash' = stash /\ i = h.id /\ Ends(h)
        BY <2>1, <2>4 DEF NewlySeen
      <3>2. stash[c][r] # None => ~FrameTargetsRxLane(stash[c][r], x)
        BY <1>0, <2>2, <3>1 DEF BusyInv, PollInv
      <3>3. stash'[c][r] # None => ~FrameTargetsRxLane(stash'[c][r], x)
        BY <3>1, <3>2
      <3>4. OlderThanWire(c, i)'
        BY <1>6, <3>1
      <3>5. QED
        BY <2>s, <3>3, <3>4
    <2>5. QED
      BY <1>h, <2>1, <2>3, <2>4
  <1>8. ASSUME NEW r \in Role, stash'[c][r] # None PROVE OlderThanWire(c, stash[c][r].id)'
    <2>1. PICK i : i = stash'[c][r].id
      OBVIOUS
    <2>2. OlderThanWire(c, i) \/ (Ends(h) /\ i = h.id)
      BY <1>8, <1>h, <2>1 DEF NewlyStashed, OrderInv
    <2>3. OlderThanWire(c, i)'
      BY <1>6, <2>2
    <2>4. QED
      BY <2>1, <2>3 DEF OlderThanWire, SameSender
  <1>9. QED
    BY <1>0, <1>5, <1>7, <1>8, OrderNext

-----------------------------------------------------------------------------
(* Every other step.                                                       *)

\* Only a push from the other core and a pop touch the wire of a core.
LEMMA WireAlone ==
  ASSUME TypeOK, SendInv, BusyInv, HeldInv, [Next]_vars, NEW c \in Core, ~PushWord(Peer(c)), ~PopWord(c)
  PROVE  /\ fifo'[c] = fifo[c] /\ accum'[c] = accum[c]
         /\ sent'[Peer(c)] = sent[Peer(c)] /\ got'[c] = got[c]
  <1>0. Peer(c) \in Core /\ Peer(c) # c /\ Peer(Peer(c)) = c /\ \A d \in Core : d # c => d = Peer(c)
    BY PeerFacts
  <1>1. CASE PushWord(c)
    <2>1. accum' = accum /\ got' = got /\ (sent' = sent \/ \E x : sent' = [sent EXCEPT ![c] = x])
          /\ \E x : fifo' = [fifo EXCEPT ![Peer(c)] = x]
      BY <1>1 DEF PushWord
    <2>2. QED
      BY <1>0, <2>1 DEF TypeOK
  <1>2. CASE PopWord(Peer(c))
    <2>1. PICK d \in Core : d = Peer(c)
      BY <1>0
    <2>2. PICK p : p = busy[d].port
      OBVIOUS
    <2>3. PICK a : a = Append(accum[d], Head(fifo[d]))
      OBVIOUS
    <2>4. PICK f : f = Decoded(a)
      OBVIOUS
    <2>5. /\ PopCommon(d, p, a)
          /\ \/ PopRejected(d, a)
             \/ PopMore(a)
             \/ PopFrame(d, a, f) /\ (PopStaged(d, p, f) \/ PopStashed(d, p, f) \/ PopDropped(d))
      BY <1>2, <2>1, <2>2, <2>3, <2>4, PopFacts
    <2>6. fifo'[c] = fifo[c] /\ accum'[c] = accum[c] /\ sent' = sent
      BY <1>0, <2>1, <2>5 DEF PopCommon
    <2>7. got'[c] = got[c]
      BY <1>0, <2>1, <2>5 DEF PopRejected, PopMore, PopFrame, TypeOK
    <2>8. QED
      BY <2>6, <2>7
  <1>3. CASE UNCHANGED <<fifo, accum, sent, got>>
    BY <1>3
  <1>4. QED
    BY ZenonT(60), <1>0, <1>1, <1>2, <1>3
       DEF Next, PortStep, CoreStep, vars, BeginSend, PollSendSelf, PollSendOversize, PollSendLocal,
           PollSend, CancelSend, PollRecvRequeued, PollRecvStash, PollRecvLoop, Requeue, SendPending,
           PopNone, DeadlineExpired

LEMMA CountKept ==
  ASSUME TypeOK, HeldInv, Id \subseteq Id', \A i \in Id : offered'[i] = offered[i], NEW c \in Core,
         fifo'[c] = fifo[c], sent'[Peer(c)] = sent[Peer(c)], got'[c] = got[c], CountInv(c)
  PROVE  CountInv(c)'
  <1>1. PICK s : s = fifo[c]
    OBVIOUS
  <1>2. \A i \in 1..Len(s) : offered'[s[i].id] = offered[s[i].id]
    BY <1>1 DEF HeldInv
  <1>3. \A i \in 1..Len(s) : Ends(fifo[c][i])' = Ends(s[i])
    BY <1>1, <1>2 DEF Ends, TotalWords
  <1>4. QED
    BY ZenonT(60), <1>1, <1>3 DEF CountInv

LEMMA PushKept ==
  ASSUME site' = site, NEW c \in Core, Between(c)' = Between(c), LastWord(c)' = LastWord(c),
         \A q \in Port : HostOf(q) = Peer(c) => pending'[q] = pending[q], PushInv(c)
  PROVE  PushInv(c)'
  <1>1. Port' = Port
    BY SameSite
  <1>2. CASE Between(c)
    BY <1>1, <1>2 DEF PushInv
  <1>3. CASE ~Between(c)
    BY <1>1, <1>3 DEF PushInv
  <1>4. QED
    BY <1>2, <1>3

\* A send that begins, or a cancel of one that has not.
LEMMA PushBegins ==
  ASSUME site' = site, NEW c \in Core, Between(c), Between(c)', PushInv(c),
         \A q \in Port : HostOf(q) = Peer(c) =>
           pending'[q] = pending[q] \/ pending'[q] = None \/ pending'[q].next = 1
  PROVE  PushInv(c)'
  <1>1. Port' = Port
    BY SameSite
  <1>2. QED
    BY <1>1 DEF PushInv

\* The last word of a wire that is not quiet.
LEMMA WordPlace ==
  ASSUME TypeOK, HeldInv, NEW c \in Core, WireInv(c), ~Between(c)
  PROVE  LastWord(c).k \in Nat /\ LastWord(c).k >= 1
  <1>1. fifo[c] \in Seq(Word) /\ accum[c] \in Seq(Word) /\ ~Quiet(c)
    BY DEF TypeOK, Between
  <1>2. CASE fifo[c] # <<>>
    <2>1. PICK n \in Nat : n = Len(fifo[c]) /\ n \in 1..Len(fifo[c])
      BY <1>1, <1>2
    <2>2. PICK w \in Word : w = fifo[c][n] /\ LastWord(c) = w
      BY <1>1, <1>2, <2>1 DEF LastWord
    <2>3. w.id \in Id /\ w.k \in 1..TotalWords(offered[w.id])
      BY <2>1, <2>2 DEF HeldInv, WireInv
    <2>4. offered[w.id] \in Frame
      BY <2>3 DEF TypeOK, Id
    <2>5. TotalWords(offered[w.id]) \in Nat
      BY <2>4, FrameFacts
    <2>6. QED
      BY <2>2, <2>3, <2>5
  <1>3. CASE fifo[c] = <<>>
    <2>1. PICK n \in Nat : n = Len(accum[c]) /\ n \in 1..Len(accum[c]) /\ n >= 1
      BY <1>1, <1>3 DEF Quiet
    <2>2. LastWord(c) = accum[c][n]
      BY <1>3, <2>1 DEF LastWord
    <2>3. accum[c][n].k = n
      BY SMTT(40), <2>1 DEF WireInv
    <2>4. QED
      BY <2>1, <2>2, <2>3
  <1>4. QED
    BY <1>2, <1>3

LEMMA PushStep ==
  ASSUME TypeOK, OfferedInv, SendInv, BusyInv, HeldInv, site' = site, [Next]_vars, NEW c \in Core,
         ~PushWord(Peer(c)), ~PopWord(c), ~cut'[Peer(c)], WireInv(c), PushInv(c),
         Between(c)' = Between(c), LastWord(c)' = LastWord(c)
  PROVE  PushInv(c)'
  <1>0. Peer(c) \in Core /\ Peer(c) # c /\ Peer(Peer(c)) = c /\ \A d \in Core : d # c => d = Peer(c)
    BY PeerFacts
  <1>1. CASE pending' = pending
    BY <1>1, PushKept
  <1>2. ASSUME NEW p \in Port, PollSend(p) PROVE PushInv(c)'
    <2>1. \A q \in Port : q # p => pending'[q] = pending[q]
      BY <1>2 DEF PollSend, TypeOK
    <2>2. CASE HostOf(p) # Peer(c) \/ pending[p] # None
      <3>1. \A q \in Port : HostOf(q) = Peer(c) => pending'[q] = pending[q]
        BY <1>2, <2>1, <2>2 DEF PollSend, TypeOK
      <3>2. QED
        BY <3>1, PushKept
    <2>3. CASE HostOf(p) = Peer(c) /\ pending[p] = None
      <3>1. pending'[p] = [frame |-> outgoing[p], next |-> 1]
        BY <1>2, <2>3 DEF PollSend, TypeOK
      <3>2. outgoing[p] # None /\ Rp2wRoleCore(outgoing[p].to) # HostOf(p)
        BY <1>2 DEF PollSend, Sendable
      <3>3. /\ outgoing[p].id \in Id /\ offered[outgoing[p].id] = outgoing[p]
            /\ outgoing[p].from = RoleOf(p) /\ HostOf(p) = Rp2wRoleCore(RoleOf(p))
        BY <3>2, PortFacts DEF SendInv
      <3>4. Arrives(c, outgoing[p].id)
        BY <2>3, <3>2, <3>3 DEF Arrives, Crosses
      <3>5. Between(c)
        <4>1. SUFFICES ASSUME ~Between(c) PROVE FALSE
          OBVIOUS
        <4>2. PICK q \in Port : HostOf(q) = Peer(c) /\ pending[q] # None
          BY <4>1 DEF PushInv
        <4>3. /\ outgoing[q] # None /\ outgoing[q].id \in Id /\ offered[outgoing[q].id] = outgoing[q]
              /\ outgoing[q].from = RoleOf(q) /\ Arrives(c, outgoing[q].id)
          BY <4>2, PendingArrives
        <4>4. offered[outgoing[p].id].from = offered[outgoing[q].id].from
          BY <3>3, <3>4, <4>3, OneSender
        <4>5. p = q
          BY <3>2, <3>3, <4>3, <4>4 DEF SendInv
        <4>6. QED
          BY <2>3, <4>2, <4>5
      <3>6. pending'[p].next = 1
        BY <3>1
      <3>7. QED
        BY <2>1, <3>5, <3>6, PushBegins
    <2>4. QED
      BY <2>2, <2>3
  <1>3. ASSUME NEW p \in Port, CancelSend(p) PROVE PushInv(c)'
    <2>1. \A q \in Port : pending'[q] = IF q = p THEN None ELSE pending[q]
      BY <1>3 DEF CancelSend, TypeOK
    <2>2. CASE HostOf(p) # Peer(c) \/ pending[p] = None
      <3>1. \A q \in Port : HostOf(q) = Peer(c) => pending'[q] = pending[q]
        BY <2>1, <2>2
      <3>2. QED
        BY <3>1, PushKept
    <2>3. CASE HostOf(p) = Peer(c) /\ pending[p] # None
      <3>1. ~(pending[p].next > 1)
        BY <1>0, <1>3, <2>3 DEF CancelSend, TypeOK
      <3>2. Between(c)
        <4>1. SUFFICES ASSUME ~Between(c) PROVE FALSE
          OBVIOUS
        <4>2. pending[p].next = LastWord(c).k + 1
          BY <2>3, <4>1 DEF PushInv
        <4>3. LastWord(c).k \in Nat /\ LastWord(c).k >= 1
          BY <4>1, WordPlace
        <4>4. QED
          BY <3>1, <4>2, <4>3
      <3>3. QED
        BY <2>1, <3>2, PushBegins
    <2>4. QED
      BY <2>2, <2>3
  <1>4. CASE PushWord(c)
    <2>1. PICK p : p = busy[c].port
      OBVIOUS
    <2>2. HostOf(p) = c /\ \E x : pending' = [pending EXCEPT ![p] = x]
      <3>1. busy[c] # None
        BY <1>4 DEF PushWord
      <3>2. HostOf(p) = c
        BY SMTT(40), <2>1, <3>1 DEF BusyInv, PollInv
      <3>3. \/ pending' = [pending EXCEPT ![p].next = @ + 1]
            \/ pending' = [pending EXCEPT ![p] = None]
        BY <1>4, <2>1 DEF PushWord
      <3>4. QED
        BY SMTT(40), <3>2, <3>3
    <2>3. \A q \in Port : HostOf(q) = Peer(c) => pending'[q] = pending[q]
      BY <1>0, <2>2 DEF TypeOK
    <2>4. QED
      BY <2>3, PushKept
  <1>5. QED
    BY ZenonT(60), <1>0, <1>1, <1>2, <1>3, <1>4
       DEF Next, PortStep, CoreStep, vars, BeginSend, PollSendSelf, PollSendOversize, PollSendLocal,
           PollRecvRequeued, PollRecvStash, PollRecvLoop, Requeue, SendPending, PopWord,
           PopNone, DeadlineExpired

\* A step that stashes and stages nothing at a core.
LEMMA OrderKept ==
  ASSUME TypeOK, HeldInv, SendInv, site' = site, Id \subseteq Id', \A i \in Id : offered'[i] = offered[i],
         NEW c \in Core, OrderInv(c), fifo'[c] = fifo[c], accum'[c] = accum[c],
         \A r \in Role : stash'[c][r] = stash[c][r] \/ stash'[c][r] = None,
         \A x \in Port : HostOf(x) = c => seen'[x] = seen[x],
         \A q \in Port : outgoing'[q] # None =>
           (outgoing[q] # None /\ outgoing'[q] = outgoing[q]) \/ outgoing'[q].id \notin Id
  PROVE  OrderInv(c)'
  <1>0. Port' = Port
    BY SameSite
  <1>1. /\ \A i \in 1..Len(fifo[c]) : fifo[c][i].id \in Id
        /\ \A i \in 1..Len(accum[c]) : accum[c][i].id \in Id
        /\ \A r \in Role : stash[c][r] # None => stash[c][r].id \in Id
        /\ \A x \in Port : \A n \in 1..Len(seen[x]) : seen[x][n] \in Id
    BY DEF HeldInv
  <1>2. NotYet(c)'
    <2>1. \A i \in 1..Len(fifo[c]) : Ends(fifo[c][i])' = Ends(fifo[c][i])
      BY <1>1 DEF Ends, TotalWords
    <2>2. \A q \in Port : outgoing'[q] # None =>
            /\ \A r \in Role : stash'[c][r] # None => stash'[c][r].id # outgoing'[q].id
            /\ \A x \in Port : HostOf(x) = c => \A n \in 1..Len(seen'[x]) : seen'[x][n] # outgoing'[q].id
            /\ \A i \in 1..Len(fifo[c]) : Ends(fifo[c][i]) => fifo[c][i].id # outgoing'[q].id
      BY <1>1 DEF OrderInv, NotYet
    <2>3. QED
      BY <1>0, <2>1, <2>2 DEF NotYet
  <1>3. ASSUME NEW i \in Id, OlderThanWire(c, i) PROVE \A x : x = i => OlderThanWire(c, x)'
    BY <1>1, <1>3 DEF OlderThanWire, SameSender
  <1>4. ASSUME NEW x \in Port, HostOf(x) = c, NEW n \in 1..Len(seen'[x])
        PROVE  SeenBeforeStash(c, x, seen[x][n])' /\ OlderThanWire(c, seen[x][n])'
    <2>1. seen'[x] = seen[x] /\ n \in 1..Len(seen[x]) /\ seen[x][n] \in Id
      BY <1>1, <1>4
    <2>2. PICK r \in Role : r = RoleOf(x)
      BY PortFacts
    <2>3. /\ OlderThanWire(c, seen[x][n])
          /\ stash[c][r] # None /\ FrameTargetsRxLane(stash[c][r], x)
                /\ SameSender(seen[x][n], stash[c][r].id) => seen[x][n] < stash[c][r].id
      BY <1>4, <2>1, <2>2 DEF OrderInv
    <2>4. SeenBeforeStash(c, x, seen[x][n])'
      BY SMTT(40), <1>1, <2>1, <2>2, <2>3 DEF SeenBeforeStash, SameSender, FrameTargetsRxLane
    <2>5. QED
      BY <1>3, <2>1, <2>3, <2>4
  <1>5. ASSUME NEW r \in Role, stash'[c][r] # None PROVE OlderThanWire(c, stash[c][r].id)'
    <2>1. stash'[c][r] = stash[c][r] /\ stash[c][r] # None
      BY <1>5
    <2>2. stash[c][r].id \in Id /\ OlderThanWire(c, stash[c][r].id)
      BY <1>1, <2>1 DEF OrderInv
    <2>3. QED
      BY <1>3, <2>1, <2>2
  <1>6. QED
    BY <1>2, <1>4, <1>5, OrderNext

\* A frame for a role of the same core, through the stash.
LEMMA OrderLocal ==
  ASSUME TypeOK, SendInv, HeldInv, site' = site, NEW c \in Core, WireInv(c), OrderInv(c),
         NEW p \in Port, outgoing[p] # None, HostOf(p) = c, NEW g \in RxFrame, g.id = outgoing[p].id,
         UNCHANGED <<offered, fifo, accum, seen>>,
         \A q \in Port : outgoing'[q] = IF q = p THEN None ELSE outgoing[q],
         \A r \in Role : stash'[c][r] = g \/ stash'[c][r] = stash[c][r]
  PROVE  OrderInv(c)'
  <1>0. Port' = Port
    BY SameSite
  <1>1. /\ outgoing[p].id \in Id /\ offered[outgoing[p].id] = outgoing[p] /\ outgoing[p].from = RoleOf(p)
        /\ \A i \in Id : offered[i].from = RoleOf(p) => i <= outgoing[p].id
    BY DEF SendInv
  <1>2. \A q \in Port : outgoing'[q] # None => outgoing'[q] = outgoing[q] /\ g.id # outgoing[q].id
    BY OneOutgoing
  <1>3. NotYet(c)'
    <2>1. \A q \in Port : outgoing'[q] # None =>
            /\ \A r \in Role : stash'[c][r] # None => stash'[c][r].id # outgoing'[q].id
            /\ \A x \in Port : HostOf(x) = c => \A n \in 1..Len(seen'[x]) : seen'[x][n] # outgoing'[q].id
            /\ \A i \in 1..Len(fifo'[c]) : Ends(fifo'[c][i]) => fifo'[c][i].id # outgoing'[q].id
      BY <1>2 DEF OrderInv, NotYet
    <2>2. QED
      BY <1>0, <2>1 DEF NotYet, Ends, TotalWords
  <1>4. OlderThanWire(c, g.id)
    <2>1. Peer(c) # c /\ HostOf(p) = Rp2wRoleCore(RoleOf(p))
      BY PeerFacts, PortFacts
    <2>a. Rp2wRoleCore(offered[g.id].from) = c
      BY <1>1, <2>1
    <2>2. \A n \in 1..Len(accum[c]) : ~SameSender(g.id, accum[c][n].id)
      <3>1. \A n \in 1..Len(accum[c]) : Rp2wRoleCore(offered[accum[c][n].id].from) = Peer(c)
        BY DEF WireInv, Arrives
      <3>2. QED
        BY <2>1, <2>a, <3>1 DEF SameSender
    <2>3. \A n \in 1..Len(fifo[c]) : ~SameSender(g.id, fifo[c][n].id)
      <3>1. \A n \in 1..Len(fifo[c]) : Rp2wRoleCore(offered[fifo[c][n].id].from) = Peer(c)
        BY DEF WireInv, Arrives
      <3>2. QED
        BY <2>1, <2>a, <3>1 DEF SameSender
    <2>4. QED
      BY <2>2, <2>3 DEF OlderThanWire
  <1>5. ASSUME NEW i, OlderThanWire(c, i) PROVE \A x : x = i => OlderThanWire(c, x)'
    BY <1>5 DEF OlderThanWire, SameSender
  <1>6. ASSUME NEW x \in Port, HostOf(x) = c, NEW n \in 1..Len(seen'[x])
        PROVE  SeenBeforeStash(c, x, seen[x][n])' /\ OlderThanWire(c, seen[x][n])'
    <2>1. seen'[x] = seen[x] /\ n \in 1..Len(seen[x]) /\ seen[x][n] \in Id
      BY <1>6 DEF HeldInv
    <2>2. PICK r \in Role : r = RoleOf(x)
      BY PortFacts
    <2>3. /\ OlderThanWire(c, seen[x][n])
          /\ stash[c][r] # None /\ FrameTargetsRxLane(stash[c][r], x)
                /\ SameSender(seen[x][n], stash[c][r].id) => seen[x][n] < stash[c][r].id
          /\ seen[x][n] # outgoing[p].id
      BY <1>6, <2>1, <2>2 DEF OrderInv, NotYet
    <2>4. SameSender(seen[x][n], g.id) => seen[x][n] < g.id
      <3>1. seen[x][n] \in Nat /\ g.id \in Nat
        BY <2>1, RxFrameFacts DEF Id
      <3>2. QED
        BY <1>1, <2>1, <2>3, <3>1 DEF SameSender
    <2>5. SeenBeforeStash(c, x, seen[x][n])'
      BY <2>1, <2>2, <2>3, <2>4 DEF SeenBeforeStash, SameSender, FrameTargetsRxLane
    <2>6. QED
      BY <1>5, <2>1, <2>3, <2>5
  <1>7. ASSUME NEW r \in Role, stash'[c][r] # None PROVE OlderThanWire(c, stash[c][r].id)'
    <2>1. PICK i : i = stash'[c][r].id
      OBVIOUS
    <2>2. OlderThanWire(c, i)
      BY <1>4, <1>7, <2>1 DEF OrderInv
    <2>3. QED
      BY <1>5, <2>1, <2>2
  <1>8. QED
    BY <1>3, <1>6, <1>7, OrderNext

\* A stashed frame that its port takes.
LEMMA OrderTaken ==
  ASSUME TypeOK, SendInv, HeldInv, site' = site, NEW c \in Core, OrderInv(c),
         NEW p \in Port, HostOf(p) = c, NEW r \in Role, r = RoleOf(p), NEW f, f = stash[c][r], f # None,
         UNCHANGED <<offered, fifo, accum, outgoing>>,
         \A q \in Role : stash'[c][q] = IF q = r THEN None ELSE stash[c][q],
         \A x \in Port : \A n \in 1..Len(seen'[x]) :
           (n \in 1..Len(seen[x]) /\ seen'[x][n] = seen[x][n]) \/ (x = p /\ seen'[x][n] = f.id)
  PROVE  OrderInv(c)'
  <1>0. Port' = Port
    BY SameSite
  <1>1. NotYet(c)'
    <2>1. \A q \in Port : outgoing'[q] # None =>
            /\ \A y \in Role : stash'[c][y] # None => stash'[c][y].id # outgoing'[q].id
            /\ \A x \in Port : HostOf(x) = c => \A n \in 1..Len(seen'[x]) : seen'[x][n] # outgoing'[q].id
            /\ \A i \in 1..Len(fifo'[c]) : Ends(fifo'[c][i]) => fifo'[c][i].id # outgoing'[q].id
      BY DEF OrderInv, NotYet
    <2>2. QED
      BY <1>0, <2>1 DEF NotYet, Ends, TotalWords
  <1>2. ASSUME NEW i, OlderThanWire(c, i) PROVE \A x : x = i => OlderThanWire(c, x)'
    BY <1>2 DEF OlderThanWire, SameSender
  <1>3. ASSUME NEW x \in Port, HostOf(x) = c, NEW n \in 1..Len(seen'[x])
        PROVE  SeenBeforeStash(c, x, seen[x][n])' /\ OlderThanWire(c, seen[x][n])'
    <2>1. PICK y \in Role : y = RoleOf(x)
      BY PortFacts
    <2>2. PICK i : i = seen'[x][n]
      OBVIOUS
    <2>3. OlderThanWire(c, i)
      BY <1>3, <2>2 DEF OrderInv
    <2>4. stash'[c][y] # None /\ FrameTargetsRxLane(stash'[c][y], x) /\ SameSender(i, stash'[c][y].id)
            => i < stash'[c][y].id
      BY <1>3, <2>1, <2>2 DEF OrderInv
    <2>5. SeenBeforeStash(c, x, seen[x][n])'
      BY <2>1, <2>2, <2>4 DEF SeenBeforeStash, SameSender, FrameTargetsRxLane
    <2>6. QED
      BY <1>2, <2>2, <2>3, <2>5
  <1>4. ASSUME NEW q \in Role, stash'[c][q] # None PROVE OlderThanWire(c, stash[c][q].id)'
    <2>1. stash'[c][q] = stash[c][q] /\ OlderThanWire(c, stash[c][q].id)
      BY <1>4 DEF OrderInv
    <2>2. QED
      BY <1>2, <2>1
  <1>5. QED
    BY <1>1, <1>3, <1>4, OrderNext

-----------------------------------------------------------------------------
(* Through the stash.                                                      *)

\* poll_send to a role of the same core.
SentLocally(p, c, g) ==
  /\ outgoing[p] # None /\ HostOf(p) = c /\ fault[c] = "none"
  /\ g.id = outgoing[p].id /\ g.to = outgoing[p].to /\ g.lane = outgoing[p].lane /\ g.whole
  /\ \A q \in Port : outgoing'[q] = IF q = p THEN None ELSE outgoing[q]
  /\ UNCHANGED <<site, fifo, accum, pending, rx, busy, offered, sent, got, seen, cut>>
  /\ \A d \in Core : d # c => fault'[d] = fault[d] /\ \A r \in Role : stash'[d][r] = stash[d][r]
  /\ \/ stash' = stash /\ fault'[c] = "Capacity"
     \/ /\ fault' = fault /\ stash[c][g.to] = None
        /\ \A r \in Role : stash'[c][r] = IF r = g.to THEN g ELSE stash[c][r]

LEMMA LocalFacts ==
  ASSUME TypeOK, NEW p \in Port, NEW c \in Core, c = HostOf(p), PollSendLocal(p)
  PROVE  \E g \in RxFrame : SentLocally(p, c, g)
  <1>1. outgoing[p] # None /\ outgoing[p] \in Frame /\ fault[c] = "none"
    BY DEF PollSendLocal, Sendable, Idle, TypeOK
  <1>2. PICK g : g = [id |-> outgoing[p].id, from |-> outgoing[p].from, to |-> outgoing[p].to,
                      lane |-> outgoing[p].lane, whole |-> TRUE]
    OBVIOUS
  <1>3. g \in RxFrame /\ g.to \in Role
    BY <1>1, <1>2, FrameFacts, RoleFacts DEF RxFrame
  <1>4. g.id = outgoing[p].id /\ g.to = outgoing[p].to /\ g.lane = outgoing[p].lane /\ g.whole
    BY <1>2
  <1>5. StashFrame(c, g) /\ outgoing' = [outgoing EXCEPT ![p] = None]
        /\ UNCHANGED <<site, fifo, accum, pending, rx, busy, offered, sent, got, seen, cut>>
    BY <1>2 DEF PollSendLocal
  <1>6. \A q \in Port : outgoing'[q] = IF q = p THEN None ELSE outgoing[q]
    BY <1>5 DEF TypeOK
  <1>7. \/ /\ stash' = stash /\ fault'[c] = "Capacity"
           /\ \A d \in Core : d # c => fault'[d] = fault[d]
        \/ /\ fault' = fault /\ g.to \in Role /\ stash[c][g.to] = None
           /\ \A d \in Core, q \in Role :
                stash'[d][q] = IF d = c /\ q = g.to THEN g ELSE stash[d][q]
    BY <1>3, <1>5, StashEffect
  <1>8. SentLocally(p, c, g)
    <2>1. CASE stash' = stash /\ fault'[c] = "Capacity" /\ \A d \in Core : d # c => fault'[d] = fault[d]
      BY <1>1, <1>4, <1>5, <1>6, <2>1 DEF SentLocally
    <2>2. CASE /\ fault' = fault /\ g.to \in Role /\ stash[c][g.to] = None
               /\ \A d \in Core, q \in Role : stash'[d][q] = IF d = c /\ q = g.to THEN g ELSE stash[d][q]
      BY <1>1, <1>4, <1>5, <1>6, <2>2 DEF SentLocally
    <2>3. QED
      BY <1>7, <2>1, <2>2
  <1>9. QED
    BY <1>3, <1>8

\* poll_recv that takes the stashed frame of its role.
TakenFromStash(p, c, r, f) ==
  /\ f = stash[c][r] /\ f # None /\ FrameTargetsRxLane(f, p)
  /\ seen'[p] = Append(seen[p], f.id) /\ rx'[p].frame = f
  /\ \A q \in Port : q # p => seen'[q] = seen[q] /\ rx'[q] = rx[q]
  /\ \A d \in Core, q \in Role : stash'[d][q] = IF d = c /\ q = r THEN None ELSE stash[d][q]

LEMMA TakeFacts ==
  ASSUME TypeOK, NEW p \in Port, NEW c \in Core, c = HostOf(p), NEW r \in Role, r = RoleOf(p),
         PollRecvStash(p), NEW f, f = stash[c][r]
  PROVE  /\ f \in RxFrame
         /\ UNCHANGED <<site, fifo, accum, outgoing, pending, busy, fault, offered, sent, got, cut>>
         /\ \/ TakenFromStash(p, c, r, f)
            \/ /\ UNCHANGED <<stash, seen>>
               /\ \A q \in Port : rx'[q].frame = None \/ rx'[q].frame = rx[q].frame
  <1>1. f # None /\ f \in RxFrame
    BY DEF PollRecvStash, TypeOK
  <1>2. UNCHANGED <<site, fifo, accum, outgoing, pending, busy, fault, offered, sent, got, cut>>
    BY DEF PollRecvStash
  <1>3. CASE FrameTargetsRxLane(f, p)
    <2>1. Stage(p, f) /\ stash' = [stash EXCEPT ![c][r] = None]
      BY <1>3 DEF PollRecvStash
    <2>2. \A d \in Core, q \in Role : stash'[d][q] = IF d = c /\ q = r THEN None ELSE stash[d][q]
      BY ZenonT(60), <2>1, StashWrite
    <2>3. /\ rx'[p].frame = f /\ seen'[p] = Append(seen[p], f.id)
          /\ \A q \in Port : q # p => rx'[q] = rx[q] /\ seen'[q] = seen[q]
      BY <1>1, <2>1, StageEffect
    <2>4. TakenFromStash(p, c, r, f)
      BY <1>1, <1>3, <2>2, <2>3 DEF TakenFromStash
    <2>5. QED
      BY <1>1, <1>2, <2>4
  <1>4. CASE ~FrameTargetsRxLane(f, p)
    <2>1. rx' = [rx EXCEPT ![p] = EmptyRx] /\ stash' = stash /\ seen' = seen
      BY <1>4 DEF PollRecvStash
    <2>2. \A q \in Port : rx'[q].frame = None \/ rx'[q].frame = rx[q].frame
      BY <2>1 DEF TypeOK, EmptyRx
    <2>3. QED
      BY <1>1, <1>2, <2>1, <2>2
  <1>5. QED
    BY <1>3, <1>4

\* A port that took a frame has seen that one more.
LEMMA TakenSeen ==
  ASSUME TypeOK, NEW p \in Port, NEW i \in Nat, seen'[p] = Append(seen[p], i),
         \A q \in Port : q # p => seen'[q] = seen[q]
  PROVE  /\ \A q \in Port : \A n \in 1..Len(seen'[q]) :
              (n \in 1..Len(seen[q]) /\ seen'[q][n] = seen[q][n]) \/ (q = p /\ seen'[q][n] = i)
         /\ \A q \in Port : \A n \in 1..Len(seen[q]) : n \in 1..Len(seen'[q]) /\ seen'[q][n] = seen[q][n]
         /\ Len(seen[p]) + 1 \in 1..Len(seen'[p]) /\ seen'[p][Len(seen[p]) + 1] = i
  <1>1. seen[p] \in Seq(Nat)
    BY DEF TypeOK
  <1>2. /\ Len(seen'[p]) = Len(seen[p]) + 1 /\ seen'[p][Len(seen[p]) + 1] = i /\ Len(seen[p]) \in Nat
        /\ \A n \in 1..Len(seen[p]) : seen'[p][n] = seen[p][n]
        /\ \A n \in 1..(Len(seen[p]) + 1) : n \in 1..Len(seen[p]) \/ n = Len(seen[p]) + 1
    BY <1>1, AppendFacts
  <1>3. QED
    BY SMTT(40), <1>2

LEMMA OrderStep ==
  ASSUME TypeOK, SendInv, BusyInv, HeldInv, site' = site, [Next]_vars, NEW c \in Core,
         ~PushWord(Peer(c)), ~PopWord(c), WireInv(c), OrderInv(c)
  PROVE  OrderInv(c)'
  <1>0. Peer(c) \in Core /\ Peer(c) # c /\ Peer(Peer(c)) = c /\ \A d \in Core : d # c => d = Peer(c)
    BY PeerFacts
  <1>k. Id \subseteq Id' /\ \A i \in Id : offered'[i] = offered[i]
    BY OfferedKept
  <1>w. fifo'[c] = fifo[c] /\ accum'[c] = accum[c]
    BY WireAlone
  <1>s. ASSUME \A r \in Role : stash'[c][r] = stash[c][r] \/ stash'[c][r] = None,
               \A x \in Port : HostOf(x) = c => seen'[x] = seen[x],
               \A q \in Port : outgoing'[q] # None =>
                 (outgoing[q] # None /\ outgoing'[q] = outgoing[q]) \/ outgoing'[q].id \notin Id
        PROVE  OrderInv(c)'
    BY <1>k, <1>w, <1>s, OrderKept
  <1>1. ASSUME NEW p \in Port, NEW to \in Role, NEW w \in PayloadWords, BeginSend(p, to, w)
        PROVE  OrderInv(c)'
    <2>1. PICK f \in Frame : /\ f.id = Len(offered) + 1 /\ f.from = RoleOf(p) /\ f.to = to
                             /\ <<f.from, f.to>> \in site.flow
                             /\ \A q \in Port : outgoing'[q] = IF q = p THEN f ELSE outgoing[q]
                             /\ \A i \in Id' : i \in Id \/ i = f.id
                             /\ f.id \in Id' /\ f.id \notin Id /\ offered'[f.id] = f
                             /\ \A q \in Port : RoleOf(q) = RoleOf(p) => outgoing[q] = None
      BY <1>1, BeginFacts
    <2>2. stash' = stash /\ seen' = seen
      BY <1>1 DEF BeginSend
    <2>3. QED
      BY <2>1, <2>2, <1>s
  <1>2. ASSUME NEW p \in Port, PollSendSelf(p) \/ PollSendOversize(p) \/ CancelSend(p) PROVE OrderInv(c)'
    <2>1. stash' = stash /\ seen' = seen /\ outgoing' = [outgoing EXCEPT ![p] = None]
      BY <1>2 DEF PollSendSelf, PollSendOversize, CancelSend
    <2>2. \A q \in Port : outgoing'[q] # None => outgoing'[q] = outgoing[q]
      BY <2>1 DEF TypeOK
    <2>3. QED
      BY <2>1, <2>2, <1>s
  <1>3. ASSUME NEW p \in Port, PollSendLocal(p) PROVE OrderInv(c)'
    <2>1. PICK d \in Core : d = HostOf(p)
      BY PortFacts
    <2>2. PICK g \in RxFrame : SentLocally(p, d, g)
      BY <1>3, <2>1, LocalFacts
    <2>3. CASE d = c
      <3>1. /\ outgoing[p] # None /\ HostOf(p) = c /\ g.id = outgoing[p].id
            /\ UNCHANGED <<offered, fifo, accum, seen>>
            /\ \A q \in Port : outgoing'[q] = IF q = p THEN None ELSE outgoing[q]
            /\ \A r \in Role : stash'[c][r] = g \/ stash'[c][r] = stash[c][r]
        BY <2>2, <2>3 DEF SentLocally
      <3>2. QED
        BY <3>1, OrderLocal
    <2>4. CASE d # c
      <3>1. /\ \A r \in Role : stash'[c][r] = stash[c][r]
            /\ seen' = seen /\ \A q \in Port : outgoing'[q] = IF q = p THEN None ELSE outgoing[q]
        BY <2>2, <2>4 DEF SentLocally
      <3>2. QED
        BY <3>1, <1>s
    <2>5. QED
      BY <2>3, <2>4
  <1>4. ASSUME NEW p \in Port, PollRecvStash(p) PROVE OrderInv(c)'
    <2>1. PICK d \in Core : d = HostOf(p)
      BY PortFacts
    <2>2. PICK r \in Role : r = RoleOf(p)
      BY PortFacts
    <2>3. PICK f : f = stash[d][r]
      OBVIOUS
    <2>4. /\ f \in RxFrame
          /\ UNCHANGED <<site, fifo, accum, outgoing, pending, busy, fault, offered, sent, got, cut>>
          /\ \/ TakenFromStash(p, d, r, f)
             \/ /\ UNCHANGED <<stash, seen>>
                /\ \A q \in Port : rx'[q].frame = None \/ rx'[q].frame = rx[q].frame
      BY <1>4, <2>1, <2>2, <2>3, TakeFacts
    <2>5. CASE UNCHANGED <<stash, seen>>
      BY <2>4, <2>5, <1>s
    <2>6. CASE TakenFromStash(p, d, r, f)
      <3>1. /\ f = stash[d][r] /\ f # None /\ seen'[p] = Append(seen[p], f.id)
            /\ \A q \in Port : q # p => seen'[q] = seen[q]
            /\ \A e \in Core, q \in Role : stash'[e][q] = IF e = d /\ q = r THEN None ELSE stash[e][q]
        BY <2>6 DEF TakenFromStash
      <3>2. CASE d = c
        <4>1. \A x \in Port : \A n \in 1..Len(seen'[x]) :
                (n \in 1..Len(seen[x]) /\ seen'[x][n] = seen[x][n]) \/ (x = p /\ seen'[x][n] = f.id)
          BY <2>4, <3>1, RxFrameFacts, TakenSeen
        <4>2. \A q \in Role : stash'[c][q] = IF q = r THEN None ELSE stash[c][q]
          BY <3>1, <3>2
        <4>3. HostOf(p) = c /\ f = stash[c][r] /\ f # None /\ UNCHANGED <<offered, fifo, accum, outgoing>>
          BY <2>1, <2>3, <2>4, <3>1, <3>2
        <4>4. QED
          BY <2>2, <4>1, <4>2, <4>3, OrderTaken
      <3>3. CASE d # c
        <4>1. \A q \in Role : stash'[c][q] = stash[c][q]
          BY <3>1, <3>3
        <4>2. \A x \in Port : HostOf(x) = c => seen'[x] = seen[x]
          BY <2>1, <3>1, <3>3
        <4>3. QED
          BY <2>4, <4>1, <4>2, <1>s
      <3>4. QED
        BY <3>2, <3>3
    <2>7. QED
      BY <2>4, <2>5, <2>6
  <1>5. CASE PushWord(c)
    <2>1. PICK p : p = busy[c].port
      BY SMTT(40)
    <2>5. \/ UNCHANGED <<busy, outgoing, sent>>
          \/ outgoing' = [outgoing EXCEPT ![p] = None]
      BY SMTT(40), <1>5, <2>1 DEF PushWord
    <2>6. stash' = stash /\ seen' = seen
      BY <1>5 DEF PushWord
    <2>7. \A q \in Port : outgoing'[q] # None => outgoing'[q] = outgoing[q]
      BY <2>5 DEF TypeOK
    <2>8. QED
      BY <2>6, <2>7, <1>s
  <1>6. CASE PopWord(Peer(c))
    <2>1. PICK d \in Core : d = Peer(c) /\ d # c
      BY <1>0
    <2>2. PICK p : p = busy[d].port
      OBVIOUS
    <2>3. PICK a : a = Append(accum[d], Head(fifo[d]))
      OBVIOUS
    <2>4. PICK f : f = Decoded(a)
      OBVIOUS
    <2>5. /\ PopCommon(d, p, a)
          /\ \/ PopRejected(d, a)
             \/ PopMore(a)
             \/ PopFrame(d, a, f) /\ (PopStaged(d, p, f) \/ PopStashed(d, p, f) \/ PopDropped(d))
      BY <1>6, <2>1, <2>2, <2>3, <2>4, PopFacts
    <2>6. outgoing' = outgoing /\ p \in Port /\ HostOf(p) = d
      BY <2>5 DEF PopCommon
    <2>7. \A r \in Role : stash'[c][r] = stash[c][r]
      BY <2>1, <2>5 DEF PopRejected, PopMore, PopStaged, PopStashed, PopDropped
    <2>8. \A x \in Port : HostOf(x) = c => seen'[x] = seen[x]
      <3>1. CASE seen' = seen
        BY <3>1
      <3>2. CASE PopFrame(d, a, f) /\ PopStaged(d, p, f)
        <4>1. f \in RxFrame /\ Stage(p, f)
          BY <3>2 DEF PopFrame, PopStaged
        <4>2. \A q \in Port : q # p => seen'[q] = seen[q]
          BY <2>6, <4>1, StageEffect
        <4>3. QED
          BY <2>1, <2>6, <4>2
      <3>3. QED
        BY <2>5, <3>1, <3>2 DEF PopRejected, PopMore, PopStashed, PopDropped
    <2>9. QED
      BY <2>6, <2>7, <2>8, <1>s
  <1>7. CASE UNCHANGED <<stash, seen, outgoing>>
    BY <1>7, <1>s
  <1>8. QED
    BY <1>0, <1>1, <1>2, <1>3, <1>4, <1>5, <1>6, <1>7
       DEF Next, PortStep, CoreStep, vars, PollSend, PollRecvRequeued, PollRecvLoop, Requeue,
           SendPending, PopNone, DeadlineExpired

-----------------------------------------------------------------------------
(* The invariant.                                                          *)

LEMMA ChannelStep ==
  ASSUME TypeOK, OfferedInv, SendInv, BusyInv, HeldInv, ChannelInv, site' = site, [Next]_vars
  PROVE  ChannelInv'
  <1>1. SUFFICES ASSUME NEW c \in Core, ~cut'[Peer(c)]
                 PROVE  WireInv(c)' /\ PushInv(c)' /\ CountInv(c)' /\ OrderInv(c)'
    BY DEF ChannelInv, Core
  <1>2. Peer(c) \in Core
    BY PeerFacts
  <1>3. ~cut[Peer(c)]
    BY <1>1, <1>2, CutKept
  <1>4. WireInv(c) /\ PushInv(c) /\ CountInv(c) /\ OrderInv(c)
    BY <1>3 DEF ChannelInv
  <1>5. CASE PushWord(Peer(c))
    <2>1. PICK p : p = busy[Peer(c)].port
      OBVIOUS
    <2>2. PICK f : f = pending[p].frame
      OBVIOUS
    <2>3. PICK k : k = pending[p].next
      OBVIOUS
    <2>4. PICK w : w = [id |-> f.id, k |-> k]
      OBVIOUS
    <2>5. PushPlaced(c, p, f, k, w) /\ PushEffect(c, p, f, k)
      BY <1>4, <1>5, <2>1, <2>2, <2>3, <2>4, PushOnWire
    <2>6. WireInv(c)'
      BY <1>4, <2>5, PushWire
    <2>7. PushInv(c)'
      BY <2>5, PushPush
    <2>8. CountInv(c)'
      BY <1>4, <2>5, PushCount
    <2>9. OrderInv(c)'
      BY <1>4, <2>5, PushOrder
    <2>10. QED
      BY <2>6, <2>7, <2>8, <2>9
  <1>6. CASE PopWord(c)
    <2>1. PICK p : p = busy[c].port
      OBVIOUS
    <2>2. PICK a : a = Append(accum[c], Head(fifo[c]))
      OBVIOUS
    <2>3. PICK f : f = Decoded(a)
      OBVIOUS
    <2>4. PICK h : h = fifo[c][1]
      OBVIOUS
    <2>5. /\ Popped(c, p, a, h, f)
          /\ (~Ends(h) /\ PopMore(a)) \/ PoppedFrame(c, p, h, f)
      BY <1>4, <1>6, <2>1, <2>2, <2>3, <2>4, PopOnWire
    <2>6. WireInv(c)'
      BY <1>4, <2>5, PopWire
    <2>7. PushInv(c)'
      BY <1>4, <2>5, PopPush
    <2>8. CountInv(c)'
      BY <1>4, <2>5, PopCount
    <2>9. OrderInv(c)'
      BY <1>4, <2>1, <2>5, PopOrder
    <2>10. QED
      BY <2>6, <2>7, <2>8, <2>9
  <1>7. CASE ~PushWord(Peer(c)) /\ ~PopWord(c)
    <2>1. /\ fifo'[c] = fifo[c] /\ accum'[c] = accum[c]
          /\ sent'[Peer(c)] = sent[Peer(c)] /\ got'[c] = got[c]
      BY <1>7, WireAlone
    <2>2. Id \subseteq Id' /\ \A i \in Id : offered'[i] = offered[i]
      BY OfferedKept
    <2>3. WireInv(c)' /\ Between(c)' = Between(c) /\ LastWord(c)' = LastWord(c)
      BY <1>4, <2>1, <2>2, WireKept
    <2>4. PushInv(c)'
      BY <1>1, <1>4, <1>7, <2>3, PushStep
    <2>5. CountInv(c)'
      BY <1>4, <2>1, <2>2, CountKept
    <2>6. OrderInv(c)'
      BY <1>4, <1>7, OrderStep
    <2>7. QED
      BY <2>3, <2>4, <2>5, <2>6
  <1>8. QED
    BY <1>5, <1>6, <1>7

\* One more frame at a port, younger than those of its sender before it.
LEMMA OrderAppend ==
  ASSUME TypeOK, NEW x \in Port, NEW i \in Nat, seen'[x] = Append(seen[x], i), offered' = offered,
         \A n \in 1..Len(seen[x]) : SameSender(seen[x][n], i) => seen[x][n] < i,
         \A m, n \in 1..Len(seen[x]) :
           m < n /\ offered[seen[x][m]].from = offered[seen[x][n]].from => seen[x][m] < seen[x][n]
  PROVE  \A m, n \in 1..Len(seen'[x]) :
           m < n /\ offered'[seen'[x][m]].from = offered'[seen'[x][n]].from => seen'[x][m] < seen'[x][n]
  <1>1. seen[x] \in Seq(Nat)
    BY DEF TypeOK
  <1>2. /\ Len(seen'[x]) = Len(seen[x]) + 1 /\ seen'[x][Len(seen[x]) + 1] = i /\ Len(seen[x]) \in Nat
        /\ \A n \in 1..Len(seen[x]) : seen'[x][n] = seen[x][n]
        /\ \A n \in 1..(Len(seen[x]) + 1) : n \in 1..Len(seen[x]) \/ n = Len(seen[x]) + 1
    BY <1>1, AppendFacts
  <1>3. SUFFICES ASSUME NEW m \in 1..Len(seen'[x]), NEW n \in 1..Len(seen'[x]), m < n,
                        offered[seen'[x][m]].from = offered[seen'[x][n]].from
                 PROVE  seen'[x][m] < seen'[x][n]
    OBVIOUS
  <1>4. m \in 1..Len(seen[x]) /\ seen'[x][m] = seen[x][m]
    BY <1>2, <1>3
  <1>5. CASE n \in 1..Len(seen[x])
    BY <1>2, <1>3, <1>4, <1>5
  <1>6. CASE n = Len(seen[x]) + 1
    BY SMTT(40), <1>2, <1>3, <1>4, <1>6 DEF SameSender
  <1>7. QED
    BY <1>2, <1>5, <1>6

LEMMA InOrderStep ==
  ASSUME TypeOK, SendInv, BusyInv, HeldInv, ChannelInv, InOrder, site' = site, [Next]_vars
  PROVE  InOrder'
  <1>0. Port' = Port /\ Id \subseteq Id' /\ \A i \in Id : offered'[i] = offered[i]
    BY SameSite, OfferedKept
  <1>1. SUFFICES ASSUME NEW x \in Port, ~cut'[Peer(HostOf(x))]
                 PROVE  \A m, n \in 1..Len(seen'[x]) :
                          m < n /\ offered'[seen'[x][m]].from = offered'[seen'[x][n]].from
                            => seen'[x][m] < seen'[x][n]
    BY <1>0 DEF InOrder
  <1>2. PICK c \in Core : c = HostOf(x) /\ Peer(c) \in Core
    BY PortFacts, PeerFacts
  <1>3. ~cut[Peer(c)]
    BY <1>1, <1>2, CutKept
  <1>4. WireInv(c) /\ OrderInv(c)
    BY <1>3 DEF ChannelInv
  <1>5. \A m, n \in 1..Len(seen[x]) :
          m < n /\ offered[seen[x][m]].from = offered[seen[x][n]].from => seen[x][m] < seen[x][n]
    BY <1>2, <1>3 DEF InOrder
  <1>6. CASE seen'[x] = seen[x]
    <2>1. \A n \in 1..Len(seen[x]) : seen[x][n] \in Id
      BY DEF HeldInv
    <2>2. QED
      BY <1>0, <1>5, <1>6, <2>1
  <1>7. ASSUME NEW p \in Port, PollRecvStash(p) PROVE x = p \/ seen'[x] = seen[x]
    <2>1. PICK f : seen' = [seen EXCEPT ![p] = Append(@, f.id)] \/ seen' = seen
      BY <1>7 DEF PollRecvStash, Stage
    <2>2. QED
      BY <2>1 DEF TypeOK
  <1>8. CASE PollRecvStash(x)
    <2>1. PICK r \in Role : r = RoleOf(x)
      BY PortFacts
    <2>2. PICK f : f = stash[c][r]
      OBVIOUS
    <2>3. /\ f \in RxFrame
          /\ UNCHANGED <<site, fifo, accum, outgoing, pending, busy, fault, offered, sent, got, cut>>
          /\ \/ TakenFromStash(x, c, r, f)
             \/ /\ UNCHANGED <<stash, seen>>
                /\ \A q \in Port : rx'[q].frame = None \/ rx'[q].frame = rx[q].frame
      BY <1>2, <1>8, <2>1, <2>2, TakeFacts
    <2>4. CASE TakenFromStash(x, c, r, f)
      <3>1. f.id \in Nat /\ seen'[x] = Append(seen[x], f.id) /\ f # None /\ FrameTargetsRxLane(f, x)
        BY <2>3, <2>4, RxFrameFacts DEF TakenFromStash
      <3>2. \A n \in 1..Len(seen[x]) : SameSender(seen[x][n], f.id) => seen[x][n] < f.id
        BY <1>2, <1>4, <2>1, <2>2, <3>1 DEF OrderInv
      <3>3. offered' = offered
        BY <2>3
      <3>4. QED
        BY <1>5, <3>1, <3>2, <3>3, OrderAppend
    <2>5. QED
      BY <1>6, <2>3, <2>4
  <1>9. ASSUME NEW d \in Core, PopWord(d), d # c PROVE seen'[x] = seen[x]
    <2>1. PICK p : p = busy[d].port
      OBVIOUS
    <2>2. PICK f : (seen' = [seen EXCEPT ![p] = Append(@, f.id)]) \/ seen' = seen
      BY <1>9, <2>1 DEF PopWord, Stage
    <2>3. HostOf(p) = d
      <3>1. busy[d] # None
        BY <1>9 DEF PopWord
      <3>2. QED
        BY <2>1, <3>1 DEF BusyInv, PollInv
    <2>4. QED
      BY SMTT(40), <1>2, <1>9, <2>2, <2>3 DEF TypeOK
  <1>10. CASE PopWord(c)
    <2>1. PICK p : p = busy[c].port
      OBVIOUS
    <2>2. PICK a : a = Append(accum[c], Head(fifo[c]))
      OBVIOUS
    <2>3. PICK f : f = Decoded(a)
      OBVIOUS
    <2>4. PICK h : h = fifo[c][1]
      OBVIOUS
    <2>5. /\ Popped(c, p, a, h, f)
          /\ (~Ends(h) /\ PopMore(a)) \/ PoppedFrame(c, p, h, f)
      BY <1>4, <1>10, <2>1, <2>2, <2>3, <2>4, PopOnWire
    <2>6. CASE PoppedFrame(c, p, h, f) /\ PopStaged(c, p, f)
      <3>1. /\ p \in Port /\ f \in RxFrame /\ f.id = h.id /\ Stage(p, f)
            /\ fifo[c] # <<>> /\ offered' = offered
        BY <2>5, <2>6 DEF Popped, PopCommon, PoppedFrame, PopStaged
      <3>2. seen'[p] = Append(seen[p], f.id) /\ \A q \in Port : q # p => seen'[q] = seen[q]
        BY <3>1, StageEffect
      <3>3. CASE x = p
        <4>1. f.id \in Nat
          BY <3>1, RxFrameFacts
        <4>2. 1 \in 1..Len(fifo[c])
          BY <3>1 DEF TypeOK
        <4>3. \A n \in 1..Len(seen[x]) : SameSender(seen[x][n], f.id) => seen[x][n] < f.id
          BY <1>2, <1>4, <2>4, <3>1, <4>2 DEF OrderInv, OlderThanWire
        <4>4. QED
          BY ZenonT(60), <1>5, <3>1, <3>2, <3>3, <4>1, <4>3, OrderAppend
      <3>4. QED
        BY <1>6, <3>2, <3>3
    <2>7. CASE seen' = seen
      BY <1>6, <2>7
    <2>8. QED
      BY <2>5, <2>6, <2>7 DEF PopMore, PoppedFrame, PopStashed, PopDropped
  <1>11. CASE seen' = seen
    BY <1>6, <1>11
  <1>12. QED
    BY ZenonT(60), <1>6, <1>7, <1>8, <1>9, <1>10, <1>11
       DEF Next, PortStep, CoreStep, vars, BeginSend, PollSendSelf, PollSendOversize, PollSendLocal,
           PollSend, CancelSend, PollRecvRequeued, PollRecvLoop, Requeue, PushWord, SendPending,
           PopNone, DeadlineExpired

\* What a core holds, and that it keeps it.
LEMMA HeldIs ==
  ASSUME NEW c \in Core, NEW i
  PROVE  i \in Held(c) <=> \/ \E r \in Role : stash[c][r] # None /\ i = stash[c][r].id
                           \/ \E p \in Port : HostOf(p) = c /\ \E n \in 1..Len(seen[p]) : i = seen[p][n]
  BY DEF Held

LEMMA HeldIsNext ==
  ASSUME site' = site, NEW c \in Core, NEW i
  PROVE  i \in Held(c)' <=> \/ \E r \in Role : stash'[c][r] # None /\ i = stash'[c][r].id
                            \/ \E p \in Port : HostOf(p) = c /\ \E n \in 1..Len(seen'[p]) : i = seen'[p][n]
  <1>1. Port' = Port
    BY SameSite
  <1>2. QED
    BY <1>1 DEF Held

LEMMA HeldLonger ==
  ASSUME TypeOK, site' = site, NEW c \in Core,
         \A r \in Role : stash[c][r] # None =>
           \/ stash'[c][r] = stash[c][r]
           \/ \E p \in Port : HostOf(p) = c /\ \E n \in 1..Len(seen'[p]) : stash[c][r].id = seen'[p][n],
         \A p \in Port : \A n \in 1..Len(seen[p]) : n \in 1..Len(seen'[p]) /\ seen'[p][n] = seen[p][n]
  PROVE  \A i \in Held(c) : i \in Held(c)'
  <1>1. SUFFICES ASSUME NEW i \in Held(c) PROVE i \in Held(c)'
    OBVIOUS
  <1>2. ASSUME NEW r \in Role, stash[c][r] # None, i = stash[c][r].id PROVE i \in Held(c)'
    BY <1>2, HeldIsNext
  <1>3. ASSUME NEW p \in Port, HostOf(p) = c, NEW n \in 1..Len(seen[p]), i = seen[p][n] PROVE i \in Held(c)'
    <2>1. n \in 1..Len(seen'[p]) /\ i = seen'[p][n]
      BY <1>3
    <2>2. QED
      BY <1>3, <2>1, HeldIsNext
  <1>4. QED
    BY <1>1, <1>2, <1>3, HeldIs

\* One more frame at a port of the core.
LEMMA StageKeeps ==
  ASSUME TypeOK, site' = site, NEW c \in Core, NEW p \in Port, NEW i \in Nat,
         seen'[p] = Append(seen[p], i), \A q \in Port : q # p => seen'[q] = seen[q]
  PROVE  /\ \A q \in Port : \A n \in 1..Len(seen[q]) : n \in 1..Len(seen'[q]) /\ seen'[q][n] = seen[q][n]
         /\ \E n \in 1..Len(seen'[p]) : i = seen'[p][n]
         /\ HostOf(p) = c => i \in Held(c)'
  <1>1. /\ \A q \in Port : \A n \in 1..Len(seen[q]) : n \in 1..Len(seen'[q]) /\ seen'[q][n] = seen[q][n]
        /\ Len(seen[p]) + 1 \in 1..Len(seen'[p]) /\ seen'[p][Len(seen[p]) + 1] = i
    BY TakenSeen
  <1>2. \E n \in 1..Len(seen'[p]) : i = seen'[p][n]
    BY <1>1
  <1>3. HostOf(p) = c => i \in Held(c)'
    BY <1>2, HeldIsNext
  <1>4. QED
    BY <1>1, <1>2, <1>3

LEMMA HeldGrows ==
  ASSUME TypeOK, SendInv, BusyInv, HeldInv, site' = site, [Next]_vars, NEW c \in Core
  PROVE  \A i \in Held(c) : i \in Held(c)'
  <1>1. CASE UNCHANGED <<stash, seen>>
    <2>1. \A p \in Port : \A n \in 1..Len(seen[p]) : n \in 1..Len(seen'[p]) /\ seen'[p][n] = seen[p][n]
      BY <1>1
    <2>2. QED
      BY <1>1, <2>1, HeldLonger
  <1>2. ASSUME NEW p \in Port, PollSendLocal(p) PROVE \A i \in Held(c) : i \in Held(c)'
    <2>1. PICK d \in Core : d = HostOf(p)
      BY PortFacts
    <2>2. PICK g \in RxFrame : SentLocally(p, d, g)
      BY <1>2, <2>1, LocalFacts
    <2>3. seen' = seen /\ \A r \in Role : stash[c][r] # None => stash'[c][r] = stash[c][r]
      BY <2>2 DEF SentLocally
    <2>4. \A q \in Port : \A n \in 1..Len(seen[q]) : n \in 1..Len(seen'[q]) /\ seen'[q][n] = seen[q][n]
      BY <2>3
    <2>5. QED
      BY <2>3, <2>4, HeldLonger
  <1>3. ASSUME NEW p \in Port, PollRecvStash(p) PROVE \A i \in Held(c) : i \in Held(c)'
    <2>1. PICK d \in Core : d = HostOf(p)
      BY PortFacts
    <2>2. PICK r \in Role : r = RoleOf(p)
      BY PortFacts
    <2>3. PICK f : f = stash[d][r]
      OBVIOUS
    <2>4. /\ f \in RxFrame
          /\ UNCHANGED <<site, fifo, accum, outgoing, pending, busy, fault, offered, sent, got, cut>>
          /\ \/ TakenFromStash(p, d, r, f)
             \/ /\ UNCHANGED <<stash, seen>>
                /\ \A q \in Port : rx'[q].frame = None \/ rx'[q].frame = rx[q].frame
      BY <1>3, <2>1, <2>2, <2>3, TakeFacts
    <2>5. CASE TakenFromStash(p, d, r, f)
      <3>1. /\ f = stash[d][r] /\ f # None /\ seen'[p] = Append(seen[p], f.id)
            /\ \A q \in Port : q # p => seen'[q] = seen[q]
            /\ \A e \in Core, q \in Role : stash'[e][q] = IF e = d /\ q = r THEN None ELSE stash[e][q]
        BY <2>5 DEF TakenFromStash
      <3>2. f.id \in Nat
        BY <2>4, RxFrameFacts
      <3>3. /\ \A q \in Port : \A n \in 1..Len(seen[q]) : n \in 1..Len(seen'[q]) /\ seen'[q][n] = seen[q][n]
            /\ \E n \in 1..Len(seen'[p]) : f.id = seen'[p][n]
        BY <3>1, <3>2, StageKeeps
      <3>4. \A q \in Role : stash[c][q] # None =>
              \/ stash'[c][q] = stash[c][q]
              \/ \E x \in Port : HostOf(x) = c /\ \E n \in 1..Len(seen'[x]) : stash[c][q].id = seen'[x][n]
        <4>1. SUFFICES ASSUME NEW q \in Role, stash'[c][q] # stash[c][q]
                       PROVE  \E x \in Port : HostOf(x) = c /\ \E n \in 1..Len(seen'[x]) : stash[c][q].id = seen'[x][n]
          OBVIOUS
        <4>2. c = d /\ q = r
          BY <3>1, <4>1
        <4>3. HostOf(p) = c /\ f.id = stash[c][q].id
          BY <2>1, <3>1, <4>2
        <4>4. QED
          BY <3>3, <4>3
      <3>5. QED
        BY <3>3, <3>4, HeldLonger
    <2>6. QED
      BY <1>1, <2>4, <2>5
  <1>4. ASSUME NEW d \in Core, PopWord(d) PROVE \A i \in Held(c) : i \in Held(c)'
    <2>1. PICK p : p = busy[d].port
      OBVIOUS
    <2>2. PICK a : a = Append(accum[d], Head(fifo[d]))
      OBVIOUS
    <2>3. PICK f : f = Decoded(a)
      OBVIOUS
    <2>4. /\ PopCommon(d, p, a)
          /\ \/ PopRejected(d, a)
             \/ PopMore(a)
             \/ PopFrame(d, a, f) /\ (PopStaged(d, p, f) \/ PopStashed(d, p, f) \/ PopDropped(d))
      BY <1>4, <2>1, <2>2, <2>3, PopFacts
    <2>5. CASE PopFrame(d, a, f) /\ PopStaged(d, p, f)
      <3>1. p \in Port /\ f \in RxFrame /\ Stage(p, f) /\ stash' = stash
        BY <2>4, <2>5 DEF PopCommon, PopFrame, PopStaged
      <3>2. seen'[p] = Append(seen[p], f.id) /\ \A q \in Port : q # p => seen'[q] = seen[q]
        BY <3>1, StageEffect
      <3>3. f.id \in Nat
        BY <3>1, RxFrameFacts
      <3>4. \A q \in Port : \A n \in 1..Len(seen[q]) : n \in 1..Len(seen'[q]) /\ seen'[q][n] = seen[q][n]
        BY <3>1, <3>2, <3>3, StageKeeps
      <3>5. QED
        BY <3>1, <3>4, HeldLonger
    <2>6. CASE PopFrame(d, a, f) /\ PopStashed(d, p, f)
      <3>1. seen' = seen /\ \A r \in Role : stash[c][r] # None => stash'[c][r] = stash[c][r]
        BY <2>6 DEF PopStashed
      <3>2. \A q \in Port : \A n \in 1..Len(seen[q]) : n \in 1..Len(seen'[q]) /\ seen'[q][n] = seen[q][n]
        BY SMTT(40), <3>1
      <3>3. QED
        BY <3>1, <3>2, HeldLonger
    <2>7. QED
      BY <1>1, <2>4, <2>5, <2>6 DEF PopRejected, PopMore, PopDropped
  <1>5. QED
    BY ZenonT(60), <1>1, <1>2, <1>3, <1>4
       DEF Next, PortStep, CoreStep, vars, BeginSend, PollSendSelf, PollSendOversize,
           PollSend, CancelSend, PollRecvRequeued, PollRecvLoop, Requeue, PushWord, SendPending,
           PopNone, DeadlineExpired

\* A core that failed takes no further step.
LEMMA FaultKept ==
  ASSUME TypeOK, SendInv, BusyInv, HeldInv, [Next]_vars, NEW c \in Core, fault[c] # "none"
  PROVE  fault'[c] = fault[c]
  <1>1. CASE fault' = fault
    BY <1>1
  <1>2. ASSUME NEW p \in Port, PollSendOversize(p) PROVE fault'[c] = fault[c]
    BY <1>2 DEF PollSendOversize, Idle, Fail, TypeOK
  <1>3. ASSUME NEW p \in Port, PollSendLocal(p) PROVE fault'[c] = fault[c]
    <2>1. PICK d \in Core : d = HostOf(p)
      BY PortFacts
    <2>2. PICK g \in RxFrame : SentLocally(p, d, g)
      BY <1>3, <2>1, LocalFacts
    <2>3. QED
      BY <2>2 DEF SentLocally
  <1>4. ASSUME NEW d \in Core, PopWord(d) PROVE fault'[c] = fault[c]
    <2>1. PICK p : p = busy[d].port
      OBVIOUS
    <2>2. PICK a : a = Append(accum[d], Head(fifo[d]))
      OBVIOUS
    <2>3. PICK f : f = Decoded(a)
      OBVIOUS
    <2>4. /\ PopCommon(d, p, a)
          /\ \/ PopRejected(d, a)
             \/ PopMore(a)
             \/ PopFrame(d, a, f) /\ (PopStaged(d, p, f) \/ PopStashed(d, p, f) \/ PopDropped(d))
      BY <1>4, <2>1, <2>2, <2>3, PopFacts
    <2>5. d # c
      BY <2>4 DEF PopCommon
    <2>6. QED
      BY <2>4, <2>5 DEF PopRejected, PopMore, PopStaged, PopStashed, PopDropped
  <1>5. ASSUME NEW d \in Core, DeadlineExpired(d) PROVE fault'[c] = fault[c]
    <2>1. fault[d] = "none" /\ fault' = [fault EXCEPT ![d] = "Deadline"]
      BY <1>5 DEF DeadlineExpired, BusyInv, PollInv, Fail
    <2>2. QED
      BY <2>1 DEF TypeOK
  <1>6. QED
    BY ZenonT(60), <1>1, <1>2, <1>3, <1>4, <1>5
       DEF Next, PortStep, CoreStep, vars, BeginSend, PollSendSelf, PollSend, CancelSend,
           PollRecvRequeued, PollRecvStash, PollRecvLoop, Requeue, PushWord, SendPending, PopNone

LEMMA LostStep ==
  ASSUME TypeOK, SendInv, BusyInv, HeldInv, NothingLost, site' = site, [Next]_vars
  PROVE  NothingLost'
  <1>1. SUFFICES ASSUME NEW c \in Core, ~cut'[Peer(c)], fault'[c] # "Capacity"
                 PROVE  \A n \in 1..Len(got'[c]) : got'[c][n] \in Held(c)'
    BY DEF NothingLost, Core
  <1>2. ~cut[Peer(c)]
    BY <1>1, CutKept, PeerFacts
  <1>3. fault[c] # "Capacity"
    BY <1>1, FaultKept
  <1>4. \A n \in 1..Len(got[c]) : got[c][n] \in Held(c)
    BY <1>2, <1>3 DEF NothingLost
  <1>5. \A i \in Held(c) : i \in Held(c)'
    BY HeldGrows
  <1>6. CASE got'[c] = got[c]
    BY <1>4, <1>5, <1>6
  <1>7. CASE PopWord(c)
    <2>1. PICK p : p = busy[c].port
      OBVIOUS
    <2>2. PICK a : a = Append(accum[c], Head(fifo[c]))
      OBVIOUS
    <2>3. PICK f : f = Decoded(a)
      OBVIOUS
    <2>4. /\ PopCommon(c, p, a)
          /\ \/ PopRejected(c, a)
             \/ PopMore(a)
             \/ PopFrame(c, a, f) /\ (PopStaged(c, p, f) \/ PopStashed(c, p, f) \/ PopDropped(c))
      BY <1>7, <2>1, <2>2, <2>3, PopFacts
    <2>5. CASE PopFrame(c, a, f) /\ (PopStaged(c, p, f) \/ PopStashed(c, p, f) \/ PopDropped(c))
      <3>1. f \in RxFrame /\ got'[c] = Append(got[c], f.id) /\ f.id \in Nat
        BY <2>5, RxFrameFacts DEF PopFrame, TypeOK
      <3>2. f.id \in Held(c)'
        <4>1. CASE PopStaged(c, p, f)
          <5>1. p \in Port /\ HostOf(p) = c /\ Stage(p, f)
            BY <2>4, <4>1 DEF PopCommon, PopStaged
          <5>2. seen'[p] = Append(seen[p], f.id) /\ \A q \in Port : q # p => seen'[q] = seen[q]
            BY <3>1, <5>1, StageEffect
          <5>3. QED
            BY <3>1, <5>1, <5>2, StageKeeps
        <4>2. CASE PopStashed(c, p, f)
          <5>1. f.to \in Role /\ stash'[c][f.to] = f /\ f # None
            BY <3>1, <4>2, RxFrameFacts DEF PopStashed
          <5>2. QED
            BY <5>1, HeldIsNext
        <4>3. CASE PopDropped(c)
          BY <1>1, <4>3 DEF PopDropped
        <4>4. QED
          BY <2>5, <4>1, <4>2, <4>3
      <3>3. got[c] \in Seq(Nat)
        BY DEF TypeOK
      <3>4. /\ Len(got'[c]) = Len(got[c]) + 1 /\ got'[c][Len(got[c]) + 1] = f.id
            /\ \A n \in 1..Len(got[c]) : got'[c][n] = got[c][n]
            /\ \A n \in 1..(Len(got[c]) + 1) : n \in 1..Len(got[c]) \/ n = Len(got[c]) + 1
        BY <3>1, <3>3, AppendFacts
      <3>5. QED
        BY <1>4, <1>5, <3>2, <3>4
    <2>6. QED
      BY <1>6, <2>4, <2>5 DEF PopRejected, PopMore
  <1>8. CASE ~PopWord(c)
    <2>1. ASSUME NEW d \in Core, PopWord(d) PROVE got'[c] = got[c]
      <3>1. d # c
        BY <1>8, <2>1
      <3>2. got' = got \/ \E x : got' = [got EXCEPT ![d] = x]
        BY SMTT(40), <2>1 DEF PopWord
      <3>3. QED
        BY <3>1, <3>2 DEF TypeOK
    <2>2. got'[c] = got[c]
      BY ZenonT(60), <1>8, <2>1
       DEF Next, PortStep, CoreStep, vars, BeginSend, PollSendSelf, PollSendOversize, PollSendLocal,
           PollSend, CancelSend, PollRecvRequeued, PollRecvStash, PollRecvLoop, Requeue, PushWord,
           SendPending, PopNone, DeadlineExpired
    <2>3. QED
      BY <1>6, <2>2
  <1>9. QED
    BY <1>7, <1>8

-----------------------------------------------------------------------------
(* Whole frames.                                                           *)

RightFrame(f) == f.whole /\ f.to = offered[f.id].to /\ f.lane = offered[f.id].lane

WholeAt(c) ==
  /\ fault[c] # "Failed"
  /\ \A r \in Role : stash[c][r] # None => RightFrame(stash[c][r])
  /\ \A p \in Port : HostOf(p) = c /\ rx[p].frame # None => RightFrame(rx[p].frame)

LEMMA WholeIs == WholeFrames <=> \A c \in Core : ~cut[Peer(c)] => WholeAt(c)
  BY DEF WholeFrames, WholeAt, RightFrame

LEMMA WholeIsNext == WholeFrames' <=> \A c \in Core : ~cut'[Peer(c)] => WholeAt(c)'
  BY DEF WholeFrames, WholeAt, RightFrame, Core

\* What a core holds after a step was there before, or is right.
LEMMA WholeKept ==
  ASSUME TypeOK, HeldInv, site' = site, Id \subseteq Id', \A i \in Id : offered'[i] = offered[i],
         NEW c \in Core, WholeAt(c), fault'[c] # "Failed", NEW g, g.id \in Id, RightFrame(g),
         \A r \in Role : stash'[c][r] # None => stash'[c][r] = g \/ stash'[c][r] = stash[c][r],
         \A p \in Port : HostOf(p) = c /\ rx'[p].frame # None =>
           rx'[p].frame = g \/ rx'[p].frame = rx[p].frame
  PROVE  WholeAt(c)'
  <1>1. Port' = Port
    BY SameSite
  <1>2. ASSUME NEW f, f.id \in Id, RightFrame(f)
        PROVE  f.whole /\ f.to = offered'[f.id].to /\ f.lane = offered'[f.id].lane
    BY <1>2 DEF RightFrame
  <1>3. \A r \in Role : stash'[c][r] # None =>
          /\ stash'[c][r].whole /\ stash'[c][r].to = offered'[stash'[c][r].id].to
          /\ stash'[c][r].lane = offered'[stash'[c][r].id].lane
    <2>1. SUFFICES ASSUME NEW r \in Role, NEW f, f = stash'[c][r], f # None
                   PROVE  f.whole /\ f.to = offered'[f.id].to /\ f.lane = offered'[f.id].lane
      OBVIOUS
    <2>2. f.id \in Id /\ RightFrame(f)
      BY <2>1 DEF HeldInv, WholeAt
    <2>3. QED
      BY <1>2, <2>2
  <1>4. \A p \in Port : HostOf(p) = c /\ rx'[p].frame # None =>
          /\ rx'[p].frame.whole /\ rx'[p].frame.to = offered'[rx'[p].frame.id].to
          /\ rx'[p].frame.lane = offered'[rx'[p].frame.id].lane
    <2>1. SUFFICES ASSUME NEW p \in Port, HostOf(p) = c, NEW f, f = rx'[p].frame, f # None
                   PROVE  f.whole /\ f.to = offered'[f.id].to /\ f.lane = offered'[f.id].lane
      OBVIOUS
    <2>2. f.id \in Id /\ RightFrame(f)
      BY <2>1 DEF HeldInv, WholeAt
    <2>3. QED
      BY <1>2, <2>2
  <1>5. QED
    BY <1>1, <1>3, <1>4 DEF WholeAt, RightFrame

\* The same for a step that brings no frame.
LEMMA WholeSame ==
  ASSUME TypeOK, HeldInv, site' = site, Id \subseteq Id', \A i \in Id : offered'[i] = offered[i],
         NEW c \in Core, WholeAt(c), fault'[c] # "Failed",
         \A r \in Role : stash'[c][r] # None => stash'[c][r] = stash[c][r],
         \A p \in Port : HostOf(p) = c /\ rx'[p].frame # None => rx'[p].frame = rx[p].frame
  PROVE  WholeAt(c)'
  <1>1. Port' = Port
    BY SameSite
  <1>2. \A r \in Role : stash'[c][r] # None =>
          /\ stash'[c][r].whole /\ stash'[c][r].to = offered'[stash'[c][r].id].to
          /\ stash'[c][r].lane = offered'[stash'[c][r].id].lane
    BY DEF HeldInv, WholeAt, RightFrame
  <1>3. \A p \in Port : HostOf(p) = c /\ rx'[p].frame # None =>
          /\ rx'[p].frame.whole /\ rx'[p].frame.to = offered'[rx'[p].frame.id].to
          /\ rx'[p].frame.lane = offered'[rx'[p].frame.id].lane
    BY SMTT(40) DEF HeldInv, WholeAt, RightFrame
  <1>4. QED
    BY <1>1, <1>2, <1>3 DEF WholeAt, RightFrame

LEMMA WholeStep ==
  ASSUME TypeOK, OfferedInv, SendInv, BusyInv, HeldInv, ChannelInv, WholeFrames, site' = site, [Next]_vars
  PROVE  WholeFrames'
  <1>0. SUFFICES ASSUME NEW c \in Core, ~cut'[Peer(c)] PROVE WholeAt(c)'
    BY WholeIsNext
  <1>k. Id \subseteq Id' /\ \A i \in Id : offered'[i] = offered[i]
    BY OfferedKept
  <1>c. ~cut[Peer(c)]
    BY <1>0, CutKept, PeerFacts
  <1>w. WireInv(c) /\ WholeAt(c)
    BY <1>c, WholeIs DEF ChannelInv
  <1>s. ASSUME fault'[c] # "Failed",
               \A r \in Role : stash'[c][r] # None => stash'[c][r] = stash[c][r],
               \A p \in Port : HostOf(p) = c /\ rx'[p].frame # None => rx'[p].frame = rx[p].frame
        PROVE  WholeAt(c)'
    BY <1>k, <1>w, <1>s, WholeSame
  <1>f. fault[c] # "Failed"
    BY <1>w DEF WholeAt
  <1>1. CASE UNCHANGED <<stash, rx, fault>>
    BY <1>1, <1>s, <1>f
  <1>2. ASSUME NEW p \in Port, PollSendOversize(p) PROVE WholeAt(c)'
    <2>1. stash' = stash /\ rx' = rx /\ fault'[c] # "Failed"
      BY <1>2, <1>f DEF PollSendOversize, Fail, TypeOK
    <2>2. QED
      BY <2>1, <1>s
  <1>3. ASSUME NEW p \in Port, PollSendLocal(p) PROVE WholeAt(c)'
    <2>1. PICK d \in Core : d = HostOf(p)
      BY PortFacts
    <2>2. PICK g \in RxFrame : SentLocally(p, d, g)
      BY <1>3, <2>1, LocalFacts
    <2>3. rx' = rx /\ fault'[c] # "Failed"
          /\ \A r \in Role : stash'[c][r] = g \/ stash'[c][r] = stash[c][r]
      BY <2>2, <1>f DEF SentLocally
    <2>4. g.id \in Id /\ RightFrame(g)
      BY <2>2 DEF SentLocally, SendInv, RightFrame
    <2>5. QED
      BY <2>3, <2>4, <1>k, <1>w, WholeKept
  <1>4. ASSUME NEW p \in Port, PollRecvRequeued(p) \/ Requeue(p) PROVE WholeAt(c)'
    <2>1. \A q \in Port : rx'[q].frame = rx[q].frame
      BY <1>4, RequeueEffect
    <2>2. stash' = stash /\ fault' = fault
      BY <1>4 DEF PollRecvRequeued, Requeue
    <2>3. QED
      BY <2>1, <2>2, <1>s, <1>f
  <1>5. ASSUME NEW p \in Port, PollRecvStash(p) PROVE WholeAt(c)'
    <2>1. PICK d \in Core : d = HostOf(p)
      BY PortFacts
    <2>2. PICK r \in Role : r = RoleOf(p)
      BY PortFacts
    <2>3. PICK f : f = stash[d][r]
      OBVIOUS
    <2>4. /\ f \in RxFrame
          /\ UNCHANGED <<site, fifo, accum, outgoing, pending, busy, fault, offered, sent, got, cut>>
          /\ \/ TakenFromStash(p, d, r, f)
             \/ /\ UNCHANGED <<stash, seen>>
                /\ \A q \in Port : rx'[q].frame = None \/ rx'[q].frame = rx[q].frame
      BY <1>5, <2>1, <2>2, <2>3, TakeFacts
    <2>5. CASE /\ UNCHANGED <<stash, seen>>
               /\ \A q \in Port : rx'[q].frame = None \/ rx'[q].frame = rx[q].frame
      BY <2>4, <2>5, <1>s, <1>f
    <2>6. CASE TakenFromStash(p, d, r, f)
      <3>1. /\ f # None /\ rx'[p].frame = f /\ \A q \in Port : q # p => rx'[q] = rx[q]
            /\ \A e \in Core, q \in Role : stash'[e][q] = IF e = d /\ q = r THEN None ELSE stash[e][q]
        BY <2>6 DEF TakenFromStash
      <3>2. \A q \in Role : stash'[c][q] # None => stash'[c][q] = stash[c][q]
        BY <3>1
      <3>3. CASE d = c
        <4>1. f.id \in Id /\ RightFrame(f)
          BY <2>3, <3>1, <3>3, <1>w DEF HeldInv, WholeAt
        <4>2. \A q \in Port : HostOf(q) = c /\ rx'[q].frame # None => rx'[q].frame = f \/ rx'[q].frame = rx[q].frame
          BY <3>1
        <4>3. fault'[c] # "Failed"
          BY <2>4, <1>f
        <4>4. QED
          BY <3>2, <4>1, <4>2, <4>3, <1>k, <1>w, WholeKept
      <3>4. CASE d # c
        BY <2>1, <2>4, <3>1, <3>2, <3>4, <1>s, <1>f
      <3>5. QED
        BY <3>3, <3>4
    <2>7. QED
      BY <2>4, <2>5, <2>6
  <1>6. ASSUME NEW p \in Port, PollRecvLoop(p) PROVE WholeAt(c)'
    <2>1. stash' = stash /\ fault' = fault /\ rx' = [rx EXCEPT ![p] = EmptyRx]
      BY <1>6 DEF PollRecvLoop
    <2>2. \A q \in Port : rx'[q].frame # None => rx'[q].frame = rx[q].frame
      BY <2>1 DEF TypeOK, EmptyRx
    <2>3. QED
      BY <2>1, <2>2, <1>s, <1>f
  <1>7. CASE PopWord(c)
    <2>1. PICK p : p = busy[c].port
      OBVIOUS
    <2>2. PICK a : a = Append(accum[c], Head(fifo[c]))
      OBVIOUS
    <2>3. PICK f : f = Decoded(a)
      OBVIOUS
    <2>4. PICK h : h = fifo[c][1]
      OBVIOUS
    <2>5. /\ Popped(c, p, a, h, f)
          /\ (~Ends(h) /\ PopMore(a)) \/ PoppedFrame(c, p, h, f)
      BY <1>7, <1>w, <2>1, <2>2, <2>3, <2>4, PopOnWire
    <2>6. CASE PopMore(a)
      BY <2>6, <1>1 DEF PopMore
    <2>7. CASE PoppedFrame(c, p, h, f)
      <3>1. /\ f \in RxFrame /\ f.id = h.id /\ f.whole /\ f.to = offered[h.id].to /\ f.lane = offered[h.id].lane
            /\ PopStaged(c, p, f) \/ PopStashed(c, p, f) \/ PopDropped(c)
        BY <2>7 DEF PoppedFrame
      <3>2. f.id \in Id /\ RightFrame(f)
        BY <2>5, <3>1 DEF Popped, RightFrame
      <3>3. CASE PopStaged(c, p, f)
        <4>1. p \in Port /\ Stage(p, f) /\ stash' = stash /\ fault' = fault
          BY <2>5, <3>3 DEF Popped, PopCommon, PopStaged
        <4>2. rx'[p].frame = f /\ \A q \in Port : q # p => rx'[q] = rx[q]
          BY <3>1, <4>1, StageEffect
        <4>3. \A q \in Port : HostOf(q) = c /\ rx'[q].frame # None => rx'[q].frame = f \/ rx'[q].frame = rx[q].frame
          BY <4>2
        <4>4. QED
          BY <3>2, <4>1, <4>3, <1>f, <1>k, <1>w, WholeKept
      <3>4. CASE PopStashed(c, p, f)
        <4>1. rx' = rx /\ fault' = fault /\ \A r \in Role : stash'[c][r] = f \/ stash'[c][r] = stash[c][r]
          BY <3>4 DEF PopStashed
        <4>2. QED
          BY <3>2, <4>1, <1>f, <1>k, <1>w, WholeKept
      <3>5. CASE PopDropped(c)
        BY <3>5, <1>s DEF PopDropped
      <3>6. QED
        BY <3>1, <3>3, <3>4, <3>5
    <2>8. QED
      BY <2>5, <2>6, <2>7
  <1>8. ASSUME NEW d \in Core, d # c, PopWord(d) PROVE WholeAt(c)'
    <2>1. PICK p : p = busy[d].port
      OBVIOUS
    <2>2. PICK a : a = Append(accum[d], Head(fifo[d]))
      OBVIOUS
    <2>3. PICK f : f = Decoded(a)
      OBVIOUS
    <2>4. /\ PopCommon(d, p, a)
          /\ \/ PopRejected(d, a)
             \/ PopMore(a)
             \/ PopFrame(d, a, f) /\ (PopStaged(d, p, f) \/ PopStashed(d, p, f) \/ PopDropped(d))
      BY <1>8, <2>1, <2>2, <2>3, PopFacts
    <2>5. fault'[c] = fault[c] /\ \A r \in Role : stash'[c][r] = stash[c][r]
      BY <1>8, <2>4 DEF PopRejected, PopMore, PopStaged, PopStashed, PopDropped
    <2>6. \A q \in Port : HostOf(q) = c => rx'[q] = rx[q]
      <3>1. CASE rx' = rx
        BY <3>1
      <3>2. CASE PopFrame(d, a, f) /\ PopStaged(d, p, f)
        <4>1. f \in RxFrame /\ Stage(p, f) /\ p \in Port /\ HostOf(p) = d
          BY <2>4, <3>2 DEF PopCommon, PopFrame, PopStaged
        <4>2. \A q \in Port : q # p => rx'[q] = rx[q]
          BY <4>1, StageEffect
        <4>3. QED
          BY <1>8, <4>1, <4>2
      <3>3. QED
        BY <2>4, <3>1, <3>2 DEF PopRejected, PopMore, PopStashed, PopDropped
    <2>7. QED
      BY <2>5, <2>6, <1>s, <1>f
  <1>9. ASSUME NEW d \in Core, DeadlineExpired(d) PROVE WholeAt(c)'
    <2>1. stash' = stash /\ rx' = rx /\ fault'[c] # "Failed"
      BY <1>9, <1>f DEF DeadlineExpired, Fail, TypeOK
    <2>2. QED
      BY <2>1, <1>s
  <1>10. QED
    BY ZenonT(60), <1>1, <1>2, <1>3, <1>4, <1>5, <1>6, <1>7, <1>8, <1>9
       DEF Next, PortStep, CoreStep, vars, BeginSend, PollSendSelf, PollSend, CancelSend, PushWord,
           SendPending, PopNone

-----------------------------------------------------------------------------
(* The carrier starts with nothing on the way.                             *)

LEMMA InitType ==
  ASSUME Init
  PROVE  TypeOK /\ OfferedInv /\ SendInv /\ BusyInv
  <1>1. \A p \in Port : pending[p] = None /\ outgoing[p] = None /\ rx[p] = EmptyRx /\ seen[p] = <<>>
    BY DEF Init
  <1>2. \A c \in Core : /\ fifo[c] = <<>> /\ accum[c] = <<>> /\ busy[c] = None /\ fault[c] = "none"
                        /\ sent[c] = <<>> /\ got[c] = <<>>
                        /\ \A r \in Role : stash[c][r] = None
    BY DEF Init
  <1>3. offered = <<>> /\ Id = {}
    BY DEF Init, Id
  <1>4. EmptyRx \in RxState
    BY DEF EmptyRx, RxState
  <1>5. TypeOK
    <2>1. site \in Site /\ fifo \in [Core -> Seq(Word)] /\ accum \in [Core -> Seq(Word)]
      BY DEF Init
    <2>2. \A c \in Core : Len(fifo[c]) <= FifoDepth
      BY <1>2, FifoAssumption DEF SIO_FRAME_HEADER_WORDS
    <2>3. stash \in [Core -> [Role -> RxFrame \cup {None}]]
      BY DEF Init
    <2>4. /\ outgoing \in [Port -> Frame \cup {None}] /\ pending \in [Port -> TxState \cup {None}]
          /\ rx \in [Port -> RxState] /\ busy \in [Core -> Poll \cup {None}]
      BY <1>4 DEF Init
    <2>5. /\ fault \in [Core -> {"none", "Capacity", "Deadline", "Failed"}]
          /\ cut \in [Core -> BOOLEAN]
      BY DEF Init
    <2>6. offered \in Seq(Frame) /\ Len(offered) <= MaxFrames
      BY <1>3, FifoAssumption
    <2>7. sent \in [Core -> Seq(Nat)] /\ got \in [Core -> Seq(Nat)] /\ seen \in [Port -> Seq(Nat)]
      BY DEF Init
    <2>8. QED
      BY <2>1, <2>2, <2>3, <2>4, <2>5, <2>6, <2>7 DEF TypeOK
  <1>6. OfferedInv
    BY <1>3 DEF OfferedInv
  <1>7. SendInv
    BY <1>1 DEF SendInv
  <1>8. BusyInv
    BY <1>2 DEF BusyInv, PollInv
  <1>9. QED
    BY <1>5, <1>6, <1>7, <1>8

LEMMA InitHolds ==
  ASSUME Init
  PROVE  ReceiveInv /\ WholeFrames
  <1>0. TypeOK /\ OfferedInv /\ SendInv /\ BusyInv
    BY InitType
  <1>1. \A p \in Port : /\ pending[p] = None /\ outgoing[p] = None /\ rx[p] = EmptyRx
                        /\ seen[p] = <<>> /\ Len(seen[p]) = 0
    BY DEF Init
  <1>2. \A c \in Core : /\ fifo[c] = <<>> /\ Len(fifo[c]) = 0 /\ accum[c] = <<>> /\ Len(accum[c]) = 0
                        /\ busy[c] = None /\ fault[c] = "none"
                        /\ sent[c] = <<>> /\ got[c] = <<>> /\ Len(sent[c]) = 0 /\ Len(got[c]) = 0
                        /\ \A r \in Role : stash[c][r] = None
    BY DEF Init
  <1>3. \A n \in 1..0 : FALSE
    OBVIOUS
  <1>4. \A p \in Port : rx[p].frame = None
    BY <1>1 DEF EmptyRx
  <1>5. HeldInv
    BY <1>1, <1>2, <1>3, <1>4 DEF HeldInv
  <1>6. ASSUME NEW c \in Core PROVE WireInv(c) /\ PushInv(c) /\ CountInv(c) /\ OrderInv(c)
    <2>1. WireInv(c)
      BY <1>2, <1>3 DEF WireInv
    <2>2. PushInv(c)
      BY <1>1, <1>2 DEF PushInv, Between, Quiet
    <2>3. CountInv(c)
      <3>1. Len(sent[Peer(c)]) = 0 /\ Len(got[c]) = 0 /\ Len(fifo[c]) = 0
        BY <1>2, PeerFacts
      <3>2. ~\E i \in 1..Len(fifo[c]) : Ends(fifo[c][i])
        BY <1>3, <3>1
      <3>3. Len(sent[Peer(c)]) = Len(got[c]) + IF \E i \in 1..Len(fifo[c]) : Ends(fifo[c][i]) THEN 1 ELSE 0
        BY <3>1, <3>2
      <3>4. QED
        BY <3>2, <3>3 DEF CountInv
    <2>4. OrderInv(c)
      BY <1>1, <1>2, <1>3 DEF OrderInv, NotYet
    <2>5. QED
      BY <2>1, <2>2, <2>3, <2>4
  <1>7. ChannelInv
    BY <1>6 DEF ChannelInv
  <1>8. InOrder
    BY <1>1, <1>3 DEF InOrder
  <1>9. NothingLost
    BY <1>2, <1>3 DEF NothingLost
  <1>10. WholeFrames
    BY <1>2, <1>4, WholeIs DEF WholeAt
  <1>11. QED
    BY <1>0, <1>5, <1>7, <1>8, <1>9, <1>10 DEF ReceiveInv

LEMMA ReceiveStep ==
  ASSUME ReceiveInv, [Next]_vars
  PROVE  ReceiveInv' /\ (WholeFrames => WholeFrames')
  <1>1. TypeOK /\ OfferedInv /\ SendInv /\ BusyInv /\ HeldInv /\ ChannelInv /\ InOrder /\ NothingLost
    BY DEF ReceiveInv
  <1>2. TypeOK' /\ site' = site
    BY <1>1, TypeStep
  <1>3. OfferedInv'
    BY <1>1, <1>2, OfferedStep
  <1>4. SendInv'
    BY <1>1, <1>2, SendStep
  <1>5. BusyInv'
    BY <1>1, <1>2, BusyStep
  <1>6. HeldInv'
    BY <1>1, <1>2, HeldStep
  <1>7. ChannelInv'
    BY <1>1, <1>2, ChannelStep
  <1>8. InOrder'
    BY <1>1, <1>2, InOrderStep
  <1>9. NothingLost'
    BY <1>1, <1>2, LostStep
  <1>10. WholeFrames => WholeFrames'
    BY <1>1, <1>2, WholeStep
  <1>11. QED
    BY <1>2, <1>3, <1>4, <1>5, <1>6, <1>7, <1>8, <1>9, <1>10 DEF ReceiveInv

\* The receiving side of the RP2350 carrier, for every deployment with one
\* crossing role on a core, every payload size and every number of frames: the
\* words on the wire are the beginning of the frame being pushed behind the rest
\* of the one before, what a core decodes it keeps until it stops with Capacity,
\* and a port sees the frames of a sender in the order of their sends.
THEOREM ReceiveInvariant == Spec => []ReceiveInv
  <1>1. Init => ReceiveInv
    BY InitHolds
  <1>2. ReceiveInv /\ [Next]_vars => ReceiveInv'
    BY ReceiveStep
  <1>3. QED
    BY <1>1, <1>2, PTL DEF Spec

\* push_word of poll_recv never refuses a word, and every frame it decodes has
\* all its words, its addressee and its lane, until a send of the other core is
\* cancelled between two words.
THEOREM FramesAreWhole == Spec => []WholeFrames
  <1>1. Init => ReceiveInv /\ WholeFrames
    BY InitHolds
  <1>2. ReceiveInv /\ WholeFrames /\ [Next]_vars => ReceiveInv' /\ WholeFrames'
    BY ReceiveStep
  <1>3. QED
    BY <1>1, <1>2, PTL DEF Spec

-----------------------------------------------------------------------------
(* The channel.                                                            *)

LEMMA ChannelMoves ==
  ASSUME ReceiveInv, [Next]_vars, \A c \in Core : ~cut[c]
  PROVE  Channel!ChanNext \/ UNCHANGED <<sent, got>>
  <1>0. TypeOK /\ OfferedInv /\ SendInv /\ BusyInv /\ HeldInv /\ ChannelInv
    BY DEF ReceiveInv
  <1>c. \A c \in Core : WireInv(c) /\ PushInv(c) /\ CountInv(c) /\ OrderInv(c)
    BY <1>0, PeerFacts DEF ChannelInv
  <1>1. ASSUME NEW e \in Core, PushWord(e) PROVE Channel!ChanNext \/ UNCHANGED <<sent, got>>
    <2>c. PICK c \in Core : c = Peer(e) /\ Peer(c) = e
      BY PeerFacts
    <2>w. WireInv(c) /\ PushInv(c) /\ CountInv(c) /\ OrderInv(c) /\ PushWord(Peer(c))
      BY <1>1, <1>c, <2>c
    <2>1. PICK p : p = busy[Peer(c)].port
      OBVIOUS
    <2>2. PICK f : f = pending[p].frame
      OBVIOUS
    <2>3. PICK k : k = pending[p].next
      OBVIOUS
    <2>4. PICK w : w = [id |-> f.id, k |-> k]
      OBVIOUS
    <2>5. PushPlaced(c, p, f, k, w) /\ PushEffect(c, p, f, k)
      BY <1>0, <2>w, <2>1, <2>2, <2>3, <2>4, PushOnWire
    <2>6. got' = got
      BY <2>5 DEF PushPlaced
    <2>7. CASE sent' = sent
      BY <2>6, <2>7
    <2>8. CASE k = TotalWords(f) /\ sent' = [sent EXCEPT ![Peer(c)] = Append(sent[Peer(c)], f.id)]
      <3>1. Len(sent[Peer(c)]) = Len(got[c])
        BY <1>0, <2>5, <2>8, <2>w, PushCount
      <3>2. f.id \in 1..MaxFrames
        BY SMTT(40), <1>0, <2>5, FifoAssumption DEF PushPlaced, TypeOK, Id
      <3>3. Channel!Send(e, f.id)
        BY <2>6, <2>8, <2>c, <3>1 DEF Channel!Send, Channel!Peer, Peer
      <3>4. QED
        BY <3>2, <3>3 DEF Channel!ChanNext, Channel!Core, Core
    <2>9. QED
      BY <2>5, <2>7, <2>8 DEF PushEffect
  <1>2. ASSUME NEW c \in Core, PopWord(c) PROVE Channel!ChanNext \/ UNCHANGED <<sent, got>>
    <2>1. PICK p : p = busy[c].port
      OBVIOUS
    <2>2. PICK a : a = Append(accum[c], Head(fifo[c]))
      OBVIOUS
    <2>3. PICK f : f = Decoded(a)
      OBVIOUS
    <2>4. PICK h : h = fifo[c][1]
      OBVIOUS
    <2>5. /\ Popped(c, p, a, h, f)
          /\ (~Ends(h) /\ PopMore(a)) \/ PoppedFrame(c, p, h, f)
      BY <1>0, <1>2, <1>c, <2>1, <2>2, <2>3, <2>4, PopOnWire
    <2>6. sent' = sent
      BY <2>5 DEF Popped, PopCommon
    <2>7. CASE PopMore(a)
      BY <2>6, <2>7 DEF PopMore
    <2>8. CASE PoppedFrame(c, p, h, f)
      <3>1. Ends(h) /\ f.id = h.id /\ got' = [got EXCEPT ![c] = Append(@, f.id)]
        BY <2>8 DEF PoppedFrame
      <3>2. Len(sent[Peer(c)]) = Len(got[c]) + 1 /\ sent[Peer(c)][Len(got[c]) + 1] = h.id
        BY <1>0, <1>c, <2>5, <3>1, PopCount
      <3>3. Len(got[c]) \in Nat
        BY <1>0 DEF TypeOK
      <3>4. Channel!Receive(c)
        BY <2>6, <3>1, <3>2, <3>3 DEF Channel!Receive, Channel!Peer, Peer
      <3>5. QED
        BY <3>4 DEF Channel!ChanNext, Channel!Core, Core
    <2>9. QED
      BY <2>5, <2>7, <2>8
  <1>3. CASE UNCHANGED <<sent, got>>
    BY <1>3
  <1>4. QED
    BY ZenonT(60), <1>1, <1>2, <1>3
       DEF Next, PortStep, CoreStep, vars, BeginSend, PollSendSelf, PollSendOversize, PollSendLocal,
           PollSend, CancelSend, PollRecvRequeued, PollRecvStash, PollRecvLoop, Requeue, SendPending,
           PopNone, DeadlineExpired

\* The two FIFOs and their accumulators implement the channel of FrameChannel
\* until a send is cancelled between two words: the last word of a frame is
\* pushed only after the frame before was decoded.
THEOREM ChannelImplemented == Spec => ChannelUntilCut
  <1>1. Init => Channel!ChanInit
    BY DEF Init, Channel!ChanInit, Channel!Core, Core
  <1>2. ReceiveInv /\ [Next]_vars => [Channel!ChanNext \/ \E c \in Core : cut[c]]_<<sent, got>>
    BY ChannelMoves
  <1>3. QED
    BY <1>1, <1>2, ReceiveInvariant, PTL DEF Spec, ChannelUntilCut

=============================================================================
