-------------------------- MODULE SioMailboxProofs --------------------------
(***************************************************************************)
(* The SIO mailbox implements the one-place channel for every set of       *)
(* handles, frames and bounds.                                             *)
(***************************************************************************)
EXTENDS SioMailbox, TLAPS

\* publish_mailbox_frame writes, and take_mailbox_frame reads, every field of
\* the slot exactly once.
LEMMA FieldOrder ==
  /\ \A k \in Field : \E i \in 1..Fields : WriteOrder[i] = k
  /\ \A k \in Field : \E i \in 1..Fields : ReadOrder[i] = k
  /\ \A i \in 1..Fields : WriteOrder[i] \in Field /\ ReadOrder[i] \in Field
  /\ \A i, j \in 1..Fields : WriteOrder[i] = WriteOrder[j] => i = j
  /\ \A i, j \in 1..Fields : ReadOrder[i] = ReadOrder[j] => i = j
  BY DEF Field, Fields, WriteOrder, ReadOrder

\* take_mailbox_frame reads sender_role before it compares it with peer_role.
LEMMA ReadOrderFacts ==
  /\ ReadOrder[1] = "len"
  /\ ReadOrder[2] = "sender_role"
  /\ ReadOrder[3] = "peer_role"
  BY DEF ReadOrder

\* The two cores are each other's peer.
LEMMA PeerFacts ==
  /\ \A c \in Core : Peer(c) \in Core /\ Peer(c) # c /\ Peer(Peer(c)) = c
  /\ \A c, d \in Core : d # c => d = Peer(c)
  BY DEF Core, Peer

\* Function extensionality on frames: a slot or a register that agrees with a
\* frame on every field is that frame.
LEMMA SameFrame ==
  ASSUME NEW f \in [Field -> Nat], NEW g \in [Field -> Nat],
         \A k \in Field : f[k] = g[k]
  PROVE  f = g
  OBVIOUS

\* Before any access both slots are free and nothing is pending.
LEMMA InvInit == Init => MailboxInv
  <1> SUFFICES ASSUME Init PROVE MailboxInv
    OBVIOUS
  <1> USE MailboxAssumption, PeerFacts
  <1>1. TypeOK
    BY DEF Init, TypeOK, EMPTY, Fields
  <1>2. OwnerInv /\ PublishedInv /\ WriteInv /\ ReadInv /\ TakeNeverFails
    BY DEF Init, OwnerInv, PublishedInv, WriteInv, ReadInv, TakeNeverFails
  <1>3. SendableInv
    BY DEF Init, SendableInv
  <1>4. SlotInv
    BY DEF Init, SlotInv
  <1>5. QED
    BY <1>1, <1>2, <1>3, <1>4 DEF MailboxInv

\* Every access of publish_mailbox_frame, take_mailbox_frame, poll_send and
\* cancel_send preserves the invariant, whatever the other core does between.
LEMMA InvStep == MailboxInv /\ [Next]_vars => MailboxInv'
  <1> SUFFICES ASSUME MailboxInv, [Next]_vars PROVE MailboxInv'
    OBVIOUS
  <1> USE MailboxAssumption, PeerFacts
  <1> USE DEF MailboxInv
  <1>1. ASSUME NEW t \in Tx, NEW f \in Frame, NewPending(t, f) PROVE MailboxInv'
    <2> USE <1>1 DEF NewPending, slotVars, coreVars, TypeOK
    <2>1. TypeOK'
      OBVIOUS
    <2>2. OwnerInv' /\ PublishedInv'
      BY DEF OwnerInv, PublishedInv
    <2>3. SendableInv'
      BY DEF SendableInv
    <2>4. WriteInv'
      BY DEF WriteInv, OwnerInv
    <2>5. ReadInv' /\ SlotInv' /\ TakeNeverFails'
      BY DEF ReadInv, SlotInv, TakeNeverFails
    <2>6. QED
      BY <2>1, <2>2, <2>3, <2>4, <2>5
  <1>2. ASSUME NEW t \in Tx, PublishCheck(t) PROVE MailboxInv'
    <2> USE <1>2 DEF PublishCheck, slotVars, txVars
    <2>1. ~published[t] /\ ~occupied[CoreOf[t]]
      BY DEF PublishedInv, TypeOK
    <2>2. TypeOK'
      BY <2>1 DEF TypeOK, Fields
    <2>3. OwnerInv' /\ PublishedInv' /\ SendableInv'
      BY DEF TypeOK, OwnerInv, PublishedInv, SendableInv
    <2>4. WriteInv'
      BY <2>1 DEF TypeOK, WriteInv, Fields
    <2>5. ReadInv' /\ SlotInv' /\ TakeNeverFails'
      BY DEF TypeOK, ReadInv, SlotInv, TakeNeverFails
    <2>6. QED
      BY <2>2, <2>3, <2>4, <2>5
  <1>3. ASSUME NEW t \in Tx, CancelSend(t) PROVE MailboxInv'
    <2> USE <1>3 DEF CancelSend, coreVars, TypeOK
    <2>1. ~published[t]
      BY DEF PublishedInv
    <2>2. occupied' = occupied
      BY <2>1
    <2>3. TypeOK'
      BY <2>2
    <2>4. OwnerInv' /\ PublishedInv' /\ SendableInv'
      BY DEF OwnerInv, PublishedInv, SendableInv
    <2>5. WriteInv'
      BY <2>2 DEF WriteInv, OwnerInv
    <2>6. ReadInv' /\ SlotInv' /\ TakeNeverFails'
      BY <2>2 DEF ReadInv, SlotInv, TakeNeverFails
    <2>7. QED
      BY <2>3, <2>4, <2>5, <2>6
  <1>4. ASSUME NEW c \in Core, PublishWrite(c) PROVE MailboxInv'
    <2> USE <1>4 DEF PublishWrite, txVars
    <2> DEFINE k == WriteOrder[step[c]]
               f == pending[owner[c]]
    <2>1. /\ step[c] \in 1..Fields
          /\ owner[c] \in Tx
          /\ f \in [Field -> Nat]
          /\ ~occupied[c]
      BY DEF TypeOK, OwnerInv, WriteInv, Fields
    <2>2. k \in Field /\ f[k] \in Nat
      BY <2>1, FieldOrder
    <2>3. /\ mem' = [mem EXCEPT ![c] = [mem[c] EXCEPT ![k] = f[k]]]
          /\ mem'[Peer(c)] = mem[Peer(c)]
          /\ mem'[c] = [mem[c] EXCEPT ![k] = f[k]]
          /\ mem' \in [Core -> [Field -> Nat]]
      BY <2>2 DEF TypeOK
    <2>4. TypeOK'
      <3>1. step' \in [Core -> 1..(Fields + 1)]
        BY <2>1 DEF TypeOK, Fields
      <3>2. QED
        BY <2>3, <3>1 DEF TypeOK
    <2>5. OwnerInv' /\ PublishedInv' /\ SendableInv' /\ TakeNeverFails'
      BY DEF TypeOK, OwnerInv, PublishedInv, SendableInv, TakeNeverFails
    <2>6. ASSUME NEW d \in Core, pc'[d] = "publish", NEW i \in 1..Fields, i < step'[d]
          PROVE  mem'[d][WriteOrder[i]] = pending'[owner'[d]][WriteOrder[i]]
      <3>1. CASE d # c
        BY <2>3, <2>6, <3>1 DEF TypeOK, WriteInv
      <3>2. CASE d = c /\ i = step[c]
        BY <2>1, <2>2, <2>3, <3>2 DEF TypeOK
      <3>3. CASE d = c /\ i # step[c]
        <4>1. i < step[c]
          BY <2>1, <2>6, <3>3 DEF TypeOK, Fields
        <4>2. mem[c][WriteOrder[i]] = f[WriteOrder[i]]
          BY <4>1 DEF WriteInv
        <4>3. WriteOrder[i] # k /\ WriteOrder[i] \in Field
          BY <2>1, <4>1, FieldOrder DEF Fields
        <4>4. QED
          BY <2>3, <3>3, <4>2, <4>3 DEF TypeOK
      <3>4. QED
        BY <3>1, <3>2, <3>3
    <2>7. WriteInv'
      BY <2>6 DEF WriteInv, TypeOK
    <2>8. ASSUME NEW d \in Core, pc'[d] = "take"
          PROVE  d # Peer(c) /\ d # c
      BY <2>1, <2>8 DEF ReadInv
    <2>9. ReadInv'
      BY <2>8 DEF ReadInv
    <2>10. SlotInv'
      BY ZenonT(60), <2>1, <2>3 DEF SlotInv, TypeOK
    <2>11. QED
      BY <2>4, <2>5, <2>7, <2>9, <2>10
  <1>5. ASSUME NEW c \in Core, PublishCommit(c) PROVE MailboxInv'
    <2> USE <1>5 DEF PublishCommit
    <2> DEFINE f == pending[owner[c]]
    <2>1. owner[c] \in Tx /\ CoreOf[owner[c]] = c /\ f \in Frame /\ Sendable(f)
      BY DEF TypeOK, OwnerInv, SendableInv
    <2>2. ~occupied[c] /\ Len(sent[c]) = Len(got[Peer(c)])
      BY DEF WriteInv, SlotInv
    <2>3. mem[c] = f
      <3>1. ASSUME NEW k \in Field PROVE mem[c][k] = f[k]
        <4>1. PICK i \in 1..Fields : WriteOrder[i] = k
          BY FieldOrder
        <4>2. i < step[c]
          BY DEF Fields
        <4>3. QED
          BY <4>1, <4>2 DEF WriteInv
      <3>2. mem[c] \in [Field -> Nat] /\ f \in [Field -> Nat]
        BY <2>1 DEF TypeOK
      <3>3. QED
        BY <3>1, <3>2, SameFrame
    <2>4. /\ sent[c] \in Seq(Frame)
          /\ sent'[c] = Append(sent[c], f)
          /\ Len(sent'[c]) = Len(sent[c]) + 1
          /\ sent'[c][Len(sent'[c])] = f
          /\ \A i \in 1..Len(sent[c]) : sent'[c][i] = sent[c][i]
      BY <2>1 DEF TypeOK
    <2>5. sent'[Peer(c)] = sent[Peer(c)]
      BY DEF TypeOK
    <2>6. TypeOK'
      BY <2>1, <2>4 DEF TypeOK
    <2>7. OwnerInv' /\ PublishedInv'
      BY <2>1 DEF TypeOK, OwnerInv, PublishedInv
    <2>8. SendableInv'
      <3>1. \A i \in 1..Len(sent'[c]) : Sendable(sent'[c][i])
        BY <2>1, <2>4 DEF SendableInv
      <3>2. \A i \in 1..Len(sent'[Peer(c)]) : Sendable(sent'[Peer(c)][i])
        BY <2>5 DEF SendableInv
      <3>3. QED
        BY <3>1, <3>2 DEF SendableInv
    <2>9. WriteInv' /\ ReadInv' /\ TakeNeverFails'
      BY DEF TypeOK, WriteInv, ReadInv, TakeNeverFails
    <2>10. SlotInv'
      BY <2>2, <2>3, <2>4, <2>5 DEF SlotInv, TypeOK
    <2>11. QED
      BY <2>6, <2>7, <2>8, <2>9, <2>10
  <1>6. ASSUME NEW c \in Core, FinishSend(c) PROVE MailboxInv'
    <2> USE <1>6 DEF FinishSend, slotVars, TypeOK
    <2>1. TypeOK'
      OBVIOUS
    <2>2. OwnerInv' /\ PublishedInv' /\ SendableInv'
      BY DEF OwnerInv, PublishedInv, SendableInv
    <2>3. WriteInv'
      BY DEF WriteInv, OwnerInv
    <2>4. ReadInv' /\ SlotInv' /\ TakeNeverFails'
      BY DEF ReadInv, SlotInv, TakeNeverFails
    <2>5. QED
      BY <2>1, <2>2, <2>3, <2>4
  <1>7. ASSUME NEW c \in Core, TakeCheck(c) PROVE MailboxInv'
    <2> USE <1>7 DEF TakeCheck, slotVars, txVars
    <2>1. TypeOK'
      BY DEF TypeOK, Fields
    <2>2. OwnerInv' /\ PublishedInv' /\ SendableInv'
      BY DEF TypeOK, OwnerInv, PublishedInv, SendableInv
    <2>3. WriteInv' /\ ReadInv'
      BY DEF TypeOK, WriteInv, ReadInv
    <2>4. SlotInv' /\ TakeNeverFails'
      BY DEF TypeOK, SlotInv, TakeNeverFails
    <2>5. QED
      BY <2>1, <2>2, <2>3, <2>4
  <1>8. ASSUME NEW c \in Core, TakeRead(c) PROVE MailboxInv'
    <2> DEFINE k == ReadOrder[step[c]]
               frame == [reg[c] EXCEPT ![k] = mem[Peer(c)][k]]
               src == mem[Peer(c)]
    <2>1. /\ pc[c] = "take"
          /\ step[c] \in 1..Fields
          /\ reg' = [reg EXCEPT ![c] = frame]
          /\ UNCHANGED <<mem, pending, published, owner, sent, got>>
      BY <1>8 DEF TakeRead, txVars, TypeOK, Fields
    <2>2. k \in Field /\ frame \in [Field -> Nat]
      BY <2>1, FieldOrder DEF TypeOK
    <2>3. \A i \in 1..Fields : i < step[c] + 1 => frame[ReadOrder[i]] = src[ReadOrder[i]]
      <3> SUFFICES ASSUME NEW i \in 1..Fields, i < step[c] + 1
                   PROVE  frame[ReadOrder[i]] = src[ReadOrder[i]]
        OBVIOUS
      <3>1. ReadOrder[i] \in Field /\ reg[c] \in [Field -> Nat]
        BY FieldOrder DEF TypeOK
      <3>2. CASE i = step[c]
        BY <3>1, <3>2
      <3>3. CASE i < step[c]
        BY <2>1, <3>1, <3>3 DEF ReadInv
      <3>4. QED
        BY <2>1, <3>2, <3>3 DEF Fields
    <2>4. Sendable(src)
      <3>1. src = sent[Peer(c)][Len(sent[Peer(c)])] /\ Len(sent[Peer(c)]) = Len(got[c]) + 1
        BY <2>1 DEF ReadInv, SlotInv
      <3>2. Len(got[c]) \in Nat
        BY DEF TypeOK
      <3>3. Len(sent[Peer(c)]) \in 1..Len(sent[Peer(c)])
        BY <3>1, <3>2
      <3>4. QED
        BY <3>1, <3>3 DEF SendableInv
    <2>5. ~Malformed(k, frame)
      <3>1. CASE k = "len"
        <4>1. frame["len"] = src["len"]
          BY <2>1, <2>3, <3>1 DEF Fields
        <4>2. src["len"] \in Nat
          BY <2>2, <3>1 DEF TypeOK
        <4>3. QED
          BY <2>4, <3>1, <4>1, <4>2 DEF Malformed, Sendable
      <3>2. CASE k = "peer_role"
        <4>1. step[c] = 3
          BY <2>1, <3>2, FieldOrder, ReadOrderFacts DEF Fields
        <4>2. frame["sender_role"] = src["sender_role"] /\ frame["peer_role"] = src["peer_role"]
          BY <2>3, <4>1, ReadOrderFacts DEF Fields
        <4>3. QED
          BY <2>4, <3>2, <4>2 DEF Malformed, Sendable
      <3>3. QED
        BY <3>1, <3>2 DEF Malformed
    <2>6. step' = [step EXCEPT ![c] = @ + 1] /\ UNCHANGED <<occupied, pc>>
      BY <1>8, <2>5 DEF TakeRead
    <2>7. TypeOK'
      <3>1. step' \in [Core -> 1..(Fields + 1)]
        BY <2>1, <2>6 DEF TypeOK, Fields
      <3>2. reg' \in [Core -> [Field -> Nat]]
        BY <2>1, <2>2 DEF TypeOK
      <3>3. QED
        BY <2>1, <2>6, <3>1, <3>2 DEF TypeOK
    <2>8. OwnerInv' /\ PublishedInv' /\ SendableInv' /\ SlotInv' /\ TakeNeverFails'
      BY <2>1, <2>6 DEF OwnerInv, PublishedInv, SendableInv, SlotInv, TakeNeverFails
    <2>9. WriteInv'
      BY <2>1, <2>6 DEF WriteInv, TypeOK
    <2>10. ReadInv'
      BY SMTT(40), <2>1, <2>3, <2>6 DEF ReadInv, TypeOK
    <2>11. QED
      BY <2>7, <2>8, <2>9, <2>10
  <1>9. ASSUME NEW c \in Core, TakeFinish(c) PROVE MailboxInv'
    <2> USE <1>9 DEF TakeFinish, txVars
    <2>1. occupied[Peer(c)] /\ Len(sent[Peer(c)]) = Len(got[c]) + 1
      BY DEF ReadInv, SlotInv
    <2>2. /\ got'[c] = Append(got[c], reg[c])
          /\ Len(got'[c]) = Len(got[c]) + 1
          /\ got'[Peer(c)] = got[Peer(c)]
          /\ got' \in [Core -> Seq([Field -> Nat])]
      BY DEF TypeOK
    <2>3. TypeOK'
      BY <2>2 DEF TypeOK
    <2>4. OwnerInv' /\ PublishedInv' /\ SendableInv' /\ TakeNeverFails'
      BY DEF TypeOK, OwnerInv, PublishedInv, SendableInv, TakeNeverFails
    <2>5. WriteInv' /\ ReadInv'
      BY DEF TypeOK, WriteInv, ReadInv
    <2>6. SlotInv'
      BY SMTT(40), <2>1, <2>2 DEF SlotInv, TypeOK
    <2>7. QED
      BY <2>3, <2>4, <2>5, <2>6
  <1>10. CASE UNCHANGED vars
    BY <1>10 DEF vars, slotVars, txVars, coreVars, TypeOK, OwnerInv, PublishedInv,
       SendableInv, WriteInv, ReadInv, SlotInv, TakeNeverFails
  <1>11. QED
    BY <1>1, <1>2, <1>3, <1>4, <1>5, <1>6, <1>7, <1>8, <1>9, <1>10
       DEF Next, PublishBusy, TakeEmpty

\* The invariant holds in every reachable state of every instance.
THEOREM MailboxInvariant == Spec => []MailboxInv
  BY InvInit, InvStep, PTL DEF Spec

\* Type correctness of the mailbox (all volatile fields, registers, histories).
THEOREM TypeCorrect == Spec => []TypeOK
  <1>1. MailboxInv => TypeOK
    BY DEF MailboxInv
  <1>2. QED
    BY MailboxInvariant, <1>1, PTL

\* publish_mailbox_frame and take_mailbox_frame never use the slot together.
THEOREM SlotIsExclusive == Spec => []SlotExclusive
  <1>1. MailboxInv => SlotExclusive
    BY PeerFacts DEF MailboxInv, WriteInv, ReadInv, SlotExclusive
  <1>2. QED
    BY MailboxInvariant, <1>1, PTL

\* Neither error return of take_mailbox_frame is ever reached.
THEOREM TakeIsTotal == Spec => []TakeNeverFails
  <1>1. MailboxInv => TakeNeverFails
    BY DEF MailboxInv
  <1>2. QED
    BY MailboxInvariant, <1>1, PTL

\* The frame take_mailbox_frame returns is the last one the peer published.
LEMMA TakenFrame ==
  ASSUME MailboxInv, NEW c \in Core, TakeFinish(c)
  PROVE  /\ Len(sent[Peer(c)]) = Len(got[c]) + 1
         /\ reg[c] = sent[Peer(c)][Len(got[c]) + 1]
  <1> USE MailboxAssumption, PeerFacts
  <1>1. Len(sent[Peer(c)]) = Len(got[c]) + 1 /\ mem[Peer(c)] = sent[Peer(c)][Len(sent[Peer(c)])]
    BY DEF MailboxInv, TakeFinish, ReadInv, SlotInv
  <1>2. ASSUME NEW k \in Field PROVE reg[c][k] = mem[Peer(c)][k]
    <2>1. PICK i \in 1..Fields : ReadOrder[i] = k
      BY FieldOrder
    <2>2. i < step[c]
      BY DEF TakeFinish, Fields
    <2>3. QED
      BY <2>1, <2>2 DEF MailboxInv, TakeFinish, ReadInv
  <1>3. reg[c] \in [Field -> Nat] /\ mem[Peer(c)] \in [Field -> Nat]
    BY DEF MailboxInv, TypeOK
  <1>4. reg[c] = mem[Peer(c)]
    BY <1>2, <1>3, SameFrame
  <1>5. QED
    BY <1>1, <1>4

\* Every access maps to a step of the one-place channel or to a stutter.
LEMMA ChannelStep == MailboxInv /\ [Next]_vars => [Channel!ChanNext]_(Channel!chanVars)
  <1> SUFFICES ASSUME MailboxInv, [Next]_vars
               PROVE  Channel!ChanNext \/ UNCHANGED <<sent, got>>
    BY DEF Channel!chanVars
  <1> USE MailboxAssumption, PeerFacts
  <1>1. ASSUME NEW t \in Tx, NEW f \in Frame, NewPending(t, f) PROVE UNCHANGED <<sent, got>>
    BY <1>1 DEF NewPending
  <1>2. ASSUME NEW t \in Tx, PublishCheck(t) \/ PublishBusy(t) \/ CancelSend(t)
        PROVE  UNCHANGED <<sent, got>>
    BY <1>2 DEF PublishCheck, PublishBusy, CancelSend, vars
  <1>3. ASSUME NEW c \in Core,
               PublishWrite(c) \/ FinishSend(c) \/ TakeEmpty(c) \/ TakeCheck(c) \/ TakeRead(c)
        PROVE  UNCHANGED <<sent, got>>
    BY <1>3 DEF PublishWrite, FinishSend, TakeEmpty, TakeCheck, TakeRead, vars
  <1>4. ASSUME NEW c \in Core, PublishCommit(c) PROVE Channel!ChanNext
    <2>1. pending[owner[c]] \in Frame
      BY <1>4 DEF PublishCommit, MailboxInv, OwnerInv, TypeOK
    <2>2. Len(sent[c]) = Len(got[Peer(c)])
      BY <1>4 DEF PublishCommit, MailboxInv, WriteInv, SlotInv
    <2>3. Channel!Send(c, pending[owner[c]])
      BY <1>4, <2>2 DEF PublishCommit, Channel!Send, Channel!Peer, Peer
    <2>4. QED
      BY <2>1, <2>3 DEF Channel!ChanNext, Channel!Core, Core
  <1>5. ASSUME NEW c \in Core, TakeFinish(c) PROVE Channel!ChanNext
    <2>1. Len(got[c]) \in Nat
      BY DEF MailboxInv, TypeOK
    <2>2. /\ Len(sent[Peer(c)]) = Len(got[c]) + 1
          /\ reg[c] = sent[Peer(c)][Len(got[c]) + 1]
      BY <1>5, TakenFrame
    <2>3. /\ Len(got[c]) < Len(sent[Peer(c)])
          /\ got' = [got EXCEPT ![c] = Append(@, sent[Peer(c)][Len(@) + 1])]
          /\ UNCHANGED sent
      BY <1>5, <2>1, <2>2 DEF TakeFinish
    <2>4. Channel!Receive(c)
      BY <2>3 DEF Channel!Receive, Channel!Peer, Peer
    <2>5. QED
      BY <2>4 DEF Channel!ChanNext, Channel!Core, Core
  <1>6. CASE UNCHANGED vars
    BY <1>6 DEF vars
  <1>7. QED
    BY <1>1, <1>2, <1>3, <1>4, <1>5, <1>6 DEF Next

\* The SIO mailbox refines the one-place channel: every published frame is
\* taken whole, once and in order, for every set of handles and frames.
THEOREM MailboxRefinesChannel == Spec => ChannelSpec
  <1>1. Init => Channel!ChanInit
    BY DEF Init, Channel!ChanInit, Channel!Core, Core
  <1>2. QED
    BY <1>1, MailboxInvariant, ChannelStep, PTL DEF Spec, ChannelSpec, Channel!ChanSpec

\* A slot is emptied only by the take that returns its frame: cancel_send never
\* withdraws a frame whose poll_send has returned.
LEMMA RetractionStep ==
  MailboxInv /\ [Next]_vars =>
    [\A c \in Core :
       occupied[c] /\ ~occupied'[c] => Len(got'[Peer(c)]) = Len(got[Peer(c)]) + 1]_vars
  <1> SUFFICES ASSUME MailboxInv, Next,
                      NEW c \in Core, occupied[c], ~occupied'[c]
               PROVE  Len(got'[Peer(c)]) = Len(got[Peer(c)]) + 1
    OBVIOUS
  <1> USE MailboxAssumption, PeerFacts
  <1> USE DEF MailboxInv, TypeOK
  <1>1. ASSUME NEW t \in Tx, CancelSend(t) PROVE FALSE
    BY <1>1 DEF CancelSend, PublishedInv
  <1>2. ASSUME NEW d \in Core, TakeFinish(d)
        PROVE  Len(got'[Peer(c)]) = Len(got[Peer(c)]) + 1
    BY <1>2 DEF TakeFinish
  <1>3. ASSUME NEW d \in Core, PublishCommit(d) PROVE FALSE
    BY <1>3 DEF PublishCommit
  <1>4. ASSUME NEW d \in Core, TakeRead(d) PROVE FALSE
    <2>1. pc'[d] # "failed"
      BY InvStep DEF TakeNeverFails
    <2>2. QED
      BY <1>4, <2>1 DEF TakeRead
  <1>5. ASSUME NEW t \in Tx, \/ \E f \in Frame : NewPending(t, f)
                             \/ PublishCheck(t)
                             \/ PublishBusy(t)
        PROVE  FALSE
    BY <1>5 DEF NewPending, PublishCheck, PublishBusy, slotVars, vars
  <1>6. ASSUME NEW d \in Core,
               PublishWrite(d) \/ FinishSend(d) \/ TakeEmpty(d) \/ TakeCheck(d)
        PROVE  FALSE
    BY <1>6 DEF PublishWrite, FinishSend, TakeEmpty, TakeCheck, slotVars, vars
  <1>7. QED
    BY <1>1, <1>2, <1>3, <1>4, <1>5, <1>6 DEF Next

\* No step retracts a published frame (clear_outbound_mailbox in cancel_send).
THEOREM NothingRetracted == Spec => NoRetraction
  BY MailboxInvariant, RetractionStep, PTL DEF Spec, NoRetraction
=============================================================================
