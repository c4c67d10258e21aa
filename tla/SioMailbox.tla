----------------------------- MODULE SioMailbox -----------------------------
(***************************************************************************)
(* The RP2040 SIO mailbox of the Baker firmware: one shared-memory slot    *)
(* per direction between the two cores, without read-modify-write atomics. *)
(* Every volatile access is a step of its own, so that the publisher on    *)
(* one core and the taker on the other interleave between any two of them. *)
(*                                                                         *)
(* occupied[c], mem[c]   the slot that core c writes and its peer reads    *)
(* pending[t]            SioTx.pending of transmit handle t                *)
(* published[t]          PendingMailboxFrame.published                     *)
(* pc[c], step[c]        where core c is: "publish" and "take" are inside  *)
(*                       publish_mailbox_frame and take_mailbox_frame,     *)
(*                       "sent" is poll_send after the publish, "failed"   *)
(*                       a core whose take returned an error               *)
(* owner[c]              the handle whose poll_send core c is executing    *)
(* reg[c]                the frame core c has read so far                  *)
(* sent, got             histories: frames published by each core, frames  *)
(*                       take_mailbox_frame returned on each core          *)
(***************************************************************************)
EXTENDS Naturals, Sequences

CONSTANTS
  Tx,              \* the transmit handles (one SioTx for each opened port)
  CoreOf,          \* the core each handle runs on
  Frame,           \* the frames the endpoints try to send
  NoFrame,         \* Option::None
  NoTx,            \* no poll_send is running
  SIO_FRAME_BYTES, \* payload capacity of the slot
  MaxFrames        \* bound: frames each core sends

Core == {0, 1}
Peer(c) == 1 - c

Field == {"session_id", "sender_role", "peer_role", "frame_label", "lane",
          "len", "bytes"}

\* The order in which publish_mailbox_frame writes and take_mailbox_frame
\* reads the fields of the slot.  The payload loop counts as one access.
WriteOrder == <<"session_id", "sender_role", "peer_role", "frame_label",
                "lane", "len", "bytes">>
ReadOrder == <<"len", "sender_role", "peer_role", "bytes", "session_id",
               "frame_label", "lane">>
Fields == 7

ASSUME MailboxAssumption ==
  /\ CoreOf \in [Tx -> Core]
  /\ Frame \subseteq [Field -> Nat]
  /\ NoFrame \notin Frame
  /\ NoTx \notin Tx
  /\ SIO_FRAME_BYTES \in Nat
  /\ MaxFrames \in Nat

VARIABLES occupied, mem, pending, published, pc, step, owner, reg, sent, got

slotVars == <<occupied, mem>>
txVars == <<pending, published>>
coreVars == <<pc, step, owner, reg>>
vars == <<slotVars, txVars, coreVars, sent, got>>

EMPTY == [k \in Field |-> 0]

Init ==
  /\ occupied = [c \in Core |-> FALSE]
  /\ mem = [c \in Core |-> EMPTY]
  /\ pending = [t \in Tx |-> NoFrame]
  /\ published = [t \in Tx |-> FALSE]
  /\ pc = [c \in Core |-> "idle"]
  /\ step = [c \in Core |-> 1]
  /\ owner = [c \in Core |-> NoTx]
  /\ reg = [c \in Core |-> EMPTY]
  /\ sent = [c \in Core |-> <<>>]
  /\ got = [c \in Core |-> <<>>]

-----------------------------------------------------------------------------
(* poll_send: the frame becomes tx.pending, then publish_mailbox_frame.    *)

\* The frames poll_send does not refuse: not addressed to the sending role
\* itself and not longer than the slot.
Sendable(f) ==
  /\ f["sender_role"] # f["peer_role"]
  /\ f["len"] <= SIO_FRAME_BYTES

\* PendingMailboxFrame::new, only when no frame is pending on the handle.
NewPending(t, f) ==
  /\ pc[CoreOf[t]] = "idle"
  /\ pending[t] = NoFrame
  /\ Sendable(f)
  /\ Len(sent[CoreOf[t]]) < MaxFrames
  /\ pending' = [pending EXCEPT ![t] = f]
  /\ published' = [published EXCEPT ![t] = FALSE]
  /\ UNCHANGED <<slotVars, coreVars, sent, got>>

MutPublishCheck(t) ==
  /\ pc[CoreOf[t]] = "idle"
  /\ pending[t] # NoFrame
  /\ pc' = [pc EXCEPT ![CoreOf[t]] = "publish"]
  /\ step' = [step EXCEPT ![CoreOf[t]] = 1]
  /\ owner' = [owner EXCEPT ![CoreOf[t]] = t]
  /\ UNCHANGED <<slotVars, txVars, reg, sent, got>>

\* publish_mailbox_frame reads occupied and finds the slot free (or the frame
\* published already: then nothing is written and poll_send goes on).
PublishCheck(t) ==
  /\ pc[CoreOf[t]] = "idle"
  /\ pending[t] # NoFrame
  /\ published[t] \/ ~occupied[CoreOf[t]]
  /\ pc' = [pc EXCEPT ![CoreOf[t]] = IF published[t] THEN "sent" ELSE "publish"]
  /\ step' = [step EXCEPT ![CoreOf[t]] = 1]
  /\ owner' = [owner EXCEPT ![CoreOf[t]] = t]
  /\ UNCHANGED <<slotVars, txVars, reg, sent, got>>

\* The slot still holds the previous frame: publish_mailbox_frame returns
\* false, poll_send returns Pending and keeps tx.pending for the next poll.
PublishBusy(t) ==
  /\ pc[CoreOf[t]] = "idle"
  /\ pending[t] # NoFrame
  /\ ~published[t] /\ occupied[CoreOf[t]]
  /\ UNCHANGED vars

PublishWrite(c) ==
  /\ pc[c] = "publish"
  /\ step[c] <= Fields
  /\ LET k == WriteOrder[step[c]]
     IN  mem' = [mem EXCEPT ![c][k] = pending[owner[c]][k]]
  /\ step' = [step EXCEPT ![c] = @ + 1]
  /\ UNCHANGED <<occupied, txVars, pc, owner, reg, sent, got>>

\* The store to occupied: from here on the peer may take the frame.
PublishCommit(c) ==
  /\ pc[c] = "publish"
  /\ step[c] = Fields + 1
  /\ occupied' = [occupied EXCEPT ![c] = TRUE]
  /\ published' = [published EXCEPT ![owner[c]] = TRUE]
  /\ sent' = [sent EXCEPT ![c] = Append(@, pending[owner[c]])]
  /\ pc' = [pc EXCEPT ![c] = "sent"]
  /\ UNCHANGED <<mem, pending, step, owner, reg, got>>

MutFinishSend(c) ==
  /\ pc[c] = "sent"
  /\ pc' = [pc EXCEPT ![c] = "idle"]
  /\ UNCHANGED <<slotVars, txVars, step, owner, reg, sent, got>>

\* poll_send takes tx.pending (and published with it) and returns Ready(Ok).
FinishSend(c) ==
  /\ pc[c] = "sent"
  /\ pending' = [pending EXCEPT ![owner[c]] = NoFrame]
  /\ published' = [published EXCEPT ![owner[c]] = FALSE]
  /\ pc' = [pc EXCEPT ![c] = "idle"]
  /\ UNCHANGED <<slotVars, step, owner, reg, sent, got>>

MutCancelSend(t) ==
  /\ pc[CoreOf[t]] = "idle"
  /\ pending[t] # NoFrame
  /\ occupied' = [occupied EXCEPT ![CoreOf[t]] = FALSE]
  /\ pending' = [pending EXCEPT ![t] = NoFrame]
  /\ published' = [published EXCEPT ![t] = FALSE]
  /\ UNCHANGED <<mem, coreVars, sent, got>>

\* cancel_send: a published pending frame is withdrawn from the slot
\* (clear_outbound_mailbox), an unpublished one only dropped.
CancelSend(t) ==
  /\ pc[CoreOf[t]] = "idle"
  /\ pending[t] # NoFrame
  /\ occupied' = [occupied EXCEPT ![CoreOf[t]] = @ /\ ~published[t]]
  /\ pending' = [pending EXCEPT ![t] = NoFrame]
  /\ published' = [published EXCEPT ![t] = FALSE]
  /\ UNCHANGED <<mem, coreVars, sent, got>>

-----------------------------------------------------------------------------
(* take_mailbox_frame on the inbound slot, which the peer core publishes.  *)

\* An empty slot returns Ok(None) and changes nothing.
TakeEmpty(c) ==
  /\ pc[c] = "idle"
  /\ ~occupied[Peer(c)]
  /\ UNCHANGED vars

TakeCheck(c) ==
  /\ pc[c] = "idle"
  /\ occupied[Peer(c)]
  /\ pc' = [pc EXCEPT ![c] = "take"]
  /\ step' = [step EXCEPT ![c] = 1]
  /\ UNCHANGED <<slotVars, txVars, owner, reg, sent, got>>

\* The two checks of a frame that is being read: an oversized length and a
\* frame addressed to its own sender.
Malformed(k, f) ==
  \/ k = "len" /\ f["len"] > SIO_FRAME_BYTES
  \/ k = "peer_role" /\ f["sender_role"] = f["peer_role"]

MutTakeRead(c) ==
  LET k == ReadOrder[step[c]]
      frame == [reg[c] EXCEPT ![k] = mem[Peer(c)][k]]
  IN  /\ pc[c] = "take"
      /\ step[c] <= Fields
      /\ reg' = [reg EXCEPT ![c] = frame]
      /\ occupied' = [occupied EXCEPT ![Peer(c)] = FALSE]
      /\ step' = [step EXCEPT ![c] = @ + 1]
      /\ UNCHANGED <<mem, txVars, pc, owner, sent, got>>

TakeRead(c) ==
  LET k == ReadOrder[step[c]]
      frame == [reg[c] EXCEPT ![k] = mem[Peer(c)][k]]
  IN  /\ pc[c] = "take"
      /\ step[c] <= Fields
      /\ reg' = [reg EXCEPT ![c] = frame]
      /\ IF Malformed(k, frame)
         THEN /\ occupied' = [occupied EXCEPT ![Peer(c)] = FALSE]
              /\ pc' = [pc EXCEPT ![c] = "failed"]
              /\ UNCHANGED step
         ELSE /\ step' = [step EXCEPT ![c] = @ + 1]
              /\ UNCHANGED <<occupied, pc>>
      /\ UNCHANGED <<mem, txVars, owner, sent, got>>

TakeFinish(c) ==
  /\ pc[c] = "take"
  /\ step[c] = Fields + 1
  /\ occupied' = [occupied EXCEPT ![Peer(c)] = FALSE]
  /\ got' = [got EXCEPT ![c] = Append(@, reg[c])]
  /\ pc' = [pc EXCEPT ![c] = "idle"]
  /\ UNCHANGED <<mem, txVars, step, owner, reg, sent>>

-----------------------------------------------------------------------------
Next ==
  \/ \E t \in Tx :
       \/ \E f \in Frame : NewPending(t, f)
       \/ PublishCheck(t)
       \/ PublishBusy(t)
       \/ CancelSend(t)
  \/ \E c \in Core :
       \/ PublishWrite(c)
       \/ PublishCommit(c)
       \/ FinishSend(c)
       \/ TakeEmpty(c)
       \/ TakeCheck(c)
       \/ TakeRead(c)
       \/ TakeFinish(c)

Spec == Init /\ [][Next]_vars

-----------------------------------------------------------------------------
TypeOK ==
  /\ occupied \in [Core -> BOOLEAN]
  /\ mem \in [Core -> [Field -> Nat]]
  /\ pending \in [Tx -> Frame \cup {NoFrame}]
  /\ published \in [Tx -> BOOLEAN]
  /\ pc \in [Core -> {"idle", "publish", "sent", "take", "failed"}]
  /\ step \in [Core -> 1..(Fields + 1)]
  /\ owner \in [Core -> Tx \cup {NoTx}]
  /\ reg \in [Core -> [Field -> Nat]]
  /\ sent \in [Core -> Seq(Frame)]
  /\ got \in [Core -> Seq([Field -> Nat])]

\* The slot has one user at a time although nothing but the occupied word
\* arbitrates: while a core is between the first and the last access of a
\* publish, its peer is not inside a take of that slot.
SlotExclusive ==
  \A c \in Core : ~(pc[c] = "publish" /\ pc[Peer(c)] = "take")

\* take_mailbox_frame never meets a malformed frame: what poll_send refused
\* on one core is never seen by the checks on the other, so neither error
\* return of take_mailbox_frame is reachable.
TakeNeverFails == \A c \in Core : pc[c] # "failed"

\* An occupied slot is emptied only by handing its frame to the taker: not
\* by cancel_send, whose withdrawal must never hit a frame that poll_send
\* already reported as sent, and not by an error return.
NoRetraction ==
  [][\A c \in Core :
       occupied[c] /\ ~occupied'[c] => Len(got'[Peer(c)]) = Len(got[Peer(c)]) + 1]_vars

\* The inductive invariant.  A core that publishes does it for one of its own
\* pending frames ...
OwnerInv ==
  \A c \in Core : pc[c] \in {"publish", "sent"} =>
    /\ owner[c] \in Tx
    /\ CoreOf[owner[c]] = c
    /\ pending[owner[c]] # NoFrame

\* ... a frame is published and still pending only inside its own poll_send ...
PublishedInv ==
  \A t \in Tx : published[t] => pc[CoreOf[t]] = "sent" /\ owner[CoreOf[t]] = t

\* ... only frames that passed the checks of poll_send are on the way ...
SendableInv ==
  /\ \A t \in Tx : pending[t] # NoFrame => Sendable(pending[t])
  /\ \A c \in Core : \A i \in 1..Len(sent[c]) : Sendable(sent[c][i])

\* ... the fields written so far are the pending frame's, in a free slot ...
WriteInv ==
  \A c \in Core : pc[c] = "publish" =>
    /\ ~occupied[c]
    /\ \A i \in 1..Fields : i < step[c] =>
         mem[c][WriteOrder[i]] = pending[owner[c]][WriteOrder[i]]

\* ... the fields read so far are those of the slot, which stays occupied ...
ReadInv ==
  \A c \in Core : pc[c] = "take" =>
    /\ occupied[Peer(c)]
    /\ \A i \in 1..Fields : i < step[c] =>
         reg[c][ReadOrder[i]] = mem[Peer(c)][ReadOrder[i]]

\* ... and the slot is occupied exactly while its last frame is not taken.
SlotInv ==
  \A c \in Core :
    /\ occupied[c] => /\ Len(sent[c]) = Len(got[Peer(c)]) + 1
                      /\ mem[c] = sent[c][Len(sent[c])]
    /\ ~occupied[c] => Len(sent[c]) = Len(got[Peer(c)])

MailboxInv ==
  /\ TypeOK
  /\ OwnerInv
  /\ PublishedInv
  /\ SendableInv
  /\ WriteInv
  /\ ReadInv
  /\ SlotInv
  /\ TakeNeverFails

\* The mailbox is a one-place channel in each direction: every frame whose
\* poll_send returned Ready(Ok) is taken whole, once and in order.
Channel == INSTANCE FrameChannel
ChannelSpec == Channel!ChanSpec
=============================================================================
