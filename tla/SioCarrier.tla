----------------------------- MODULE SioCarrier -----------------------------
(***************************************************************************)
(* The RP2040 SIO carrier of the Baker firmware above the mailbox:         *)
(* poll_send, cancel_send, poll_recv and requeue of SioTransport, with the *)
(* stash that demultiplexes roles and lanes and the registry of the roles  *)
(* attached on each core.  Publishing and taking a mailbox frame are one   *)
(* step each: SioMailbox shows that they behave so.                        *)
(*                                                                         *)
(* A port is a pair <<role, lane>>: Hibana opens one SioTx and one SioRx   *)
(* for it, on the core that hosts the role.  The two cores run             *)
(* concurrently; the polls of one core never overlap.                      *)
(*                                                                         *)
(* site                the deployment that runs                            *)
(* attached, roleLane  SIO_LOCAL_ROLE_CORE_MASKS, SIO_LOCAL_ROLE_LANES     *)
(* stash[c][r]         SIO_RX_STASH_CORE0/1: one frame for each role       *)
(* mailbox[c]          the slot that core c publishes and its peer takes   *)
(* outgoing[p]         the frame Hibana polls poll_send with               *)
(* pending[p], rx[p]   SioTx.pending; SioRx frame, delivered, requeued     *)
(* busy[c]             the port whose poll_recv loop core c is executing   *)
(* fault[c]            the error a poll returned on core c: the role task  *)
(*                     ends and the core stops                             *)
(* offered, accepted   histories: the frames handed to poll_send in order  *)
(*                     (a frame's id is its place), those it accepted      *)
(* seen[p]             history: the ids staged at port p, in order         *)
(***************************************************************************)
EXTENDS Naturals, Sequences, FiniteSets

CONSTANTS
  Site,        \* the deployments: roles, opened ports, the core that hosts
               \* each role, and whether the capsule has a deadline
  None,
  MaxFrames    \* bound: frames offered in a behaviour

VARIABLES site, attached, roleLane, stash, mailbox, outgoing, pending, rx,
          busy, fault, offered, accepted, seen

Role == site.role
Port == site.port
CoreOf == site.coreOf

\* SIO_OPERATIONAL_DEADLINE_TICKS # 0
OPERATIONAL_DEADLINE == site.deadline

Core == {0, 1}
Peer(c) == 1 - c
RoleOf(p) == p[1]
LaneOf(p) == p[2]
HostOf(p) == CoreOf[p[1]]

\* BAKER_SIO_ROLE_SLOTS: baker_role_stash_index knows the roles 0, 1 and 2.
BAKER_SIO_ROLE_SLOTS == 3

ASSUME CarrierAssumption ==
  /\ \A s \in Site :
       /\ s.role \subseteq 0..(BAKER_SIO_ROLE_SLOTS - 1)
       /\ s.port \subseteq s.role \X Nat
       /\ s.coreOf \in [s.role -> Core]
       /\ s.deadline \in BOOLEAN
       /\ None \notin s.port
  /\ None \notin [id : Nat, from : Nat, to : Nat, lane : Nat]
  /\ MaxFrames \in Nat

Frame == [id : Nat, from : Role, to : Role, lane : Nat]
RxState == [frame : Frame \cup {None}, delivered : BOOLEAN, requeued : BOOLEAN]

registry == <<attached, roleLane>>
hist == <<offered, accepted, seen>>
vars == <<site, registry, stash, mailbox, outgoing, pending, rx, busy, fault, hist>>

EmptyRx == [frame |-> None, delivered |-> FALSE, requeued |-> FALSE]

Init ==
  /\ site \in Site
  /\ attached = {}
  /\ roleLane = [r \in Role |-> [c \in Core |-> 0]]
  /\ stash = [c \in Core |-> [r \in Role |-> None]]
  /\ mailbox = [c \in Core |-> None]
  /\ outgoing = [p \in Port |-> None]
  /\ pending = [p \in Port |-> None]
  /\ rx = [p \in Port |-> EmptyRx]
  /\ busy = [c \in Core |-> None]
  /\ fault = [c \in Core |-> "none"]
  /\ offered = <<>>
  /\ accepted = {}
  /\ seen = [p \in Port |-> <<>>]

-----------------------------------------------------------------------------
\* Core c is between two polls and its role task has not failed.
Idle(c) == busy[c] = None /\ fault[c] = "none"

\* mark_local_role_attached, the first thing each poll does.
MarkLocalRoleAttached(p) ==
  /\ attached' = attached \cup {<<RoleOf(p), HostOf(p)>>}
  /\ roleLane' = [roleLane EXCEPT ![RoleOf(p)][HostOf(p)] = LaneOf(p)]

\* The role is attached on core c (role_lane_on_core answers Some).
AttachedOn(r, c) == <<r, c>> \in attached

Fail(c, error) == fault' = [fault EXCEPT ![c] = error]

-----------------------------------------------------------------------------
(* Sending.                                                                *)

\* Hibana starts a send on port p: the choreography names the target role,
\* which has a port on the same lane.
BeginSend(p, to) ==
  /\ Idle(HostOf(p))
  /\ outgoing[p] = None
  /\ to # RoleOf(p) /\ <<to, LaneOf(p)>> \in Port
  /\ Len(offered) < MaxFrames
  /\ LET f == [id |-> Len(offered) + 1, from |-> RoleOf(p), to |-> to,
               lane |-> LaneOf(p)]
     IN  /\ outgoing' = [outgoing EXCEPT ![p] = f]
         /\ offered' = Append(offered, f)
  /\ UNCHANGED <<site, registry, stash, mailbox, pending, rx, busy, fault, accepted, seen>>

\* poll_send to a role attached on this core: the frame goes to its stash
\* slot, on the lane that role polled last, or the send fails with Capacity.
\* A frame left pending by an earlier poll stays pending.
PollSendLocal(p) ==
  LET c == HostOf(p)
      f == outgoing[p]
  IN  /\ Idle(c) /\ f # None
      /\ MarkLocalRoleAttached(p)
      /\ AttachedOn(f.to, c)
      /\ IF stash[c][f.to] # None
         THEN /\ Fail(c, "Capacity")
              /\ UNCHANGED <<stash, accepted>>
         ELSE /\ stash' = [stash EXCEPT ![c][f.to] =
                             [f EXCEPT !.lane = roleLane[f.to][c]]]
              /\ accepted' = accepted \cup {f.id}
              /\ UNCHANGED fault
      /\ outgoing' = [outgoing EXCEPT ![p] = None]
      /\ UNCHANGED <<site, mailbox, pending, rx, busy, offered, seen>>

\* poll_send to any other role: the frame becomes (or still is) tx.pending
\* and is published if the mailbox is free.  Otherwise the poll returns
\* Pending and the frame waits for the next poll.
PollSendRemote(p) ==
  LET c == HostOf(p)
      f == outgoing[p]
      waiting == IF pending[p] = None THEN f ELSE pending[p]
  IN  /\ Idle(c) /\ f # None
      /\ MarkLocalRoleAttached(p)
      /\ ~AttachedOn(f.to, c)
      /\ IF mailbox[c] # None
         THEN /\ pending' = [pending EXCEPT ![p] = waiting]
              /\ UNCHANGED <<mailbox, outgoing, accepted>>
         ELSE /\ mailbox' = [mailbox EXCEPT ![c] = waiting]
              /\ pending' = [pending EXCEPT ![p] = None]
              /\ outgoing' = [outgoing EXCEPT ![p] = None]
              /\ accepted' = accepted \cup {f.id}
      /\ UNCHANGED <<site, stash, rx, busy, fault, offered, seen>>

\* cancel_send: the send future is dropped and its pending frame with it.
\* (A pending frame is never published: SioMailbox!PublishedInv.)
CancelSend(p) ==
  /\ Idle(HostOf(p))
  /\ outgoing[p] # None
  /\ outgoing' = [outgoing EXCEPT ![p] = None]
  /\ pending' = [pending EXCEPT ![p] = None]
  /\ UNCHANGED <<site, registry, stash, mailbox, rx, busy, fault, hist>>

-----------------------------------------------------------------------------
(* Receiving.                                                              *)

Stage(p, f) ==
  /\ rx' = [rx EXCEPT ![p] = [frame |-> f, delivered |-> TRUE, requeued |-> @.requeued]]
  /\ seen' = [seen EXCEPT ![p] = Append(@, f.id)]

FrameTargetsRxLane(f, p) == f.lane = LaneOf(p)

\* poll_recv returns the frame that requeue gave back, again.
PollRecvRequeued(p) ==
  /\ Idle(HostOf(p))
  /\ rx[p].frame # None /\ (rx[p].requeued \/ ~rx[p].delivered)
  /\ MarkLocalRoleAttached(p)
  /\ rx' = [rx EXCEPT ![p].requeued = FALSE, ![p].delivered = TRUE]
  /\ seen' = [seen EXCEPT ![p] = Append(@, rx[p].frame.id)]
  /\ UNCHANGED <<site, stash, mailbox, outgoing, pending, busy, fault, offered, accepted>>

MutFresh(p) == TRUE

\* No frame was given back: the last one is finished with.
Fresh(p) == rx[p].frame # None => ~rx[p].requeued /\ rx[p].delivered

Cleared(p) == [rx[p] EXCEPT !.frame = None, !.delivered = FALSE]

MutPollRecvStash(p) ==
  LET c == HostOf(p)
      f == stash[c][RoleOf(p)]
  IN  /\ Idle(c) /\ Fresh(p)
      /\ f # None
      /\ MarkLocalRoleAttached(p)
      /\ stash' = [stash EXCEPT ![c][RoleOf(p)] = None]
      /\ Stage(p, f)
      /\ UNCHANGED <<site, mailbox, outgoing, pending, busy, fault, offered, accepted>>

\* poll_recv finds a frame stashed for its role.  On the port's lane it is
\* staged and returned.  On another lane it goes back to the stash and the
\* poll returns Pending, without a look at the mailbox.
PollRecvStash(p) ==
  LET c == HostOf(p)
      f == stash[c][RoleOf(p)]
  IN  /\ Idle(c) /\ Fresh(p)
      /\ f # None
      /\ MarkLocalRoleAttached(p)
      /\ IF FrameTargetsRxLane(f, p)
         THEN /\ stash' = [stash EXCEPT ![c][RoleOf(p)] = None]
              /\ Stage(p, f)
         ELSE /\ rx' = [rx EXCEPT ![p] = Cleared(p)]
              /\ UNCHANGED <<stash, seen>>
      /\ UNCHANGED <<site, mailbox, outgoing, pending, busy, fault, offered, accepted>>

MutPollRecvLoop(p) ==
  LET c == HostOf(p)
  IN  /\ Idle(c) /\ Fresh(p)
      /\ MarkLocalRoleAttached(p)
      /\ rx' = [rx EXCEPT ![p] = Cleared(p)]
      /\ busy' = [busy EXCEPT ![c] = p]
      /\ UNCHANGED <<site, stash, mailbox, outgoing, pending, fault, hist>>

\* poll_recv enters its take loop.
PollRecvLoop(p) ==
  LET c == HostOf(p)
  IN  /\ Idle(c) /\ Fresh(p)
      /\ stash[c][RoleOf(p)] = None
      /\ MarkLocalRoleAttached(p)
      /\ rx' = [rx EXCEPT ![p] = Cleared(p)]
      /\ busy' = [busy EXCEPT ![c] = p]
      /\ UNCHANGED <<site, stash, mailbox, outgoing, pending, fault, hist>>

\* One round of the loop that finds a frame in the mailbox.  It is returned
\* if it is for this role and lane; otherwise it is stashed and the loop goes
\* on, or, with that stash slot taken, it is dropped and the poll fails.
TakeFrame(c) ==
  LET p == busy[c]
      f == mailbox[Peer(c)]
  IN  /\ p # None /\ f # None
      /\ mailbox' = [mailbox EXCEPT ![Peer(c)] = None]
      /\ IF f.to = RoleOf(p) /\ FrameTargetsRxLane(f, p)
         THEN /\ Stage(p, f)
              /\ busy' = [busy EXCEPT ![c] = None]
              /\ UNCHANGED <<stash, fault>>
         ELSE IF stash[c][f.to] = None
         THEN /\ stash' = [stash EXCEPT ![c][f.to] = f]
              /\ UNCHANGED <<busy, rx, seen, fault>>
         ELSE /\ Fail(c, "Capacity")
              /\ busy' = [busy EXCEPT ![c] = None]
              /\ UNCHANGED <<stash, rx, seen>>
      /\ UNCHANGED <<site, registry, outgoing, pending, offered, accepted>>

\* One round that finds the mailbox empty: without an operational deadline the
\* poll returns Pending.
TakeNone(c) ==
  /\ busy[c] # None /\ mailbox[Peer(c)] = None
  /\ ~OPERATIONAL_DEADLINE
  /\ busy' = [busy EXCEPT ![c] = None]
  /\ UNCHANGED <<site, registry, stash, mailbox, outgoing, pending, rx, fault, hist>>

\* With a deadline the loop waits for a frame until the alarm.  The alarm may
\* be seen after a frame arrived behind the last look at the mailbox.
DeadlineExpired(c) ==
  /\ busy[c] # None
  /\ OPERATIONAL_DEADLINE
  /\ Fail(c, "Deadline")
  /\ busy' = [busy EXCEPT ![c] = None]
  /\ UNCHANGED <<site, registry, stash, mailbox, outgoing, pending, rx, hist>>

\* requeue: Hibana gives the staged frame back.
Requeue(p) ==
  /\ Idle(HostOf(p))
  /\ rx[p].frame # None
  /\ rx' = [rx EXCEPT ![p].requeued = TRUE, ![p].delivered = FALSE]
  /\ seen' = [seen EXCEPT ![p] = IF rx[p].delivered THEN SubSeq(@, 1, Len(@) - 1) ELSE @]
  /\ UNCHANGED <<site, registry, stash, mailbox, outgoing, pending, busy, fault, offered, accepted>>

-----------------------------------------------------------------------------
Next ==
  \/ \E p \in Port :
       \/ \E to \in Role : BeginSend(p, to)
       \/ PollSendLocal(p)
       \/ PollSendRemote(p)
       \/ CancelSend(p)
       \/ PollRecvRequeued(p)
       \/ PollRecvStash(p)
       \/ PollRecvLoop(p)
       \/ Requeue(p)
  \/ \E c \in Core :
       \/ TakeFrame(c)
       \/ TakeNone(c)
       \/ DeadlineExpired(c)

Spec == Init /\ [][Next]_vars

-----------------------------------------------------------------------------
TypeOK ==
  /\ site \in Site
  /\ attached \subseteq Role \X Core
  /\ roleLane \in [Role -> [Core -> Nat]]
  /\ stash \in [Core -> [Role -> Frame \cup {None}]]
  /\ mailbox \in [Core -> Frame \cup {None}]
  /\ outgoing \in [Port -> Frame \cup {None}]
  /\ pending \in [Port -> Frame \cup {None}]
  /\ rx \in [Port -> RxState]
  /\ busy \in [Core -> Port \cup {None}]
  /\ fault \in [Core -> {"none", "Capacity", "Deadline"}]
  /\ offered \in Seq(Frame)
  /\ accepted \subseteq 1..Len(offered)
  /\ seen \in [Port -> Seq(Nat)]

\* The Baker placement: the cores share no role, and each hosts one.
OneRolePerCore == \A q, r \in Role : CoreOf[q] = CoreOf[r] => q = r

\* The deployments in which no send on a core can relabel a frame's lane.
LanesKept == OneRolePerCore \/ \A p, q \in Port : RoleOf(p) = RoleOf(q) => p = q

\* Where frame i is: in a mailbox, in a stash, given back and not polled again,
\* or with the endpoint (one entry for each time it was delivered).
MailboxPlaces(i) ==
  {<<"mailbox", c>> : c \in {d \in Core : mailbox[d] # None /\ mailbox[d].id = i}}
StashPlaces(i) ==
  {<<"stash", x>> : x \in {y \in Core \X Role : stash[y[1]][y[2]] # None /\ stash[y[1]][y[2]].id = i}}
GivenBackPlaces(i) ==
  {<<"requeued", p>> : p \in
     {q \in Port : rx[q].frame # None /\ ~rx[q].delivered /\ rx[q].frame.id = i}}
SeenPlaces(i) ==
  UNION {{<<"seen", <<p, n>>>> : n \in {m \in 1..Len(seen[p]) : seen[p][m] = i}} : p \in Port}
Places(i) == MailboxPlaces(i) \cup StashPlaces(i) \cup GivenBackPlaces(i) \cup SeenPlaces(i)

\* The accepted frames that are nowhere, and the cores that dropped one.
Lost == {i \in accepted : Places(i) = {}}
Stopped == {c \in Core : fault[c] = "Capacity"}

\* With one role on each core, every frame poll_send accepted is in exactly one
\* place: nothing is lost or
\* duplicated by stashing, requeueing, cancelling or waiting.  The only frame
\* that disappears is the one whose stash slot was taken, one for each core
\* that stopped with that Capacity error.  A frame that was not accepted
\* (cancelled, refused, still pending) is nowhere.
ExactlyOnce ==
  OneRolePerCore =>
    /\ \A i \in 1..Len(offered) : Cardinality(Places(i)) <= IF i \in accepted THEN 1 ELSE 0
    /\ Cardinality(Lost) <= Cardinality(Stopped)

\* A staged frame was sent to this role and, where lanes are kept, it is the
\* frame that was sent, on the lane it was sent on.
RightAddressee ==
  \A p \in Port : rx[p].frame # None =>
    /\ rx[p].frame.to = RoleOf(p)
    /\ rx[p].frame.lane = LaneOf(p)
    /\ LanesKept => rx[p].frame = offered[rx[p].frame.id]

\* Where lanes are kept, the frames from one role reach a port in the order of
\* their sends, although frames for other roles and lanes overtake them.
InOrder ==
  LanesKept =>
    \A p \in Port : \A m, n \in 1..Len(seen[p]) :
      m < n /\ offered[seen[p][m]].from = offered[seen[p][n]].from => seen[p][m] < seen[p][n]

\* With one role on each core, a stashed frame is on the core that hosts its
\* role, where a poll of that role will find it.
NoStrandedFrame ==
  OneRolePerCore => \A c \in Core, r \in Role : stash[c][r] # None => CoreOf[r] = c

-----------------------------------------------------------------------------
(* Why these hold: an invariant that no step breaks.                       *)

\* Frame f is as it was handed to poll_send, but for a lane relabelled in a
\* stash.
Original(f) == f.id \in 1..Len(offered) /\ f = offered[f.id]
Addressed(f) ==
  /\ f.id \in 1..Len(offered)
  /\ f.from = offered[f.id].from /\ f.to = offered[f.id].to
  /\ LanesKept => f = offered[f.id]

\* Every send is between two ports of a lane, of different roles.
OfferedInv ==
  \A i \in 1..Len(offered) :
    /\ offered[i].id = i
    /\ offered[i].from # offered[i].to
    /\ <<offered[i].from, offered[i].lane>> \in Port
    /\ <<offered[i].to, offered[i].lane>> \in Port

\* A role is attached where it is hosted, on a lane it has.
AttachInv ==
  \A r \in Role, c \in Core : AttachedOn(r, c) =>
    CoreOf[r] = c /\ <<r, roleLane[r][c]>> \in Port

OwnFrame(p, f) == Original(f) /\ f.from = RoleOf(p) /\ f.lane = LaneOf(p)

\* What a port sends is its own; what is pending for the other core is what is
\* being sent, although a frame may stay pending that went to the stash.
SendInv ==
  \A p \in Port :
    /\ outgoing[p] # None => OwnFrame(p, outgoing[p])
    /\ pending[p] # None =>
         /\ OwnFrame(p, pending[p])
         /\ CoreOf[pending[p].to] # HostOf(p) => pending[p] = outgoing[p]

\* What the carrier holds was sent.
HeldInv ==
  /\ \A c \in Core : mailbox[c] # None => Original(mailbox[c]) /\ CoreOf[mailbox[c].from] = c
  /\ \A c \in Core, r \in Role : stash[c][r] # None => Addressed(stash[c][r]) /\ stash[c][r].to = r
  /\ \A p \in Port : rx[p].frame # None => Addressed(rx[p].frame)
  /\ \A p \in Port : \A n \in 1..Len(seen[p]) : seen[p][n] \in 1..Len(offered)

\* A requeued frame is one that is not delivered, a delivered one was seen last.
RxInv ==
  \A p \in Port :
    /\ rx[p].requeued => rx[p].frame # None /\ ~rx[p].delivered
    /\ rx[p].frame # None /\ rx[p].delivered =>
         Len(seen[p]) > 0 /\ seen[p][Len(seen[p])] = rx[p].frame.id

\* In the take loop the port has no frame, nor has the stash one for its lane.
BusyInv ==
  \A c \in Core : busy[c] # None =>
    LET p == busy[c]
    IN  /\ HostOf(p) = c
        /\ rx[p].frame = None
        /\ stash[c][RoleOf(p)] # None => ~FrameTargetsRxLane(stash[c][RoleOf(p)], p)

\* A frame that is still being sent is not accepted, and a core in its take
\* loop has not failed.
UnderwayInv ==
  /\ \A p \in Port : outgoing[p] # None => outgoing[p].id \notin accepted
  /\ \A c \in Core : busy[c] # None => fault[c] = "none"

\* The frames from role r to port p: those it has seen and those on the way,
\* given back to it, stashed for it, in the mailbox of the other core, about to
\* be sent.
SeenFrom(p, r) ==
  {seen[p][n] : n \in {m \in 1..Len(seen[p]) : offered[seen[p][m]].from = r}}
GivenBack(p, r) ==
  {f \in {rx[p].frame} : f # None /\ ~rx[p].delivered /\ f.from = r}
Stashed(p, r) ==
  {f \in {stash[HostOf(p)][RoleOf(p)]} : f # None /\ FrameTargetsRxLane(f, p) /\ f.from = r}
InMailbox(p, r) ==
  {f \in {mailbox[Peer(HostOf(p))]} :
     f # None /\ f.to = RoleOf(p) /\ FrameTargetsRxLane(f, p) /\ f.from = r}
Leaving(p, r) ==
  {f \in {outgoing[q] : q \in {x \in Port : x = <<r, LaneOf(p)>>}} : f # None /\ f.to = RoleOf(p)}

\* The ids in I, then the frames of A, B, C and D are in the order of their ids.
InLine(I, A, B, C, D) ==
  /\ \A i \in I, f \in A \cup B \cup C \cup D : i < f.id
  /\ \A f \in A, g \in B \cup C \cup D : f.id < g.id
  /\ \A f \in B, g \in C \cup D : f.id < g.id
  /\ \A f \in C, g \in D : f.id < g.id

\* They are on the way in the order of their sends.
OrderInv ==
  LanesKept => \A p \in Port, r \in Role :
    InLine(SeenFrom(p, r), GivenBack(p, r), Stashed(p, r), InMailbox(p, r), Leaving(p, r))

\* The state of the carrier as a whole: well typed, each staged frame at its
\* addressee's port and no stashed frame where nobody will look for it.
CarrierInv ==
  /\ TypeOK /\ OfferedInv /\ AttachInv /\ SendInv /\ HeldInv /\ RxInv /\ BusyInv /\ UnderwayInv
  /\ RightAddressee /\ NoStrandedFrame
  /\ OrderInv

\* A frame keeps the logical lane it was sent on wherever the carrier holds it.
LanePreserved ==
  /\ \A c \in Core, r \in Role : stash[c][r] # None => stash[c][r] = offered[stash[c][r].id]
  /\ \A c \in Core : mailbox[c] # None => mailbox[c] = offered[mailbox[c].id]
=============================================================================
