-------------------------- MODULE SioCarrierProofs --------------------------
(***************************************************************************)
(* The SIO carrier delivers to the right port and in order, for any        *)
(* deployment in which no send relabels a lane.                            *)
(***************************************************************************)
EXTENDS SioCarrier, FiniteSetTheorems, SequenceTheorems, TLAPS

\* The two cores.
LEMMA PeerFacts ==
  ASSUME NEW c \in Core
  PROVE  Peer(c) \in Core /\ Peer(c) # c /\ Peer(Peer(c)) = c /\ \A d \in Core : d # c => d = Peer(c)
  BY DEF Core, Peer

\* A port is a role on a lane, hosted on a core.
LEMMA PortFacts ==
  ASSUME TypeOK, NEW p \in Port
  PROVE  /\ p = <<RoleOf(p), LaneOf(p)>>
         /\ RoleOf(p) \in Role /\ LaneOf(p) \in Nat
         /\ HostOf(p) \in Core /\ HostOf(p) = CoreOf[RoleOf(p)]
         /\ p # None
  BY CarrierAssumption DEF TypeOK, Port, Role, CoreOf, RoleOf, LaneOf, HostOf

\* A frame is not None, and its roles are hosted.
LEMMA FrameFacts ==
  ASSUME TypeOK, NEW f \in Frame
  PROVE  /\ f # None
         /\ f.id \in Nat /\ f.from \in Role /\ f.to \in Role /\ f.lane \in Nat
         /\ CoreOf[f.from] \in Core /\ CoreOf[f.to] \in Core
  <1>1. Role \subseteq Nat
    <2>1. Role \subseteq 0..(BAKER_SIO_ROLE_SLOTS - 1)
      BY CarrierAssumption DEF TypeOK, Role
    <2>2. QED
      BY <2>1 DEF BAKER_SIO_ROLE_SLOTS
  <1>2. f \in [id : Nat, from : Nat, to : Nat, lane : Nat]
    BY <1>1 DEF Frame
  <1>3. CoreOf \in [Role -> Core]
    BY CarrierAssumption DEF TypeOK, Role, CoreOf
  <1>4. QED
    BY <1>2, <1>3, CarrierAssumption DEF Frame

\* The deployment does not change.
LEMMA SameSite ==
  ASSUME site' = site
  PROVE  /\ Role' = Role /\ Port' = Port /\ CoreOf' = CoreOf
         /\ Frame' = Frame /\ RxState' = RxState
         /\ OneRolePerCore' = OneRolePerCore /\ LanesKept' = LanesKept
         /\ \A p : HostOf(p)' = HostOf(p)
  BY DEF Role, Port, CoreOf, Frame, RxState, OneRolePerCore, LanesKept, HostOf

\* mark_local_role_attached registers a role on a core, with a lane.
LEMMA MarkType ==
  ASSUME TypeOK, NEW p \in Port, MarkLocalRoleAttached(p)
  PROVE  attached' \subseteq Role \X Core /\ roleLane' \in [Role -> [Core -> Nat]]
  <1>1. RoleOf(p) \in Role /\ LaneOf(p) \in Nat /\ HostOf(p) \in Core
    BY PortFacts
  <1>2. QED
    BY <1>1 DEF MarkLocalRoleAttached, TypeOK

\* Staging a frame.
LEMMA StageType ==
  ASSUME TypeOK, NEW p \in Port, NEW f \in Frame, Stage(p, f)
  PROVE  rx' \in [Port -> RxState] /\ seen' \in [Port -> Seq(Nat)]
  <1>1. f.id \in Nat
    BY FrameFacts
  <1>2. [frame |-> f, delivered |-> TRUE, requeued |-> rx[p].requeued] \in RxState
    BY DEF TypeOK, RxState
  <1>3. Append(seen[p], f.id) \in Seq(Nat)
    BY <1>1 DEF TypeOK
  <1>4. QED
    BY <1>2, <1>3 DEF Stage, TypeOK

\* Clearing the staged frame.
LEMMA ClearedType ==
  ASSUME TypeOK, NEW p \in Port
  PROVE  Cleared(p) \in RxState /\ Cleared(p).frame = None
  BY ZenonT(60) DEF TypeOK, Cleared, RxState

\* Writing one slot of the stash, or relabelling a frame, changes nothing else.
LEMMA StashWrite ==
  ASSUME TypeOK, NEW c \in Core, NEW r \in Role, NEW f \in Frame \cup {None},
         NEW new, new = [stash EXCEPT ![c][r] = f]
  PROVE  /\ new \in [Core -> [Role -> Frame \cup {None}]]
         /\ new[c][r] = f
         /\ \A d \in Core, q \in Role : ~(d = c /\ q = r) => new[d][q] = stash[d][q]
  <1> DEFINE row == [stash[c] EXCEPT ![r] = f]
  <1>1. new = [stash EXCEPT ![c] = row]
    BY DEF TypeOK
  <1>2. row \in [Role -> Frame \cup {None}] /\ row[r] = f
    BY DEF TypeOK
  <1>3. \A q \in Role : q # r => row[q] = stash[c][q]
    BY DEF TypeOK
  <1> HIDE DEF row
  <1>4. QED
    BY <1>1, <1>2, <1>3 DEF TypeOK

LEMMA Relabelled ==
  ASSUME TypeOK, NEW f \in Frame, NEW l \in Nat, NEW g, g = [f EXCEPT !.lane = l]
  PROVE  g \in Frame /\ g.id = f.id /\ g.from = f.from /\ g.to = f.to /\ g.lane = l
  BY DEF Frame

\* Every operation of the carrier keeps its state well typed.
LEMMA TypeStep == TypeOK /\ SendInv /\ [Next]_vars => TypeOK'
  <1> SUFFICES ASSUME TypeOK, SendInv, [Next]_vars PROVE TypeOK'
    BY SMTT(40)
  <1>0. site' = site
    BY DEF Next, vars, BeginSend, PollSendLocal, PollSendRemote, CancelSend, PollRecvRequeued,
           PollRecvStash, PollRecvLoop, Requeue, TakeFrame, TakeNone, DeadlineExpired
  <1>s. Role' = Role /\ Port' = Port /\ Frame' = Frame /\ RxState' = RxState
    BY <1>0, SameSite
  <1> USE <1>0, <1>s
  <1> USE DEF registry, hist
  <1>1. ASSUME NEW p \in Port, NEW to \in Role, BeginSend(p, to) PROVE TypeOK'
    <2> DEFINE f == [id |-> Len(offered) + 1, from |-> RoleOf(p), to |-> to, lane |-> LaneOf(p)]
    <2>1. f \in Frame
      <3>1. RoleOf(p) \in Role /\ LaneOf(p) \in Nat
        BY PortFacts
      <3>2. Len(offered) + 1 \in Nat
        BY DEF TypeOK
      <3>3. QED
        BY <3>1, <3>2 DEF Frame
    <2>2. outgoing' \in [Port -> Frame \cup {None}] /\ offered' \in Seq(Frame)
      BY <1>1, <2>1 DEF BeginSend, TypeOK
    <2>3. accepted' \subseteq 1..Len(offered')
      BY <1>1, <2>1 DEF BeginSend, TypeOK
    <2>4. QED
      BY <1>1, <2>2, <2>3 DEF BeginSend, TypeOK
  <1>2. ASSUME NEW p \in Port, PollSendLocal(p) PROVE TypeOK'
    <2> DEFINE c == HostOf(p)
               f == outgoing[p]
               g == [f EXCEPT !.lane = roleLane[f.to][c]]
    <2>1. f \in Frame /\ f.id \in 1..Len(offered) /\ f.to \in Role /\ c \in Core
      BY <1>2, PortFacts, FrameFacts DEF PollSendLocal, TypeOK, SendInv, OwnFrame, Original
    <2>2. g \in Frame
      <3>1. roleLane[f.to][c] \in Nat
        BY <2>1 DEF TypeOK
      <3>2. QED
        BY <2>1, <3>1, Relabelled
    <2>3. stash' \in [Core -> [Role -> Frame \cup {None}]]
      <3>1. stash' = stash \/ stash' = [stash EXCEPT ![c][f.to] = g]
        BY <1>2 DEF PollSendLocal
      <3>2. CASE stash' = stash
        BY <3>2 DEF TypeOK
      <3>3. CASE stash' = [stash EXCEPT ![c][f.to] = g]
        BY ZenonT(60), <2>1, <2>2, <3>3, StashWrite
      <3>4. QED
        BY <3>1, <3>2, <3>3
    <2>4. fault' \in [Core -> {"none", "Capacity", "Deadline"}] /\ accepted' \subseteq 1..Len(offered)
      BY <1>2, <2>1 DEF PollSendLocal, Fail, TypeOK
    <2>5. outgoing' \in [Port -> Frame \cup {None}]
      BY <1>2 DEF PollSendLocal, TypeOK
    <2>6. QED
      BY <1>2, <2>3, <2>4, <2>5, MarkType DEF PollSendLocal, TypeOK
  <1>3. ASSUME NEW p \in Port, PollSendRemote(p) PROVE TypeOK'
    <2> DEFINE c == HostOf(p)
               f == outgoing[p]
               waiting == IF pending[p] = None THEN f ELSE pending[p]
    <2>1. f \in Frame /\ f.id \in 1..Len(offered) /\ waiting \in Frame /\ c \in Core
      BY <1>3, PortFacts DEF PollSendRemote, TypeOK, SendInv, OwnFrame, Original
    <2>2. pending' \in [Port -> Frame \cup {None}] /\ outgoing' \in [Port -> Frame \cup {None}]
      BY <1>3, <2>1 DEF PollSendRemote, TypeOK
    <2>3. mailbox' \in [Core -> Frame \cup {None}] /\ accepted' \subseteq 1..Len(offered)
      BY <1>3, <2>1 DEF PollSendRemote, TypeOK
    <2>4. QED
      BY <1>3, <2>2, <2>3, MarkType DEF PollSendRemote, TypeOK
  <1>4. ASSUME NEW p \in Port, CancelSend(p) PROVE TypeOK'
    BY <1>4 DEF CancelSend, TypeOK
  <1>5. ASSUME NEW p \in Port, PollRecvRequeued(p) PROVE TypeOK'
    <2>1. rx[p] \in RxState /\ rx[p].frame \in Frame
      BY <1>5 DEF PollRecvRequeued, TypeOK, RxState
    <2>3. rx' \in [Port -> RxState]
      BY ZenonT(60), <1>5 DEF PollRecvRequeued, TypeOK, RxState
    <2>4. seen' \in [Port -> Seq(Nat)]
      BY <1>5, <2>1, FrameFacts DEF PollRecvRequeued, TypeOK
    <2>5. QED
      BY <1>5, <2>3, <2>4, MarkType DEF PollRecvRequeued, TypeOK
  <1>6. ASSUME NEW p \in Port, PollRecvStash(p) PROVE TypeOK'
    <2> DEFINE c == HostOf(p)
               f == stash[c][RoleOf(p)]
    <2>1. f \in Frame /\ c \in Core /\ RoleOf(p) \in Role
      BY <1>6, PortFacts DEF PollRecvStash, TypeOK
    <2>2. stash' \in [Core -> [Role -> Frame \cup {None}]]
      <3>1. stash' = stash \/ stash' = [stash EXCEPT ![c][RoleOf(p)] = None]
        BY <1>6 DEF PollRecvStash
      <3>2. CASE stash' = stash
        BY <3>2 DEF TypeOK
      <3>3. CASE stash' = [stash EXCEPT ![c][RoleOf(p)] = None]
        BY <2>1, <3>3, StashWrite
      <3>4. QED
        BY <3>1, <3>2, <3>3
    <2>3. rx' \in [Port -> RxState] /\ seen' \in [Port -> Seq(Nat)]
      BY <1>6, <2>1, StageType, ClearedType DEF PollRecvStash, TypeOK
    <2>4. QED
      BY <1>6, <2>2, <2>3, MarkType DEF PollRecvStash, TypeOK
  <1>7. ASSUME NEW p \in Port, PollRecvLoop(p) PROVE TypeOK'
    <2>1. rx' \in [Port -> RxState] /\ busy' \in [Core -> Port \cup {None}]
      BY <1>7, ClearedType DEF PollRecvLoop, TypeOK
    <2>2. QED
      BY <1>7, <2>1, MarkType DEF PollRecvLoop, TypeOK
  <1>8. ASSUME NEW p \in Port, Requeue(p) PROVE TypeOK'
    <2>1. rx' \in [Port -> RxState]
      BY ZenonT(60), <1>8 DEF Requeue, TypeOK, RxState
    <2>2. SubSeq(seen[p], 1, Len(seen[p]) - 1) \in Seq(Nat)
      BY DEF TypeOK
    <2>3. seen' \in [Port -> Seq(Nat)]
      BY <1>8, <2>2 DEF Requeue, TypeOK
    <2>4. QED
      BY <1>8, <2>1, <2>3 DEF Requeue, TypeOK
  <1>9. ASSUME NEW c \in Core, TakeFrame(c) PROVE TypeOK'
    <2> DEFINE p == busy[c]
               f == mailbox[Peer(c)]
    <2>1. p \in Port /\ f \in Frame /\ f.to \in Role
      BY <1>9, PeerFacts DEF TakeFrame, TypeOK, Frame
    <2>2. mailbox' \in [Core -> Frame \cup {None}] /\ busy' \in [Core -> Port \cup {None}]
      BY <1>9 DEF TakeFrame, TypeOK
    <2>3. stash' \in [Core -> [Role -> Frame \cup {None}]]
      <3>1. stash' = stash \/ stash' = [stash EXCEPT ![c][f.to] = f]
        BY <1>9 DEF TakeFrame
      <3>2. CASE stash' = stash
        BY <3>2 DEF TypeOK
      <3>3. CASE stash' = [stash EXCEPT ![c][f.to] = f]
        <4>1. f \in Frame \cup {None}
          BY <2>1
        <4> HIDE DEF f
        <4>2. QED
          BY <2>1, <3>3, <4>1, StashWrite
      <3>4. QED
        BY <3>1, <3>2, <3>3
    <2>4. fault' \in [Core -> {"none", "Capacity", "Deadline"}]
      BY <1>9 DEF TakeFrame, Fail, TypeOK
    <2>5. rx' \in [Port -> RxState] /\ seen' \in [Port -> Seq(Nat)]
      BY <1>9, <2>1, StageType DEF TakeFrame, TypeOK
    <2>6. QED
      BY <1>9, <2>2, <2>3, <2>4, <2>5 DEF TakeFrame, TypeOK
  <1>10. ASSUME NEW c \in Core, TakeNone(c) PROVE TypeOK'
    BY <1>10 DEF TakeNone, TypeOK
  <1>11. ASSUME NEW c \in Core, DeadlineExpired(c) PROVE TypeOK'
    BY <1>11 DEF DeadlineExpired, Fail, TypeOK
  <1>12. ASSUME UNCHANGED vars PROVE TypeOK'
    BY <1>12 DEF vars, TypeOK
  <1>13. QED
    BY <1>1, <1>2, <1>3, <1>4, <1>5, <1>6, <1>7, <1>8, <1>9, <1>10, <1>11, <1>12 DEF Next

\* The history of the sends only grows, and the deployment stays.
LEMMA OfferedGrows ==
  ASSUME TypeOK, [Next]_vars
  PROVE  /\ site' = site
         /\ Len(offered) \in Nat /\ Len(offered') \in Nat /\ Len(offered) <= Len(offered')
         /\ \A i \in 1..Len(offered) : offered'[i] = offered[i]
  <1>1. CASE \E p \in Port, to \in Role : BeginSend(p, to)
    <2>1. PICK f : offered' = Append(offered, f) /\ site' = site
      BY <1>1 DEF BeginSend
    <2>2. QED
      BY <2>1 DEF TypeOK
  <1>2. CASE ~\E p \in Port, to \in Role : BeginSend(p, to)
    <2>1. offered' = offered /\ site' = site
      BY <1>2 DEF Next, vars, hist, registry, PollSendLocal, PollSendRemote, CancelSend, PollRecvRequeued,
           PollRecvStash, PollRecvLoop, Requeue, TakeFrame, TakeNone, DeadlineExpired
    <2>2. QED
      BY <2>1 DEF TypeOK
  <1>3. QED
    BY <1>1, <1>2

\* So a frame that was sent stays a frame that was sent.
LEMMA StaysSent ==
  ASSUME TypeOK, [Next]_vars, NEW f
  PROVE  /\ Original(f) => Original(f)'
         /\ Addressed(f) => Addressed(f)'
  BY OfferedGrows, SameSite DEF Original, Addressed

\* Sends stay between two ports of a lane.
LEMMA OfferedStep ==
  ASSUME TypeOK, OfferedInv, [Next]_vars PROVE OfferedInv'
  <1>1. site' = site /\ Port' = Port
    BY OfferedGrows, SameSite
  <1>2. CASE \E p \in Port, to \in Role : BeginSend(p, to)
    <2>1. PICK p \in Port, to \in Role : BeginSend(p, to)
      BY <1>2
    <2>2. PICK f : /\ offered' = Append(offered, f)
                   /\ f = [id |-> Len(offered) + 1, from |-> RoleOf(p), to |-> to, lane |-> LaneOf(p)]
      BY <2>1 DEF BeginSend
    <2>3. /\ f.id = Len(offered) + 1 /\ f.from # f.to
          /\ <<f.from, f.lane>> \in Port /\ <<f.to, f.lane>> \in Port
      BY <2>1, <2>2, PortFacts DEF BeginSend
    <2>4. Len(offered') = Len(offered) + 1 /\ offered'[Len(offered) + 1] = f
      BY <2>2 DEF TypeOK
    <2>5. \A i \in 1..Len(offered') : i \in 1..Len(offered) \/ i = Len(offered) + 1
      BY <2>4, OfferedGrows
    <2>6. \A i \in 1..Len(offered) : offered'[i] = offered[i]
      BY OfferedGrows
    <2>7. QED
      BY <1>1, <2>3, <2>4, <2>5, <2>6 DEF OfferedInv
  <1>3. CASE ~\E p \in Port, to \in Role : BeginSend(p, to)
    <2>1. offered' = offered
      BY <1>3 DEF Next, vars, hist, registry, PollSendLocal, PollSendRemote, CancelSend, PollRecvRequeued,
           PollRecvStash, PollRecvLoop, Requeue, TakeFrame, TakeNone, DeadlineExpired
    <2>2. QED
      BY <1>1, <2>1 DEF OfferedInv
  <1>4. QED
    BY <1>2, <1>3

\* A role is marked on its own core, with a lane it polls on.
LEMMA AttachStep ==
  ASSUME TypeOK, AttachInv, [Next]_vars PROVE AttachInv'
  <1>1. site' = site /\ Port' = Port /\ Role' = Role /\ CoreOf' = CoreOf
    BY OfferedGrows, SameSite
  <1>2. CASE UNCHANGED registry
    BY <1>1, <1>2 DEF AttachInv, AttachedOn, registry
  <1>3. CASE \E p \in Port : MarkLocalRoleAttached(p)
    <2>1. PICK p \in Port : MarkLocalRoleAttached(p)
      BY <1>3
    <2>2. RoleOf(p) \in Role /\ HostOf(p) \in Core /\ HostOf(p) = CoreOf[RoleOf(p)]
            /\ p = <<RoleOf(p), LaneOf(p)>>
      BY PortFacts
    <2>3. \A r \in Role, c \in Core :
            roleLane'[r][c] = IF r = RoleOf(p) /\ c = HostOf(p) THEN LaneOf(p) ELSE roleLane[r][c]
      BY <2>1, <2>2 DEF MarkLocalRoleAttached, TypeOK
    <2>4. ASSUME NEW r \in Role, NEW c \in Core, AttachedOn(r, c)'
          PROVE  CoreOf[r] = c /\ <<r, roleLane'[r][c]>> \in Port
      <3>1. CASE r = RoleOf(p) /\ c = HostOf(p)
        BY <2>2, <2>3, <3>1
      <3>2. CASE ~(r = RoleOf(p) /\ c = HostOf(p))
        <4>1. AttachedOn(r, c)
          BY <2>1, <2>4, <3>2 DEF AttachedOn, MarkLocalRoleAttached
        <4>2. QED
          BY <2>3, <3>2, <4>1 DEF AttachInv
      <3>3. QED
        BY <3>1, <3>2
    <2>5. QED
      BY <1>1, <2>4 DEF AttachInv
  <1>4. QED
    BY <1>2, <1>3 DEF Next, vars, hist, registry, BeginSend, PollSendLocal, PollSendRemote, CancelSend,
           PollRecvRequeued, PollRecvStash, PollRecvLoop, Requeue, TakeFrame, TakeNone, DeadlineExpired

\* What is pending for the other core is what is being sent.
LEMMA SendStep ==
  ASSUME TypeOK, AttachInv, SendInv, [Next]_vars PROVE SendInv'
  <1>1. site' = site /\ Port' = Port /\ CoreOf' = CoreOf /\ \A p : HostOf(p)' = HostOf(p)
    BY OfferedGrows, SameSite
  <1>2. \A p, f : OwnFrame(p, f) => OwnFrame(p, f)'
    BY StaysSent DEF OwnFrame
  <1> USE <1>1, <1>2
  <1>3. ASSUME NEW p \in Port, NEW to \in Role, BeginSend(p, to) PROVE SendInv'
    <2>0. PICK f :
            /\ f = [id |-> Len(offered) + 1, from |-> RoleOf(p), to |-> to, lane |-> LaneOf(p)]
            /\ offered' = Append(offered, f) /\ outgoing' = [outgoing EXCEPT ![p] = f]
      BY <1>3 DEF BeginSend
    <2>1. outgoing[p] = None /\ pending' = pending
      BY <1>3 DEF BeginSend
    <2>2. OwnFrame(p, f)'
      <3>1. Len(offered') = Len(offered) + 1 /\ offered'[Len(offered) + 1] = f /\ Len(offered) \in Nat
        BY <2>0 DEF TypeOK
      <3>2. f.id = Len(offered) + 1 /\ f.from = RoleOf(p) /\ f.lane = LaneOf(p)
        BY <2>0
      <3>3. QED
        BY <3>1, <3>2 DEF OwnFrame, Original
    <2>3. pending[p] # None => CoreOf[pending[p].to] = HostOf(p)
      BY <2>1 DEF SendInv
    <2>4. \A q \in Port : outgoing'[q] = IF q = p THEN f ELSE outgoing[q]
      BY <2>0 DEF TypeOK
    <2>5. QED
      BY <2>1, <2>2, <2>3, <2>4 DEF SendInv
  <1>4. ASSUME NEW p \in Port, PollSendLocal(p) PROVE SendInv'
    <2>1. outgoing' = [outgoing EXCEPT ![p] = None] /\ pending' = pending /\ outgoing[p] # None
      BY <1>4 DEF PollSendLocal
    <2>2. CoreOf[outgoing[p].to] = HostOf(p)
      <3>1. AttachedOn(outgoing[p].to, HostOf(p))
        BY <1>4 DEF PollSendLocal
      <3>2. outgoing[p] \in Frame
        BY <2>1 DEF TypeOK
      <3>3. outgoing[p].to \in Role /\ HostOf(p) \in Core
        BY <3>2, PortFacts, FrameFacts
      <3>4. QED
        BY <3>1, <3>3 DEF AttachInv
    <2>3. \A q \in Port : outgoing'[q] = IF q = p THEN None ELSE outgoing[q]
      BY <2>1 DEF TypeOK
    <2>4. QED
      BY <2>1, <2>2, <2>3 DEF SendInv
  <1>5. ASSUME NEW p \in Port, PollSendRemote(p) PROVE SendInv'
    <2> DEFINE waiting == IF pending[p] = None THEN outgoing[p] ELSE pending[p]
    <2>1. CASE mailbox[HostOf(p)] # None
      <3>1. pending' = [pending EXCEPT ![p] = waiting] /\ outgoing' = outgoing /\ outgoing[p] # None
        BY <1>5, <2>1 DEF PollSendRemote
      <3>2. \A q \in Port : pending'[q] = IF q = p THEN waiting ELSE pending[q]
        BY <3>1 DEF TypeOK
      <3>3. QED
        BY <3>1, <3>2 DEF SendInv
    <2>2. CASE mailbox[HostOf(p)] = None
      <3>1. pending' = [pending EXCEPT ![p] = None] /\ outgoing' = [outgoing EXCEPT ![p] = None]
        BY <1>5, <2>2 DEF PollSendRemote
      <3>2. \A q \in Port : /\ pending'[q] = IF q = p THEN None ELSE pending[q]
                            /\ outgoing'[q] = IF q = p THEN None ELSE outgoing[q]
        BY <3>1 DEF TypeOK
      <3>3. QED
        BY <3>2 DEF SendInv
    <2>3. QED
      BY <2>1, <2>2
  <1>6. ASSUME NEW p \in Port, CancelSend(p) PROVE SendInv'
    <2>1. \A q \in Port : /\ pending'[q] = IF q = p THEN None ELSE pending[q]
                          /\ outgoing'[q] = IF q = p THEN None ELSE outgoing[q]
      BY <1>6 DEF CancelSend, TypeOK
    <2>2. QED
      BY <2>1 DEF SendInv
  <1>7. ASSUME UNCHANGED <<outgoing, pending>> PROVE SendInv'
    BY <1>7 DEF SendInv
  <1>8. QED
    BY <1>3, <1>4, <1>5, <1>6, <1>7
    DEF Next, vars, PollRecvRequeued, PollRecvStash, PollRecvLoop, Requeue, TakeFrame, TakeNone, DeadlineExpired

\* Staging appends to what the port has seen, and touches no other port.
LEMMA StageEffect ==
  ASSUME TypeOK, NEW p \in Port, NEW f \in Frame, Stage(p, f)
  PROVE  /\ rx'[p].frame = f /\ rx'[p].delivered /\ rx'[p].requeued = rx[p].requeued
         /\ seen'[p] = Append(seen[p], f.id)
         /\ \A q \in Port : q # p => rx'[q] = rx[q] /\ seen'[q] = seen[q]
  BY DEF Stage, TypeOK

\* A sequence with one more element.
LEMMA AppendFacts ==
  ASSUME NEW s \in Seq(Nat), NEW e \in Nat
  PROVE  /\ Len(Append(s, e)) = Len(s) + 1 /\ Len(s) \in Nat
         /\ Append(s, e)[Len(s) + 1] = e
         /\ \A n \in 1..Len(s) : Append(s, e)[n] = s[n]
         /\ \A n \in 1..(Len(s) + 1) : n \in 1..Len(s) \/ n = Len(s) + 1
  OBVIOUS

\* A sequence without its last element.
LEMMA FrontFacts ==
  ASSUME NEW s \in Seq(Nat), Len(s) > 0
  PROVE  /\ Len(SubSeq(s, 1, Len(s) - 1)) = Len(s) - 1 /\ Len(s) \in Nat
         /\ \A n \in 1..(Len(s) - 1) : SubSeq(s, 1, Len(s) - 1)[n] = s[n] /\ n \in 1..Len(s)
  <1>1. Len(s) \in Nat /\ Len(s) - 1 \in Nat
    OBVIOUS
  <1>2. PICK k \in Nat : k = Len(s) - 1
    BY <1>1
  <1>3. Len(SubSeq(s, 1, k)) = k /\ \A n \in 1..k : SubSeq(s, 1, k)[n] = s[n]
    <2>1. \A i \in 1..k : s[i] \in Nat
      BY <1>1, <1>2
    <2>2. 1 \in Int /\ k \in Int /\ k - 1 + 1 = k /\ (1 <= k \/ k = 0)
      OBVIOUS
    <2>3. /\ Len(SubSeq(s, 1, k)) = IF 1 <= k THEN k - 1 + 1 ELSE 0
          /\ \A i \in 1..(k - 1 + 1) : SubSeq(s, 1, k)[i] = s[1 + i - 1]
      BY <2>1, <2>2, SubSeqProperties
    <2>4. QED
      BY <2>2, <2>3
  <1>4. QED
    BY <1>1, <1>2, <1>3

\* The staged frame is dropped.
LEMMA ClearEffect ==
  ASSUME TypeOK, NEW p \in Port, rx' = [rx EXCEPT ![p] = Cleared(p)]
  PROVE  /\ rx'[p].frame = None /\ rx'[p].requeued = rx[p].requeued
         /\ \A q \in Port : q # p => rx'[q] = rx[q]
  BY DEF TypeOK, Cleared, RxState

\* A frame that was given back is delivered again.
LEMMA RequeuedEffect ==
  ASSUME TypeOK, NEW p \in Port, PollRecvRequeued(p)
  PROVE  /\ rx[p].frame \in Frame
         /\ rx'[p].frame = rx[p].frame /\ rx'[p].delivered /\ ~rx'[p].requeued
         /\ seen'[p] = Append(seen[p], rx[p].frame.id)
         /\ \A q \in Port : q # p => rx'[q] = rx[q] /\ seen'[q] = seen[q]
  <1>1. rx[p] \in RxState /\ rx[p].frame \in Frame
    BY DEF PollRecvRequeued, TypeOK, RxState
  <1>2. rx'[p].frame = rx[p].frame /\ rx'[p].delivered /\ ~rx'[p].requeued
    BY DEF PollRecvRequeued, TypeOK, RxState
  <1>3. QED
    BY <1>1, <1>2 DEF PollRecvRequeued, TypeOK

\* requeue takes a delivered frame back from what was seen.
LEMMA RequeueEffect ==
  ASSUME TypeOK, NEW p \in Port, Requeue(p)
  PROVE  /\ rx[p].frame \in Frame
         /\ rx'[p].frame = rx[p].frame /\ ~rx'[p].delivered /\ rx'[p].requeued
         /\ seen'[p] = IF rx[p].delivered THEN SubSeq(seen[p], 1, Len(seen[p]) - 1) ELSE seen[p]
         /\ \A q \in Port : q # p => rx'[q] = rx[q] /\ seen'[q] = seen[q]
  <1>1. rx[p] \in RxState /\ rx[p].frame \in Frame
    BY DEF Requeue, TypeOK, RxState
  <1>2. rx'[p].frame = rx[p].frame /\ ~rx'[p].delivered /\ rx'[p].requeued
    BY DEF Requeue, TypeOK, RxState
  <1>3. QED
    BY <1>1, <1>2 DEF Requeue, TypeOK

\* A send on one core relabels the lane only where roles share a core and have
\* several lanes.
LEMMA RelabelHarmless ==
  ASSUME TypeOK, OfferedInv, AttachInv, NEW p \in Port, NEW f \in Frame, OwnFrame(p, f),
         AttachedOn(f.to, HostOf(p)),
         NEW g, g = [f EXCEPT !.lane = roleLane[f.to][HostOf(p)]]
  PROVE  /\ g \in Frame /\ g.id = f.id /\ g.from = f.from /\ g.to = f.to
         /\ LanesKept => g = f
         /\ Addressed(g)
  <1> DEFINE l == roleLane[f.to][HostOf(p)]
  <1>1. f.to \in Role /\ HostOf(p) \in Core /\ HostOf(p) = CoreOf[f.from] /\ f.from \in Role
    BY PortFacts, FrameFacts DEF OwnFrame
  <1>2. l \in Nat
    BY <1>1 DEF TypeOK
  <1>3. g \in Frame /\ g.id = f.id /\ g.from = f.from /\ g.to = f.to /\ g.lane = l
    BY <1>2, Relabelled
  <1>4. f.from # f.to /\ <<f.to, f.lane>> \in Port
    BY DEF OfferedInv, OwnFrame, Original
  <1>5. CoreOf[f.to] = HostOf(p) /\ <<f.to, l>> \in Port
    BY <1>1 DEF AttachInv
  <1>6. LanesKept => l = f.lane
    <2>1. ~OneRolePerCore
      BY <1>1, <1>4, <1>5 DEF OneRolePerCore
    <2>2. QED
      BY <1>4, <1>5, <2>1 DEF LanesKept, RoleOf
  <1>7. l = f.lane => g = f
    BY <1>3 DEF Frame
  <1>8. Addressed(g)
    BY <1>3, <1>6, <1>7 DEF Addressed, OwnFrame, Original
  <1>9. QED
    BY <1>3, <1>6, <1>7, <1>8

\* What the carrier holds was sent.
LEMMA HeldStep ==
  ASSUME TypeOK, TypeOK', OfferedInv, AttachInv, SendInv, HeldInv, [Next]_vars PROVE HeldInv'
  <1>1. site' = site /\ Port' = Port /\ Role' = Role /\ CoreOf' = CoreOf
    BY OfferedGrows, SameSite
  <1>2. \A f : (Original(f) => Original(f)') /\ (Addressed(f) => Addressed(f)')
    BY StaysSent
  <1>3. \A i \in 1..Len(offered) : i \in 1..Len(offered')
    BY OfferedGrows
  <1>4. \A f : Original(f) => Addressed(f) /\ f.id \in 1..Len(offered)
    BY DEF Original, Addressed
  <1>5. \A f : Addressed(f) => f.id \in 1..Len(offered)
    BY DEF Addressed
  <1> DEFINE MailboxPart == \A c \in Core : mailbox[c] # None =>
                              Original(mailbox[c]) /\ CoreOf[mailbox[c].from] = c
             StashPart == \A c \in Core, r \in Role : stash[c][r] # None =>
                            Addressed(stash[c][r]) /\ stash[c][r].to = r
             RxPart == \A p \in Port : rx[p].frame # None => Addressed(rx[p].frame)
             SeenPart == \A p \in Port : \A n \in 1..Len(seen[p]) : seen[p][n] \in 1..Len(offered)
  <1>6. UNCHANGED mailbox => MailboxPart'
    BY <1>1, <1>2 DEF HeldInv
  <1>7. UNCHANGED stash => StashPart'
    BY <1>1, <1>2 DEF HeldInv
  <1>8. UNCHANGED rx => RxPart'
    BY <1>1, <1>2 DEF HeldInv
  <1>9. UNCHANGED seen => SeenPart'
    BY <1>1, <1>3 DEF HeldInv
  <1>10. ASSUME NEW p \in Port, NEW f \in Frame, Stage(p, f), Addressed(f) PROVE RxPart' /\ SeenPart'
    <2>1. /\ rx'[p].frame = f /\ seen'[p] = Append(seen[p], f.id)
          /\ \A q \in Port : q # p => rx'[q] = rx[q] /\ seen'[q] = seen[q]
      BY <1>10, StageEffect
    <2>2. RxPart'
      BY <1>1, <1>2, <1>10, <2>1 DEF HeldInv
    <2>3. f.id \in 1..Len(offered) /\ f.id \in Nat /\ seen[p] \in Seq(Nat)
      BY <1>5, <1>10, FrameFacts DEF TypeOK
    <2>4. \A n \in 1..Len(seen'[p]) : seen'[p][n] \in 1..Len(offered)
      BY <2>1, <2>3, AppendFacts DEF HeldInv
    <2>5. SeenPart'
      BY <1>1, <1>3, <2>1, <2>4 DEF HeldInv
    <2>6. QED
      BY <2>2, <2>5
  <1>11. ASSUME NEW p \in Port, rx' = [rx EXCEPT ![p] = Cleared(p)] PROVE RxPart'
    BY ZenonT(60), <1>1, <1>2, <1>11, ClearEffect DEF HeldInv
  <1>12. ASSUME NEW p \in Port, PollSendLocal(p) PROVE HeldInv'
    <2> DEFINE c == HostOf(p)
    <2>1. outgoing[p] \in Frame /\ OwnFrame(p, outgoing[p]) /\ outgoing[p].to \in Role /\ c \in Core
      BY <1>12, PortFacts, FrameFacts DEF PollSendLocal, TypeOK, SendInv
    <2>2. PICK g : g = [outgoing[p] EXCEPT !.lane = roleLane[outgoing[p].to][c]]
      OBVIOUS
    <2>3. g \in Frame /\ g.to = outgoing[p].to /\ Addressed(g)
      BY <1>12, <2>1, <2>2, RelabelHarmless DEF PollSendLocal
    <2>4. CASE stash' = [stash EXCEPT ![c][outgoing[p].to] = g]
      <3>1. /\ stash'[c][outgoing[p].to] = g
            /\ \A d \in Core, q \in Role :
                 ~(d = c /\ q = outgoing[p].to) => stash'[d][q] = stash[d][q]
        BY <2>1, <2>3, <2>4, StashWrite
      <3>2. StashPart'
        BY <1>1, <1>2, <2>3, <3>1 DEF HeldInv
      <3>3. QED
        BY <1>6, <1>8, <1>9, <1>12, <3>2 DEF HeldInv, PollSendLocal
    <2>5. CASE UNCHANGED stash
      BY <1>6, <1>7, <1>8, <1>9, <1>12, <2>5 DEF HeldInv, PollSendLocal
    <2>6. QED
      BY <1>12, <2>2, <2>4, <2>5 DEF PollSendLocal
  <1>13. ASSUME NEW p \in Port, PollSendRemote(p) PROVE HeldInv'
    <2>1. PICK waiting : waiting = IF pending[p] = None THEN outgoing[p] ELSE pending[p]
      OBVIOUS
    <2>2. OwnFrame(p, waiting) /\ CoreOf[waiting.from] = HostOf(p)
      BY <1>13, <2>1, PortFacts DEF PollSendRemote, SendInv, OwnFrame
    <2>3. CASE mailbox' = [mailbox EXCEPT ![HostOf(p)] = waiting]
      <3>1. \A c \in Core : mailbox'[c] = IF c = HostOf(p) THEN waiting ELSE mailbox[c]
        BY <2>3 DEF TypeOK
      <3>2. MailboxPart'
        BY <1>1, <1>2, <2>2, <3>1 DEF HeldInv, OwnFrame
      <3>3. QED
        BY <1>7, <1>8, <1>9, <1>13, <3>2 DEF HeldInv, PollSendRemote
    <2>4. CASE UNCHANGED mailbox
      BY <1>6, <1>7, <1>8, <1>9, <1>13, <2>4 DEF HeldInv, PollSendRemote
    <2>5. QED
      BY <1>13, <2>1, <2>3, <2>4 DEF PollSendRemote
  <1>14. ASSUME NEW p \in Port, PollRecvRequeued(p) PROVE HeldInv'
    <2>1. /\ rx[p].frame \in Frame /\ rx'[p].frame = rx[p].frame
          /\ seen'[p] = Append(seen[p], rx[p].frame.id)
          /\ \A q \in Port : q # p => rx'[q] = rx[q] /\ seen'[q] = seen[q]
      BY <1>14, RequeuedEffect
    <2>2. RxPart'
      BY <1>1, <1>2, <2>1 DEF HeldInv
    <2>3. rx[p].frame.id \in 1..Len(offered) /\ rx[p].frame.id \in Nat /\ seen[p] \in Seq(Nat)
      BY <1>5, <2>1, FrameFacts DEF TypeOK, HeldInv
    <2>4. \A n \in 1..Len(seen'[p]) : seen'[p][n] \in 1..Len(offered)
      BY <2>1, <2>3, AppendFacts DEF HeldInv
    <2>5. SeenPart'
      BY <1>1, <1>3, <2>1, <2>4 DEF HeldInv
    <2>6. QED
      BY <1>6, <1>7, <1>14, <2>2, <2>5 DEF HeldInv, PollRecvRequeued
  <1>15. ASSUME NEW p \in Port, PollRecvStash(p) PROVE HeldInv'
    <2> DEFINE c == HostOf(p)
               f == stash[c][RoleOf(p)]
    <2>1. f \in Frame /\ c \in Core /\ RoleOf(p) \in Role /\ Addressed(f)
      <3>1. f # None
        BY <1>15 DEF PollRecvStash
      <3>2. c \in Core /\ RoleOf(p) \in Role
        BY PortFacts
      <3>3. f \in Frame
        BY <3>1, <3>2 DEF TypeOK
      <3>4. QED
        BY <3>1, <3>2, <3>3 DEF HeldInv
    <2>2. CASE FrameTargetsRxLane(f, p)
      <3>1. stash' = [stash EXCEPT ![c][RoleOf(p)] = None] /\ Stage(p, f)
        BY <1>15, <2>2 DEF PollRecvStash
      <3>2. /\ stash'[c][RoleOf(p)] = None
            /\ \A d \in Core, q \in Role : ~(d = c /\ q = RoleOf(p)) => stash'[d][q] = stash[d][q]
        BY <2>1, <3>1, StashWrite
      <3>3. StashPart'
        BY <1>1, <1>2, <3>2 DEF HeldInv
      <3>4. RxPart' /\ SeenPart'
        BY <1>10, <2>1, <3>1
      <3>5. QED
        BY <1>6, <1>15, <3>3, <3>4 DEF HeldInv, PollRecvStash
    <2>3. CASE ~FrameTargetsRxLane(f, p)
      BY <1>6, <1>7, <1>9, <1>11, <1>15, <2>3 DEF HeldInv, PollRecvStash
    <2>4. QED
      BY <2>2, <2>3
  <1>16. ASSUME NEW p \in Port, PollRecvLoop(p) PROVE HeldInv'
    BY <1>6, <1>7, <1>9, <1>11, <1>16 DEF HeldInv, PollRecvLoop, hist
  <1>17. ASSUME NEW p \in Port, Requeue(p) PROVE HeldInv'
    <2>1. /\ rx[p].frame \in Frame /\ rx'[p].frame = rx[p].frame
          /\ seen'[p] = IF rx[p].delivered THEN SubSeq(seen[p], 1, Len(seen[p]) - 1) ELSE seen[p]
          /\ \A q \in Port : q # p => rx'[q] = rx[q] /\ seen'[q] = seen[q]
      BY <1>17, RequeueEffect
    <2>2. RxPart'
      BY <1>1, <1>2, <2>1 DEF HeldInv
    <2>3. \A n \in 1..Len(seen'[p]) : seen'[p][n] \in 1..Len(offered)
      <3>1. seen[p] \in Seq(Nat)
        BY DEF TypeOK
      <3>2. CASE Len(seen[p]) > 0
        BY <2>1, <3>1, <3>2, FrontFacts DEF HeldInv
      <3>3. CASE ~(Len(seen[p]) > 0)
        BY <2>1, <3>1, <3>3
      <3>4. QED
        BY <3>2, <3>3
    <2>4. SeenPart'
      BY <1>1, <1>3, <2>1, <2>3 DEF HeldInv
    <2>5. QED
      BY <1>6, <1>7, <1>17, <2>2, <2>4 DEF HeldInv, Requeue
  <1>18. ASSUME NEW c \in Core, TakeFrame(c) PROVE HeldInv'
    <2>1. PICK p, f : p = busy[c] /\ f = mailbox[Peer(c)]
      OBVIOUS
    <2>2. p \in Port /\ f \in Frame /\ f.to \in Role /\ Original(f)
      BY <1>18, <2>1, PeerFacts, FrameFacts DEF TakeFrame, TypeOK, HeldInv
    <2>3. mailbox' = [mailbox EXCEPT ![Peer(c)] = None]
      BY <1>18 DEF TakeFrame
    <2>4. MailboxPart'
      BY <1>1, <1>2, <2>3 DEF HeldInv, TypeOK
    <2>5. CASE Stage(p, f) /\ UNCHANGED stash
      BY <1>4, <1>7, <1>10, <2>2, <2>4, <2>5 DEF HeldInv
    <2>6. CASE stash' = [stash EXCEPT ![c][f.to] = f] /\ UNCHANGED <<rx, seen>>
      <3>1. /\ stash'[c][f.to] = f
            /\ \A d \in Core, q \in Role : ~(d = c /\ q = f.to) => stash'[d][q] = stash[d][q]
        BY <2>2, <2>6, StashWrite
      <3>2. StashPart'
        BY <1>1, <1>2, <1>4, <2>2, <3>1 DEF HeldInv
      <3>3. QED
        BY <1>8, <1>9, <2>4, <2>6, <3>2 DEF HeldInv
    <2>7. CASE UNCHANGED <<stash, rx, seen>>
      BY <1>7, <1>8, <1>9, <2>4, <2>7 DEF HeldInv
    <2>8. QED
      BY <1>18, <2>1, <2>5, <2>6, <2>7 DEF TakeFrame
  <1>19. ASSUME UNCHANGED <<stash, mailbox, rx, seen>> PROVE HeldInv'
    BY <1>6, <1>7, <1>8, <1>9, <1>19 DEF HeldInv
  <1>20. QED
    BY <1>12, <1>13, <1>14, <1>15, <1>16, <1>17, <1>18, <1>19
    DEF Next, vars, hist, BeginSend, CancelSend, TakeNone, DeadlineExpired

\* requeued marks a frame that was given back, and the last frame seen is the
\* one that is delivered.
LEMMA RxStep ==
  ASSUME TypeOK, HeldInv, RxInv, BusyInv, [Next]_vars PROVE RxInv'
  <1>1. Port' = Port
    BY OfferedGrows, SameSite
  <1> DEFINE Good(p) ==
        /\ rx[p].requeued => rx[p].frame # None /\ ~rx[p].delivered
        /\ rx[p].frame # None /\ rx[p].delivered =>
             Len(seen[p]) > 0 /\ seen[p][Len(seen[p])] = rx[p].frame.id
  <1>2. \A p \in Port : rx'[p] = rx[p] /\ seen'[p] = seen[p] => Good(p)'
    BY DEF RxInv
  <1>3. \A p \in Port : Fresh(p) => ~rx[p].requeued
    BY DEF RxInv, Fresh
  <1>4. ASSUME NEW p \in Port, NEW f \in Frame, Stage(p, f), ~rx[p].requeued PROVE RxInv'
    <2>1. /\ rx'[p].frame = f /\ rx'[p].delivered /\ rx'[p].requeued = rx[p].requeued
          /\ seen'[p] = Append(seen[p], f.id)
          /\ \A q \in Port : q # p => rx'[q] = rx[q] /\ seen'[q] = seen[q]
      BY <1>4, StageEffect
    <2>2. f.id \in Nat /\ seen[p] \in Seq(Nat)
      BY FrameFacts DEF TypeOK
    <2>3. Len(seen'[p]) > 0 /\ seen'[p][Len(seen'[p])] = f.id
      BY <2>1, <2>2, AppendFacts
    <2>4. Good(p)'
      BY <1>4, <2>1, <2>3
    <2>5. QED
      BY <1>1, <1>2, <2>1, <2>4 DEF RxInv
  <1>5. ASSUME NEW p \in Port, rx' = [rx EXCEPT ![p] = Cleared(p)], seen' = seen, Fresh(p) PROVE RxInv'
    <2>1. /\ rx'[p].frame = None /\ rx'[p].requeued = rx[p].requeued
          /\ \A q \in Port : q # p => rx'[q] = rx[q]
      BY <1>5, ClearEffect
    <2>2. Good(p)'
      BY <1>3, <1>5, <2>1
    <2>3. QED
      BY <1>1, <1>2, <1>5, <2>1, <2>2 DEF RxInv
  <1>6. ASSUME NEW p \in Port, PollRecvRequeued(p) PROVE RxInv'
    <2>1. /\ rx[p].frame \in Frame
          /\ rx'[p].frame = rx[p].frame /\ rx'[p].delivered /\ ~rx'[p].requeued
          /\ seen'[p] = Append(seen[p], rx[p].frame.id)
          /\ \A q \in Port : q # p => rx'[q] = rx[q] /\ seen'[q] = seen[q]
      BY <1>6, RequeuedEffect
    <2>2. rx[p].frame.id \in Nat /\ seen[p] \in Seq(Nat)
      BY <2>1, FrameFacts DEF TypeOK
    <2>3. Len(seen'[p]) > 0 /\ seen'[p][Len(seen'[p])] = rx[p].frame.id
      BY <2>1, <2>2, AppendFacts
    <2>4. Good(p)'
      BY <2>1, <2>3
    <2>5. QED
      BY <1>1, <1>2, <2>1, <2>4 DEF RxInv
  <1>7. ASSUME NEW p \in Port, PollRecvStash(p) PROVE RxInv'
    <2>1. Fresh(p) /\ stash[HostOf(p)][RoleOf(p)] \in Frame
      BY <1>7, PortFacts DEF PollRecvStash, TypeOK
    <2>2. QED
      BY <1>3, <1>4, <1>5, <1>7, <2>1 DEF PollRecvStash
  <1>8. ASSUME NEW p \in Port, PollRecvLoop(p) PROVE RxInv'
    BY <1>5, <1>8 DEF PollRecvLoop, hist
  <1>9. ASSUME NEW p \in Port, Requeue(p) PROVE RxInv'
    <2>1. /\ rx[p].frame \in Frame
          /\ rx'[p].frame = rx[p].frame /\ ~rx'[p].delivered /\ rx'[p].requeued
          /\ \A q \in Port : q # p => rx'[q] = rx[q] /\ seen'[q] = seen[q]
      BY <1>9, RequeueEffect
    <2>2. Good(p)'
      BY <2>1, FrameFacts
    <2>3. QED
      BY <1>1, <1>2, <2>1, <2>2 DEF RxInv
  <1>10. ASSUME NEW c \in Core, TakeFrame(c) PROVE RxInv'
    <2>1. PICK p, f : p = busy[c] /\ f = mailbox[Peer(c)]
      OBVIOUS
    <2>2. p \in Port /\ f \in Frame /\ ~rx[p].requeued
      <3>1. p \in Port /\ f \in Frame
        BY <1>10, <2>1, PeerFacts DEF TakeFrame, TypeOK
      <3>2. rx[p].frame = None
        BY <1>10, <2>1 DEF TakeFrame, BusyInv
      <3>3. QED
        BY <3>1, <3>2 DEF RxInv
    <2>3. Stage(p, f) \/ UNCHANGED <<rx, seen>>
      BY <1>10, <2>1 DEF TakeFrame
    <2>4. QED
      BY <1>1, <1>2, <1>4, <2>2, <2>3 DEF RxInv
  <1>11. ASSUME UNCHANGED <<rx, seen>> PROVE RxInv'
    BY <1>1, <1>11 DEF RxInv
  <1>12. QED
    BY <1>6, <1>7, <1>8, <1>9, <1>10, <1>11
    DEF Next, vars, hist, BeginSend, PollSendLocal, PollSendRemote, CancelSend, TakeNone, DeadlineExpired

\* A core in the take loop has neither a staged nor a stashed frame for its port.
LEMMA BusyStep ==
  ASSUME TypeOK, AttachInv, SendInv, BusyInv, [Next]_vars PROVE BusyInv'
  <1>1. site' = site /\ Port' = Port /\ Role' = Role /\ \A p : HostOf(p)' = HostOf(p)
    BY OfferedGrows, SameSite
  <1>2. \A c \in Core : busy[c] # None =>
          busy[c] \in Port /\ HostOf(busy[c]) = c /\ RoleOf(busy[c]) \in Role
    BY PortFacts DEF TypeOK, BusyInv
  <1> DEFINE Good(c) == busy[c] # None =>
        /\ HostOf(busy[c]) = c
        /\ rx[busy[c]].frame = None
        /\ stash[c][RoleOf(busy[c])] # None =>
             ~FrameTargetsRxLane(stash[c][RoleOf(busy[c])], busy[c])
  <1>3. ASSUME NEW c \in Core, busy'[c] \in {None, busy[c]},
               busy[c] # None => rx'[busy[c]].frame = rx[busy[c]].frame,
               busy[c] # None => \A r \in Role : stash'[c][r] = stash[c][r]
        PROVE  Good(c)'
    BY <1>1, <1>2, <1>3 DEF BusyInv, FrameTargetsRxLane
  <1>4. ASSUME NEW p \in Port, PollSendLocal(p) PROVE BusyInv'
    <2>1. outgoing[p].to \in Role /\ HostOf(p) \in Core /\ busy[HostOf(p)] = None
            /\ busy' = busy /\ rx' = rx
      BY <1>4, PortFacts, FrameFacts DEF PollSendLocal, TypeOK, Idle
    <2>2. \A c \in Core : c # HostOf(p) => stash'[c] = stash[c]
      BY <1>4, <2>1 DEF PollSendLocal, TypeOK
    <2>3. \A c \in Core : Good(c)'
      BY <1>3, <2>1, <2>2
    <2>4. QED
      BY <2>3 DEF BusyInv
  <1>5. ASSUME NEW p \in Port, PollRecvRequeued(p) PROVE BusyInv'
    <2>1. \A q \in Port : rx'[q].frame = rx[q].frame
      BY <1>5, RequeuedEffect
    <2>2. \A c \in Core : Good(c)'
      BY <1>2, <1>3, <1>5, <2>1 DEF PollRecvRequeued
    <2>3. QED
      BY <2>2 DEF BusyInv
  <1>6. ASSUME NEW p \in Port, PollRecvStash(p) PROVE BusyInv'
    <2>1. HostOf(p) \in Core /\ busy[HostOf(p)] = None /\ busy' = busy
      BY <1>6, PortFacts DEF PollRecvStash, Idle
    <2>2. \A q \in Port : q # p => rx'[q] = rx[q]
      BY <1>6 DEF PollRecvStash, Stage, TypeOK
    <2>3. \A c \in Core : c # HostOf(p) => stash'[c] = stash[c]
      BY <1>6, <2>1 DEF PollRecvStash, TypeOK
    <2>4. \A c \in Core : Good(c)'
      BY <1>2, <1>3, <2>1, <2>2, <2>3
    <2>5. QED
      BY <2>4 DEF BusyInv
  <1>7. ASSUME NEW p \in Port, PollRecvLoop(p) PROVE BusyInv'
    <2>1. HostOf(p) \in Core /\ busy[HostOf(p)] = None /\ stash' = stash
            /\ stash[HostOf(p)][RoleOf(p)] = None
      BY <1>7, PortFacts DEF PollRecvLoop, Idle
    <2>2. \A c \in Core : busy'[c] = IF c = HostOf(p) THEN p ELSE busy[c]
      BY <1>7 DEF PollRecvLoop, TypeOK
    <2>3. rx'[p].frame = None /\ \A q \in Port : q # p => rx'[q] = rx[q]
      BY <1>7, ClearEffect DEF PollRecvLoop
    <2>4. \A c \in Core : c = HostOf(p) => Good(c)'
      BY <1>1, <2>1, <2>2, <2>3
    <2>5. \A c \in Core : c # HostOf(p) => Good(c)'
      BY <1>2, <1>3, <2>1, <2>2, <2>3
    <2>6. QED
      BY <2>4, <2>5 DEF BusyInv
  <1>8. ASSUME NEW p \in Port, Requeue(p) PROVE BusyInv'
    <2>1. \A q \in Port : rx'[q].frame = rx[q].frame
      BY <1>8, RequeueEffect
    <2>2. \A c \in Core : Good(c)'
      BY <1>2, <1>3, <1>8, <2>1 DEF Requeue
    <2>3. QED
      BY <2>2 DEF BusyInv
  <1>9. ASSUME NEW c \in Core, TakeFrame(c) PROVE BusyInv'
    <2>1. PICK p, f : p = busy[c] /\ f = mailbox[Peer(c)]
      OBVIOUS
    <2>2. p \in Port /\ f \in Frame /\ f.to \in Role /\ HostOf(p) = c /\ RoleOf(p) \in Role
      BY <1>2, <1>9, <2>1, PeerFacts, FrameFacts DEF TakeFrame, TypeOK
    <2>3. \A d \in Core : d # c => busy'[d] = busy[d] /\ stash'[d] = stash[d]
      BY <1>9, <2>1 DEF TakeFrame, TypeOK
    <2>4. \A q \in Port : q # p => rx'[q] = rx[q]
      BY <1>9, <2>1 DEF TakeFrame, Stage, TypeOK
    <2>5. \A d \in Core : d # c => Good(d)'
      BY <1>2, <1>3, <2>2, <2>3, <2>4
    <2>6. Good(c)'
      <3>1. CASE f.to = RoleOf(p) /\ FrameTargetsRxLane(f, p)
        BY <1>9, <2>1, <3>1 DEF TakeFrame, TypeOK
      <3>2. CASE ~(f.to = RoleOf(p) /\ FrameTargetsRxLane(f, p)) /\ stash[c][f.to] = None
        <4>1. stash' = [stash EXCEPT ![c][f.to] = f] /\ rx' = rx /\ busy' = busy
          BY <1>9, <2>1, <3>2 DEF TakeFrame
        <4>2. /\ stash'[c][f.to] = f
              /\ \A d \in Core, q \in Role : ~(d = c /\ q = f.to) => stash'[d][q] = stash[d][q]
          BY <2>2, <4>1, StashWrite
        <4>3. QED
          BY <1>1, <2>1, <2>2, <3>2, <4>1, <4>2 DEF BusyInv, FrameTargetsRxLane
      <3>3. CASE ~(f.to = RoleOf(p) /\ FrameTargetsRxLane(f, p)) /\ stash[c][f.to] # None
        BY <1>9, <2>1, <3>3 DEF TakeFrame, TypeOK
      <3>4. QED
        BY <3>1, <3>2, <3>3
    <2>7. QED
      BY <2>5, <2>6 DEF BusyInv
  <1>10. ASSUME NEW c \in Core, busy' = [busy EXCEPT ![c] = None], UNCHANGED <<rx, stash>> PROVE BusyInv'
    <2>1. \A d \in Core : busy'[d] \in {None, busy[d]}
      BY <1>10 DEF TypeOK
    <2>2. \A d \in Core : Good(d)'
      BY <1>3, <1>10, <2>1
    <2>3. QED
      BY <2>2 DEF BusyInv
  <1>11. ASSUME UNCHANGED <<busy, rx, stash>> PROVE BusyInv'
    <2>1. \A d \in Core : Good(d)'
      BY <1>3, <1>11
    <2>2. QED
      BY <2>1 DEF BusyInv
  <1>12. QED
    BY <1>4, <1>5, <1>6, <1>7, <1>8, <1>9, <1>10, <1>11
    DEF Next, vars, hist, BeginSend, PollSendRemote, CancelSend, TakeNone, DeadlineExpired

\* A send is accepted once, and a core that failed stays out of the take loop.
LEMMA UnderwayStep ==
  ASSUME TypeOK, OfferedInv, SendInv, UnderwayInv, [Next]_vars PROVE UnderwayInv'
  <1>1. Port' = Port
    BY OfferedGrows, SameSite
  <1> DEFINE Sending == \A p \in Port : outgoing[p] # None => outgoing[p].id \notin accepted
             Looping == \A c \in Core : busy[c] # None => fault[c] = "none"
  <1>2. UNCHANGED <<outgoing, accepted>> => Sending'
    BY <1>1 DEF UnderwayInv
  <1>3. UNCHANGED <<busy, fault>> => Looping'
    BY DEF UnderwayInv
  <1>4. ASSUME NEW p \in Port, outgoing[p] # None, outgoing' = [outgoing EXCEPT ![p] = None],
               accepted' \subseteq accepted \cup {outgoing[p].id}
        PROVE  Sending'
    <2>1. \A q \in Port : outgoing'[q] = IF q = p THEN None ELSE outgoing[q]
      BY <1>4 DEF TypeOK
    <2>2. ASSUME NEW q \in Port, q # p, outgoing[q] # None PROVE outgoing[q].id # outgoing[p].id
      <3>1. OwnFrame(q, outgoing[q]) /\ OwnFrame(p, outgoing[p])
        BY <1>4, <2>2 DEF SendInv
      <3>2. p = <<RoleOf(p), LaneOf(p)>> /\ q = <<RoleOf(q), LaneOf(q)>>
        BY PortFacts
      <3>3. QED
        BY <2>2, <3>1, <3>2 DEF OwnFrame, Original
    <2>3. QED
      BY <1>1, <1>4, <2>1, <2>2 DEF UnderwayInv
  <1>5. ASSUME NEW p \in Port, NEW to \in Role, BeginSend(p, to) PROVE UnderwayInv'
    <2>1. PICK f : f = [id |-> Len(offered) + 1, from |-> RoleOf(p), to |-> to, lane |-> LaneOf(p)]
                   /\ outgoing' = [outgoing EXCEPT ![p] = f]
      BY <1>5 DEF BeginSend
    <2>2. \A q \in Port : outgoing'[q] = IF q = p THEN f ELSE outgoing[q]
      BY <2>1 DEF TypeOK
    <2>3. f.id \notin accepted
      BY <2>1 DEF TypeOK
    <2>4. accepted' = accepted /\ UNCHANGED <<busy, fault>>
      BY <1>5 DEF BeginSend
    <2>5. QED
      BY <1>1, <1>3, <2>2, <2>3, <2>4 DEF UnderwayInv
  <1>6. ASSUME NEW p \in Port, PollSendLocal(p) PROVE UnderwayInv'
    <2>1. Sending'
      BY <1>4, <1>6 DEF PollSendLocal
    <2>2. HostOf(p) \in Core /\ busy[HostOf(p)] = None
      BY <1>6, PortFacts DEF PollSendLocal, Idle
    <2>3. busy' = busy /\ \A c \in Core : c # HostOf(p) => fault'[c] = fault[c]
      BY <1>6 DEF PollSendLocal, Fail, TypeOK
    <2>4. QED
      BY <2>1, <2>2, <2>3 DEF UnderwayInv
  <1>7. ASSUME NEW p \in Port, PollSendRemote(p) PROVE UnderwayInv'
    BY <1>2, <1>3, <1>4, <1>7 DEF PollSendRemote, UnderwayInv
  <1>8. ASSUME NEW p \in Port, CancelSend(p) PROVE UnderwayInv'
    BY <1>3, <1>4, <1>8 DEF CancelSend, hist, UnderwayInv
  <1>9. ASSUME NEW p \in Port, PollRecvLoop(p) PROVE UnderwayInv'
    <2>1. fault[HostOf(p)] = "none" /\ fault' = fault
            /\ \A c \in Core : c # HostOf(p) => busy'[c] = busy[c]
      BY <1>9 DEF PollRecvLoop, Idle, TypeOK
    <2>2. QED
      BY <1>2, <1>9, <2>1 DEF PollRecvLoop, hist, UnderwayInv
  <1>10. ASSUME NEW c \in Core, UNCHANGED <<outgoing, accepted>>,
                \/ busy' = [busy EXCEPT ![c] = None]
                     /\ \A d \in Core : d # c => fault'[d] = fault[d]
                \/ UNCHANGED <<busy, fault>>
         PROVE  UnderwayInv'
    <2>1. Looping'
      BY <1>3, <1>10 DEF UnderwayInv, TypeOK
    <2>2. QED
      BY <1>2, <1>10, <2>1 DEF UnderwayInv
  <1>11. ASSUME NEW c \in Core, TakeFrame(c) PROVE UnderwayInv'
    BY <1>10, <1>11 DEF TakeFrame, Fail, TypeOK
  <1>12. ASSUME NEW c \in Core, TakeNone(c) \/ DeadlineExpired(c) PROVE UnderwayInv'
    BY <1>10, <1>12 DEF TakeNone, DeadlineExpired, Fail, hist, TypeOK
  <1>13. ASSUME UNCHANGED <<outgoing, accepted, busy, fault>> PROVE UnderwayInv'
    BY <1>2, <1>3, <1>13 DEF UnderwayInv
  <1>14. QED
    BY <1>5, <1>6, <1>7, <1>8, <1>9, <1>11, <1>12, <1>13
    DEF Next, vars, hist, PollRecvRequeued, PollRecvStash, Requeue

\* A frame is staged at a port of its role, on its lane; with one role on each
\* core it is stashed where that role runs.
LEMMA AddresseeStep ==
  ASSUME TypeOK, OfferedInv, AttachInv, HeldInv, HeldInv', BusyInv, RightAddressee, NoStrandedFrame,
         [Next]_vars
  PROVE  RightAddressee' /\ NoStrandedFrame'
  <1>1. /\ site' = site /\ Port' = Port /\ Role' = Role /\ CoreOf' = CoreOf
        /\ OneRolePerCore' = OneRolePerCore
    BY OfferedGrows, SameSite
  <1> DEFINE Here(p) == rx[p].frame # None =>
                          rx[p].frame.to = RoleOf(p) /\ rx[p].frame.lane = LaneOf(p)
  <1>2. (\A p \in Port : Here(p)') => RightAddressee'
    BY <1>1 DEF RightAddressee, HeldInv, Addressed
  <1>3. \A p \in Port : rx'[p].frame \in {None, rx[p].frame} => Here(p)'
    BY DEF RightAddressee
  <1>4. UNCHANGED stash => NoStrandedFrame'
    BY <1>1 DEF NoStrandedFrame
  <1>5. ASSUME NEW p \in Port, NEW f \in Frame, Stage(p, f), f.to = RoleOf(p), FrameTargetsRxLane(f, p)
        PROVE  RightAddressee'
    <2>1. rx'[p].frame = f /\ \A q \in Port : q # p => rx'[q] = rx[q]
      BY <1>5, StageEffect
    <2>2. QED
      BY <1>2, <1>3, <1>5, <2>1 DEF FrameTargetsRxLane
  <1>6. ASSUME NEW p \in Port, rx' = [rx EXCEPT ![p] = Cleared(p)] PROVE RightAddressee'
    BY <1>2, <1>3, <1>6, ClearEffect
  <1>7. UNCHANGED rx => RightAddressee'
    BY <1>2, <1>3
  <1>8. ASSUME NEW c \in Core, NEW r \in Role, NEW f \in Frame \cup {None},
               stash' = [stash EXCEPT ![c][r] = f], f # None /\ OneRolePerCore => CoreOf[r] = c
        PROVE  NoStrandedFrame'
    <2>1. stash'[c][r] = f
            /\ \A d \in Core, q \in Role : ~(d = c /\ q = r) => stash'[d][q] = stash[d][q]
      BY <1>8, StashWrite
    <2>2. QED
      BY <1>1, <1>8, <2>1 DEF NoStrandedFrame
  <1>9. ASSUME NEW p \in Port, PollSendLocal(p) PROVE RightAddressee' /\ NoStrandedFrame'
    <2>1. PICK f, g : f = outgoing[p] /\ g = [f EXCEPT !.lane = roleLane[f.to][HostOf(p)]]
      OBVIOUS
    <2>2. f \in Frame /\ f.to \in Role /\ HostOf(p) \in Core
      BY <1>9, <2>1, PortFacts, FrameFacts DEF PollSendLocal, TypeOK
    <2>3. roleLane[f.to][HostOf(p)] \in Nat
      BY <2>2 DEF TypeOK
    <2>4. g \in Frame
      BY <2>1, <2>2, <2>3, Relabelled
    <2>5. CoreOf[f.to] = HostOf(p)
      BY <1>9, <2>1, <2>2 DEF PollSendLocal, AttachInv
    <2>6. rx' = rx /\ (UNCHANGED stash \/ stash' = [stash EXCEPT ![HostOf(p)][f.to] = g])
      BY <1>9, <2>1 DEF PollSendLocal
    <2>7. QED
      BY <1>4, <1>7, <1>8, <2>2, <2>4, <2>5, <2>6
  <1>10. ASSUME NEW p \in Port, PollRecvStash(p) PROVE RightAddressee' /\ NoStrandedFrame'
    <2>1. PICK f : f = stash[HostOf(p)][RoleOf(p)]
      OBVIOUS
    <2>2. f \in Frame /\ f.to = RoleOf(p) /\ HostOf(p) \in Core /\ RoleOf(p) \in Role
      BY <1>10, <2>1, PortFacts DEF PollRecvStash, TypeOK, HeldInv
    <2>3. CASE FrameTargetsRxLane(f, p)
      <3>1. stash' = [stash EXCEPT ![HostOf(p)][RoleOf(p)] = None] /\ Stage(p, f)
        BY <1>10, <2>1, <2>3 DEF PollRecvStash
      <3>2. QED
        BY <1>5, <1>8, <2>2, <2>3, <3>1
    <2>4. CASE ~FrameTargetsRxLane(f, p)
      BY <1>4, <1>6, <1>10, <2>1, <2>4 DEF PollRecvStash
    <2>5. QED
      BY <2>3, <2>4
  <1>11. ASSUME NEW p \in Port, PollRecvLoop(p) PROVE RightAddressee' /\ NoStrandedFrame'
    BY <1>4, <1>6, <1>11 DEF PollRecvLoop
  <1>12. ASSUME NEW p \in Port, PollRecvRequeued(p) PROVE RightAddressee' /\ NoStrandedFrame'
    <2>1. \A q \in Port : rx'[q].frame = rx[q].frame
      BY <1>12, RequeuedEffect
    <2>2. QED
      BY <1>2, <1>3, <1>4, <1>12, <2>1 DEF PollRecvRequeued
  <1>13. ASSUME NEW p \in Port, Requeue(p) PROVE RightAddressee' /\ NoStrandedFrame'
    <2>1. \A q \in Port : rx'[q].frame = rx[q].frame
      BY <1>13, RequeueEffect
    <2>2. QED
      BY <1>2, <1>3, <1>4, <1>13, <2>1 DEF Requeue
  <1>14. ASSUME NEW c \in Core, TakeFrame(c) PROVE RightAddressee' /\ NoStrandedFrame'
    <2>1. PICK p, f : p = busy[c] /\ f = mailbox[Peer(c)]
      OBVIOUS
    <2>2. p \in Port /\ f \in Frame /\ Original(f) /\ CoreOf[f.from] = Peer(c)
      BY <1>14, <2>1, PeerFacts DEF TakeFrame, TypeOK, HeldInv
    <2>3. f.to \in Role /\ f.from \in Role /\ CoreOf[f.to] \in Core /\ f.from # f.to
      BY <2>2, FrameFacts DEF OfferedInv, Original
    <2>4. OneRolePerCore => CoreOf[f.to] = c
      BY <2>2, <2>3, PeerFacts DEF OneRolePerCore
    <2>5. \/ Stage(p, f) /\ f.to = RoleOf(p) /\ FrameTargetsRxLane(f, p) /\ UNCHANGED stash
          \/ stash' = [stash EXCEPT ![c][f.to] = f] /\ UNCHANGED rx
          \/ UNCHANGED <<stash, rx>>
      BY <1>14, <2>1 DEF TakeFrame
    <2>6. QED
      BY <1>4, <1>5, <1>7, <1>8, <2>2, <2>3, <2>4, <2>5
  <1>15. ASSUME UNCHANGED <<rx, stash>> PROVE RightAddressee' /\ NoStrandedFrame'
    BY <1>4, <1>7, <1>15
  <1>16. QED
    BY <1>9, <1>10, <1>11, <1>12, <1>13, <1>14, <1>15
    DEF Next, vars, hist, BeginSend, PollSendRemote, CancelSend, TakeNone, DeadlineExpired

\* The frames on the way to a port depend on the places they are in.
LEMMA PlacesKept ==
  ASSUME TypeOK, HeldInv, [Next]_vars, NEW p \in Port, NEW r \in Role
  PROVE  /\ seen'[p] = seen[p] => SeenFrom(p, r)' = SeenFrom(p, r)
         /\ rx'[p] = rx[p] => GivenBack(p, r)' = GivenBack(p, r)
         /\ rx'[p].frame = None \/ rx'[p].delivered => GivenBack(p, r)' = {}
         /\ stash'[HostOf(p)][RoleOf(p)] = stash[HostOf(p)][RoleOf(p)] =>
              Stashed(p, r)' = Stashed(p, r)
         /\ stash'[HostOf(p)][RoleOf(p)] = None => Stashed(p, r)' = {}
         /\ mailbox'[Peer(HostOf(p))] = mailbox[Peer(HostOf(p))] =>
              InMailbox(p, r)' = InMailbox(p, r)
         /\ mailbox'[Peer(HostOf(p))] = None => InMailbox(p, r)' = {}
         /\ (\A q \in Port : outgoing'[q] \in {None, outgoing[q]}) =>
              Leaving(p, r)' \subseteq Leaving(p, r)
  <1>1. site' = site /\ Port' = Port /\ HostOf(p)' = HostOf(p)
    BY OfferedGrows, SameSite
  <1>2. seen'[p] = seen[p] => SeenFrom(p, r)' = SeenFrom(p, r)
    <2>1. \A n \in 1..Len(seen[p]) : offered'[seen[p][n]] = offered[seen[p][n]]
      BY OfferedGrows DEF HeldInv
    <2>2. QED
      BY <2>1 DEF SeenFrom
  <1>3. /\ rx'[p] = rx[p] => GivenBack(p, r)' = GivenBack(p, r)
        /\ rx'[p].frame = None \/ rx'[p].delivered => GivenBack(p, r)' = {}
    BY DEF GivenBack
  <1>4. /\ stash'[HostOf(p)][RoleOf(p)] = stash[HostOf(p)][RoleOf(p)] =>
             Stashed(p, r)' = Stashed(p, r)
        /\ stash'[HostOf(p)][RoleOf(p)] = None => Stashed(p, r)' = {}
    BY <1>1 DEF Stashed, FrameTargetsRxLane
  <1>5. /\ mailbox'[Peer(HostOf(p))] = mailbox[Peer(HostOf(p))] =>
             InMailbox(p, r)' = InMailbox(p, r)
        /\ mailbox'[Peer(HostOf(p))] = None => InMailbox(p, r)' = {}
    BY <1>1 DEF InMailbox, FrameTargetsRxLane
  <1>6. (\A q \in Port : outgoing'[q] \in {None, outgoing[q]}) =>
          Leaving(p, r)' \subseteq Leaving(p, r)
    BY <1>1 DEF Leaving
  <1>7. QED
    BY <1>2, <1>3, <1>4, <1>5, <1>6

\* What a port has seen after one more frame, and after giving one back.
LEMMA SeenAppend ==
  ASSUME TypeOK, HeldInv, [Next]_vars, NEW p \in Port, NEW r \in Role, NEW f \in Frame, Addressed(f),
         seen'[p] = Append(seen[p], f.id)
  PROVE  SeenFrom(p, r)' \subseteq SeenFrom(p, r) \cup {i \in {f.id} : f.from = r}
  <1>1. f.id \in Nat /\ seen[p] \in Seq(Nat)
    BY FrameFacts DEF TypeOK
  <1>2. offered'[f.id] = offered[f.id] /\ offered[f.id].from = f.from
    BY OfferedGrows DEF Addressed
  <1>3. \A n \in 1..Len(seen[p]) : offered'[seen[p][n]] = offered[seen[p][n]]
    BY OfferedGrows DEF HeldInv
  <1>4. \A n \in 1..Len(seen'[p]) :
          \/ n \in 1..Len(seen[p]) /\ seen'[p][n] = seen[p][n]
          \/ seen'[p][n] = f.id
    BY <1>1, AppendFacts
  <1>5. QED
    BY <1>2, <1>3, <1>4 DEF SeenFrom

\* Frames stay in line for every port and every sending role, wherever they are.
LEMMA OrderStep ==
  ASSUME TypeOK, OfferedInv, AttachInv, SendInv, HeldInv, RxInv, BusyInv, RightAddressee,
         OrderInv, InOrder, [Next]_vars
  PROVE  OrderInv'
  <1>1. /\ site' = site /\ Port' = Port /\ Role' = Role /\ CoreOf' = CoreOf
        /\ LanesKept' = LanesKept /\ \A p : HostOf(p)' = HostOf(p)
    BY OfferedGrows, SameSite
  <1> SUFFICES ASSUME LanesKept, NEW x \in Port, NEW r \in Role
               PROVE  InLine(SeenFrom(x, r), GivenBack(x, r), Stashed(x, r), InMailbox(x, r),
                             Leaving(x, r))'
    BY <1>1 DEF OrderInv
  <1> DEFINE Line == InLine(SeenFrom(x, r), GivenBack(x, r), Stashed(x, r), InMailbox(x, r),
                            Leaving(x, r))
  <1>2. Line
    BY DEF OrderInv
  <1>3. /\ RoleOf(x) \in Role /\ LaneOf(x) \in Nat /\ HostOf(x) \in Core
        /\ HostOf(x) = CoreOf[RoleOf(x)] /\ Peer(HostOf(x)) \in Core /\ Peer(HostOf(x)) # HostOf(x)
    BY PortFacts, PeerFacts
  <1>4. ASSUME SeenFrom(x, r)' \subseteq SeenFrom(x, r), GivenBack(x, r)' \subseteq GivenBack(x, r),
               Stashed(x, r)' \subseteq Stashed(x, r), InMailbox(x, r)' \subseteq InMailbox(x, r),
               Leaving(x, r)' \subseteq Leaving(x, r)
        PROVE  Line'
    BY <1>2, <1>4 DEF InLine
  \* A frame is staged at port p.
  <1>5. ASSUME NEW p \in Port, NEW f \in Frame, Stage(p, f)
        PROVE  /\ x # p => seen'[x] = seen[x] /\ rx'[x] = rx[x]
               /\ x = p /\ Addressed(f) =>
                    /\ SeenFrom(x, r)' \subseteq SeenFrom(x, r) \cup {i \in {f.id} : f.from = r}
                    /\ GivenBack(x, r)' = {}
    BY <1>5, StageEffect, SeenAppend, PlacesKept
  <1>6. ASSUME NEW p \in Port, NEW to \in Role, BeginSend(p, to) PROVE Line'
    <2>0. PICK f :
            /\ f = [id |-> Len(offered) + 1, from |-> RoleOf(p), to |-> to, lane |-> LaneOf(p)]
            /\ outgoing' = [outgoing EXCEPT ![p] = f]
      BY <1>6 DEF BeginSend
    <2>1. outgoing[p] = None /\ UNCHANGED <<seen, rx, stash, mailbox>>
      BY <1>6 DEF BeginSend
    <2>2. \A q \in Port : outgoing'[q] = IF q = p THEN f ELSE outgoing[q]
      BY <2>0 DEF TypeOK
    <2>3. /\ SeenFrom(x, r)' = SeenFrom(x, r) /\ GivenBack(x, r)' = GivenBack(x, r)
          /\ Stashed(x, r)' = Stashed(x, r) /\ InMailbox(x, r)' = InMailbox(x, r)
      BY <2>1, PlacesKept
    <2>4. CASE p # <<r, LaneOf(x)>>
      <3>1. Leaving(x, r)' \subseteq Leaving(x, r)
        BY <1>1, <2>2, <2>4 DEF Leaving
      <3>2. QED
        BY <1>4, <2>3, <3>1
    <2>5. CASE p = <<r, LaneOf(x)>>
      <3>1. Leaving(x, r)' \subseteq {f}
        BY <1>1, <2>2, <2>5 DEF Leaving
      <3>2. f.id = Len(offered) + 1 /\ Len(offered) \in Nat
        BY <2>0 DEF TypeOK
      <3>3. \A i \in SeenFrom(x, r) : i \in 1..Len(offered)
        BY DEF SeenFrom, HeldInv
      <3>4. \A g \in GivenBack(x, r) \cup Stashed(x, r) \cup InMailbox(x, r) : g.id \in 1..Len(offered)
        BY <1>3 DEF GivenBack, Stashed, InMailbox, HeldInv, Addressed, Original
      <3>5. QED
        BY <1>2, <2>3, <3>1, <3>2, <3>3, <3>4 DEF InLine
    <2>6. QED
      BY <2>4, <2>5
  <1>7. ASSUME NEW p \in Port, PollSendLocal(p) PROVE Line'
    <2>1. PICK f, g : f = outgoing[p] /\ g = [f EXCEPT !.lane = roleLane[f.to][HostOf(p)]]
      OBVIOUS
    <2>2. f \in Frame /\ f.to \in Role /\ HostOf(p) \in Core /\ OwnFrame(p, f)
      BY <1>7, <2>1, PortFacts, FrameFacts DEF PollSendLocal, TypeOK, SendInv
    <2>3. g \in Frame /\ g = f
      BY <1>7, <2>1, <2>2, RelabelHarmless DEF PollSendLocal
    <2>4. \A q \in Port : outgoing'[q] = IF q = p THEN None ELSE outgoing[q]
      BY <1>7 DEF PollSendLocal, TypeOK
    <2>5. /\ SeenFrom(x, r)' = SeenFrom(x, r) /\ GivenBack(x, r)' = GivenBack(x, r)
          /\ InMailbox(x, r)' = InMailbox(x, r) /\ Leaving(x, r)' \subseteq Leaving(x, r)
      BY <1>7, <2>4, PlacesKept DEF PollSendLocal
    <2>6. CASE UNCHANGED stash
      BY <1>4, <2>5, <2>6, PlacesKept
    <2>7. CASE stash[HostOf(p)][f.to] = None /\ stash' = [stash EXCEPT ![HostOf(p)][f.to] = f]
      <3>1. /\ stash'[HostOf(p)][f.to] = f
            /\ \A d \in Core, q \in Role :
                 ~(d = HostOf(p) /\ q = f.to) => stash'[d][q] = stash[d][q]
        BY <2>2, <2>7, StashWrite
      <3>2. CASE Stashed(x, r)' \subseteq Stashed(x, r)
        BY <1>4, <2>5, <3>2
      <3>3. CASE ~(Stashed(x, r)' \subseteq Stashed(x, r))
        <4>1. HostOf(x) = HostOf(p) /\ RoleOf(x) = f.to
          BY <1>3, <3>1, <3>3, PlacesKept
        <4>2. f.from = r /\ f.lane = LaneOf(x)
          BY <1>1, <3>1, <3>3, <4>1 DEF Stashed, FrameTargetsRxLane
        <4>3. p = <<r, LaneOf(x)>> /\ CoreOf[r] = HostOf(p)
          BY <2>2, <4>2, PortFacts DEF OwnFrame
        <4>4. Stashed(x, r)' \subseteq {f} /\ Stashed(x, r) = {}
          BY <1>1, <2>7, <3>1, <4>1 DEF Stashed
        <4>5. f \in Leaving(x, r) /\ Leaving(x, r)' = {}
          BY <1>1, <1>7, <2>1, <2>4, <4>1, <4>3 DEF Leaving, PollSendLocal
        <4>6. InMailbox(x, r) = {}
          BY <1>3, <4>1, <4>3 DEF InMailbox, HeldInv
        <4>7. QED
          BY <1>2, <2>5, <4>4, <4>5, <4>6 DEF InLine
      <3>4. QED
        BY <3>2, <3>3
    <2>8. QED
      BY <1>7, <2>1, <2>3, <2>6, <2>7 DEF PollSendLocal
  <1>8. ASSUME NEW p \in Port, PollSendRemote(p) PROVE Line'
    <2>1. PICK waiting : waiting = IF pending[p] = None THEN outgoing[p] ELSE pending[p]
      OBVIOUS
    <2>2. /\ OwnFrame(p, waiting) /\ HostOf(p) \in Core
          /\ CoreOf[waiting.to] # HostOf(p) => waiting = outgoing[p]
      BY <1>8, <2>1, PortFacts DEF PollSendRemote, SendInv
    <2>3. SeenFrom(x, r)' = SeenFrom(x, r) /\ GivenBack(x, r)' = GivenBack(x, r)
            /\ Stashed(x, r)' = Stashed(x, r)
      BY <1>8, PlacesKept DEF PollSendRemote
    <2>4. CASE UNCHANGED <<mailbox, outgoing>>
      BY <1>4, <2>3, <2>4, PlacesKept
    <2>5. CASE /\ mailbox[HostOf(p)] = None /\ mailbox' = [mailbox EXCEPT ![HostOf(p)] = waiting]
               /\ outgoing' = [outgoing EXCEPT ![p] = None]
      <3>1. \A q \in Port : outgoing'[q] = IF q = p THEN None ELSE outgoing[q]
        BY <2>5 DEF TypeOK
      <3>2. \A c \in Core : mailbox'[c] = IF c = HostOf(p) THEN waiting ELSE mailbox[c]
        BY <2>5 DEF TypeOK
      <3>3. Leaving(x, r)' \subseteq Leaving(x, r)
        BY <3>1, PlacesKept
      <3>4. CASE InMailbox(x, r)' \subseteq InMailbox(x, r)
        BY <1>4, <2>3, <3>3, <3>4
      <3>5. CASE ~(InMailbox(x, r)' \subseteq InMailbox(x, r))
        <4>1. Peer(HostOf(x)) = HostOf(p)
          BY <1>3, <3>2, <3>5, PlacesKept
        <4>2. waiting # None /\ waiting.to = RoleOf(x) /\ waiting.lane = LaneOf(x) /\ waiting.from = r
          BY <1>1, <1>3, <3>2, <3>5, <4>1 DEF InMailbox, FrameTargetsRxLane
        <4>3. waiting = outgoing[p] /\ p = <<r, LaneOf(x)>>
          BY <1>3, <2>2, <4>1, <4>2, PortFacts DEF OwnFrame
        <4>4. InMailbox(x, r)' \subseteq {waiting} /\ InMailbox(x, r) = {}
          BY <1>1, <1>3, <2>5, <3>2, <4>1 DEF InMailbox
        <4>5. waiting \in Leaving(x, r) /\ Leaving(x, r)' = {}
          BY <1>1, <3>1, <4>2, <4>3 DEF Leaving
        <4>6. QED
          BY <1>2, <2>3, <4>4, <4>5 DEF InLine
      <3>6. QED
        BY <3>4, <3>5
    <2>6. QED
      BY <1>8, <2>1, <2>4, <2>5 DEF PollSendRemote
  <1>9. ASSUME NEW p \in Port, CancelSend(p) PROVE Line'
    <2>1. \A q \in Port : outgoing'[q] \in {None, outgoing[q]}
      BY <1>9 DEF CancelSend, TypeOK
    <2>2. QED
      BY <1>4, <1>9, <2>1, PlacesKept DEF CancelSend, hist
  <1>10. ASSUME NEW p \in Port, PollRecvRequeued(p) PROVE Line'
    <2>1. /\ rx[p].frame \in Frame /\ rx'[p].frame = rx[p].frame /\ rx'[p].delivered
          /\ seen'[p] = Append(seen[p], rx[p].frame.id)
          /\ \A q \in Port : q # p => rx'[q] = rx[q] /\ seen'[q] = seen[q]
      BY <1>10, RequeuedEffect
    <2>2. Addressed(rx[p].frame) /\ ~rx[p].delivered /\ rx[p].frame # None
      BY <1>10, <2>1 DEF PollRecvRequeued, RxInv, HeldInv
    <2>3. Stashed(x, r)' = Stashed(x, r) /\ InMailbox(x, r)' = InMailbox(x, r)
            /\ Leaving(x, r)' \subseteq Leaving(x, r)
      BY <1>10, PlacesKept DEF PollRecvRequeued
    <2>4. CASE x # p
      BY <1>4, <2>1, <2>3, <2>4, PlacesKept
    <2>5. CASE x = p
      <3>1. PICK f : f = rx[p].frame
        OBVIOUS
      <3>2. SeenFrom(x, r)' \subseteq SeenFrom(x, r) \cup {i \in {f.id} : f.from = r}
        BY <2>1, <2>2, <2>5, <3>1, SeenAppend
      <3>3. GivenBack(x, r)' = {} /\ (f.from = r => f \in GivenBack(x, r))
        BY <2>1, <2>2, <2>5, <3>1, PlacesKept DEF GivenBack
      <3>4. QED
        BY <1>2, <2>3, <3>2, <3>3 DEF InLine
    <2>6. QED
      BY <2>4, <2>5
  <1>11. ASSUME NEW p \in Port, rx' = [rx EXCEPT ![p] = Cleared(p)],
                UNCHANGED <<stash, mailbox, outgoing, seen>>
         PROVE  Line'
    <2>1. GivenBack(x, r)' \subseteq GivenBack(x, r)
      BY <1>11, ClearEffect, PlacesKept
    <2>2. QED
      BY <1>4, <1>11, <2>1, PlacesKept
  <1>12. ASSUME NEW p \in Port, PollRecvStash(p) PROVE Line'
    <2>1. PICK f : f = stash[HostOf(p)][RoleOf(p)]
      OBVIOUS
    <2>2. f \in Frame /\ Addressed(f) /\ HostOf(p) \in Core /\ RoleOf(p) \in Role
      BY <1>12, <2>1, PortFacts DEF PollRecvStash, TypeOK, HeldInv
    <2>3. CASE FrameTargetsRxLane(f, p)
      <3>1. stash' = [stash EXCEPT ![HostOf(p)][RoleOf(p)] = None] /\ Stage(p, f)
        BY <1>12, <2>1, <2>3 DEF PollRecvStash
      <3>2. /\ stash'[HostOf(p)][RoleOf(p)] = None
            /\ \A d \in Core, q \in Role :
                 ~(d = HostOf(p) /\ q = RoleOf(p)) => stash'[d][q] = stash[d][q]
        BY <2>2, <3>1, StashWrite
      <3>3. Stashed(x, r)' \subseteq Stashed(x, r) /\ (x = p => Stashed(x, r)' = {})
        BY <1>3, <3>2, PlacesKept
      <3>4. InMailbox(x, r)' = InMailbox(x, r) /\ Leaving(x, r)' \subseteq Leaving(x, r)
        BY <1>12, PlacesKept DEF PollRecvStash
      <3>5. CASE x # p
        BY <1>4, <1>5, <2>2, <3>1, <3>3, <3>4, <3>5, PlacesKept
      <3>6. CASE x = p
        <4>1. /\ SeenFrom(x, r)' \subseteq SeenFrom(x, r) \cup {i \in {f.id} : f.from = r}
              /\ GivenBack(x, r)' = {}
          BY <1>5, <2>2, <3>1, <3>6
        <4>2. f.from = r => f \in Stashed(x, r)
          BY <1>12, <2>1, <2>3, <3>6 DEF Stashed, PollRecvStash
        <4>3. QED
          BY <1>2, <3>3, <3>4, <3>6, <4>1, <4>2 DEF InLine
      <3>7. QED
        BY <3>5, <3>6
    <2>4. CASE ~FrameTargetsRxLane(f, p)
      BY <1>11, <1>12, <2>1, <2>4 DEF PollRecvStash
    <2>5. QED
      BY <2>3, <2>4
  <1>13. ASSUME NEW p \in Port, PollRecvLoop(p) PROVE Line'
    BY <1>11, <1>13 DEF PollRecvLoop, hist
  <1>14. ASSUME NEW p \in Port, Requeue(p) PROVE Line'
    <2>1. /\ rx[p].frame \in Frame /\ rx'[p].frame = rx[p].frame /\ ~rx'[p].delivered
          /\ seen'[p] = IF rx[p].delivered THEN SubSeq(seen[p], 1, Len(seen[p]) - 1) ELSE seen[p]
          /\ \A q \in Port : q # p => rx'[q] = rx[q] /\ seen'[q] = seen[q]
      BY <1>14, RequeueEffect
    <2>2. Stashed(x, r)' = Stashed(x, r) /\ InMailbox(x, r)' = InMailbox(x, r)
            /\ Leaving(x, r)' \subseteq Leaving(x, r) /\ offered' = offered
      BY <1>14, PlacesKept DEF Requeue
    <2>3. CASE x # p
      BY <1>4, <2>1, <2>2, <2>3, PlacesKept
    <2>4. CASE x = p /\ ~rx[p].delivered
      <3>1. GivenBack(x, r)' = GivenBack(x, r)
        BY <2>1, <2>4 DEF GivenBack
      <3>2. QED
        BY <1>4, <2>1, <2>2, <2>4, <3>1, PlacesKept
    <2>5. CASE x = p /\ rx[p].delivered
      <3>1. PICK f : f = rx[p].frame
        OBVIOUS
      <3>2. f # None /\ Addressed(f) /\ Len(seen[p]) > 0 /\ seen[p][Len(seen[p])] = f.id
        BY <1>14, <2>5, <3>1 DEF Requeue, HeldInv, RxInv
      <3>3. Len(seen[p]) \in Nat /\ \A n \in 1..Len(seen'[p]) :
              n \in 1..Len(seen[p]) /\ n < Len(seen[p]) /\ seen'[p][n] = seen[p][n]
        BY <2>1, <2>5, <3>2, FrontFacts DEF TypeOK
      <3>4. SeenFrom(x, r)' \subseteq SeenFrom(x, r)
        BY <2>2, <2>5, <3>3 DEF SeenFrom
      <3>5. GivenBack(x, r)' \subseteq {g \in {f} : f.from = r}
        BY <2>1, <2>5, <3>1 DEF GivenBack
      <3>6. f.from = r => f.id \in SeenFrom(x, r)
        BY <2>5, <3>2, <3>3 DEF SeenFrom, Addressed
      <3>7. f.from = r => \A i \in SeenFrom(x, r)' : i < f.id
        <4> SUFFICES ASSUME f.from = r, NEW n \in 1..Len(seen'[p]), offered'[seen'[p][n]].from = r
                     PROVE  seen'[p][n] < f.id
          BY <2>5 DEF SeenFrom
        <4>1. Len(seen[p]) \in 1..Len(seen[p]) /\ n \in 1..Len(seen[p]) /\ n < Len(seen[p])
          BY <3>2, <3>3
        <4>2. offered[seen[p][n]].from = offered[seen[p][Len(seen[p])]].from
          BY <2>2, <3>2, <3>3 DEF Addressed
        <4>3. seen[p][n] < seen[p][Len(seen[p])]
          BY <4>1, <4>2 DEF InOrder
        <4>4. QED
          BY <3>2, <3>3, <4>3
      <3>8. QED
        BY <1>2, <2>2, <3>4, <3>5, <3>6, <3>7 DEF InLine
    <2>6. QED
      BY <2>3, <2>4, <2>5
  <1>15. ASSUME NEW c \in Core, TakeFrame(c) PROVE Line'
    <2>1. PICK p, f : p = busy[c] /\ f = mailbox[Peer(c)]
      OBVIOUS
    <2>2. /\ p \in Port /\ f \in Frame /\ f.to \in Role /\ Addressed(f) /\ Peer(c) \in Core
          /\ HostOf(p) = c /\ rx[p].frame = None
          /\ stash[c][RoleOf(p)] # None => ~FrameTargetsRxLane(stash[c][RoleOf(p)], p)
      <3>1. p \in Port /\ f \in Frame /\ Peer(c) \in Core
        BY <1>15, <2>1, PeerFacts DEF TakeFrame, TypeOK
      <3>2. f.to \in Role /\ Addressed(f)
        BY <1>15, <2>1, <3>1, FrameFacts DEF TakeFrame, HeldInv, Addressed, Original
      <3>3. QED
        BY <1>15, <2>1, <3>1, <3>2 DEF TakeFrame, BusyInv
    <2>3. \A d \in Core : mailbox'[d] = IF d = Peer(c) THEN None ELSE mailbox[d]
      BY <1>15 DEF TakeFrame, TypeOK
    <2>4. /\ InMailbox(x, r)' \subseteq InMailbox(x, r)
          /\ HostOf(x) = c => InMailbox(x, r)' = {}
          /\ Leaving(x, r)' \subseteq Leaving(x, r)
      BY <1>3, <1>15, <2>3, PlacesKept DEF TakeFrame
    <2>5. CASE f.to = RoleOf(p) /\ FrameTargetsRxLane(f, p) /\ Stage(p, f) /\ UNCHANGED stash
      <3>1. Stashed(x, r)' = Stashed(x, r)
        BY <2>5, PlacesKept
      <3>2. CASE x # p
        BY <1>4, <1>5, <2>2, <2>4, <2>5, <3>1, <3>2, PlacesKept
      <3>3. CASE x = p
        <4>1. /\ SeenFrom(x, r)' \subseteq SeenFrom(x, r) \cup {i \in {f.id} : f.from = r}
              /\ GivenBack(x, r)' = {}
          BY <1>5, <2>2, <2>5, <3>3
        <4>2. f.from = r => f \in InMailbox(x, r)
          BY <1>15, <2>1, <2>2, <2>5, <3>3 DEF InMailbox, TakeFrame
        <4>3. Stashed(x, r) = {}
          BY <2>2, <3>3 DEF Stashed
        <4>4. QED
          BY <1>2, <2>2, <2>4, <3>1, <3>3, <4>1, <4>2, <4>3 DEF InLine
      <3>4. QED
        BY <3>2, <3>3
    <2>6. CASE stash[c][f.to] = None /\ stash' = [stash EXCEPT ![c][f.to] = f] /\ UNCHANGED <<rx, seen>>
      <3>1. /\ stash'[c][f.to] = f
            /\ \A d \in Core, q \in Role : ~(d = c /\ q = f.to) => stash'[d][q] = stash[d][q]
        BY <2>2, <2>6, StashWrite
      <3>2. SeenFrom(x, r)' = SeenFrom(x, r) /\ GivenBack(x, r)' = GivenBack(x, r)
        BY <2>6, PlacesKept
      <3>3. CASE ~(HostOf(x) = c /\ RoleOf(x) = f.to)
        BY <1>3, <1>4, <2>4, <3>1, <3>2, <3>3, PlacesKept
      <3>4. CASE HostOf(x) = c /\ RoleOf(x) = f.to
        <4>1. Stashed(x, r) = {}
          BY <2>6, <3>4 DEF Stashed
        <4>2. Stashed(x, r)' \subseteq InMailbox(x, r)
          BY <1>1, <2>1, <3>1, <3>4 DEF Stashed, InMailbox, FrameTargetsRxLane
        <4>3. QED
          BY <1>2, <2>4, <3>2, <3>4, <4>1, <4>2 DEF InLine
      <3>5. QED
        BY <3>3, <3>4
    <2>7. CASE UNCHANGED <<stash, rx, seen>>
      BY <1>4, <2>4, <2>7, PlacesKept
    <2>8. QED
      BY <1>15, <2>1, <2>5, <2>6, <2>7 DEF TakeFrame
  <1>16. ASSUME UNCHANGED <<stash, mailbox, outgoing, rx, seen>> PROVE Line'
    BY <1>4, <1>16, PlacesKept
  <1>17. QED
    BY <1>6, <1>7, <1>8, <1>9, <1>10, <1>12, <1>13, <1>14, <1>15, <1>16
    DEF Next, vars, hist, TakeNone, DeadlineExpired

\* So what a port sees from one role is in the order of the sends.
LEMMA InOrderStep ==
  ASSUME TypeOK, HeldInv, RxInv, BusyInv, OrderInv, InOrder, [Next]_vars
  PROVE  InOrder'
  <1>1. /\ site' = site /\ Port' = Port /\ LanesKept' = LanesKept
        /\ \A i \in 1..Len(offered) : offered'[i] = offered[i]
    BY OfferedGrows, SameSite
  <1> SUFFICES ASSUME LanesKept, NEW x \in Port,
                      NEW m \in 1..Len(seen'[x]), NEW n \in 1..Len(seen'[x]),
                      m < n, offered'[seen'[x][m]].from = offered'[seen'[x][n]].from
               PROVE  seen'[x][m] < seen'[x][n]
    BY <1>1 DEF InOrder
  <1>2. ASSUME m \in 1..Len(seen[x]), n \in 1..Len(seen[x]),
               seen'[x][m] = seen[x][m], seen'[x][n] = seen[x][n]
        PROVE  seen'[x][m] < seen'[x][n]
    <2>1. offered'[seen[x][m]] = offered[seen[x][m]] /\ offered'[seen[x][n]] = offered[seen[x][n]]
      BY <1>1, <1>2 DEF HeldInv
    <2>2. QED
      BY <1>2, <2>1 DEF InOrder
  <1>3. UNCHANGED seen => seen'[x][m] < seen'[x][n]
    BY <1>2
  <1>4. ASSUME NEW f \in Frame, Addressed(f), seen'[x] = Append(seen[x], f.id),
               f.from \in Role => \A i \in SeenFrom(x, f.from) : i < f.id
        PROVE  seen'[x][m] < seen'[x][n]
    <2>1. f.id \in Nat /\ f.from \in Role /\ seen[x] \in Seq(Nat)
      BY FrameFacts DEF TypeOK
    <2>2. /\ Len(seen[x]) \in Nat /\ m \in 1..Len(seen[x]) /\ seen'[x][m] = seen[x][m]
          /\ \/ n \in 1..Len(seen[x]) /\ seen'[x][n] = seen[x][n]
             \/ seen'[x][n] = f.id
      BY <1>4, <2>1, AppendFacts
    <2>3. CASE n \in 1..Len(seen[x]) /\ seen'[x][n] = seen[x][n]
      BY <1>2, <2>2, <2>3
    <2>4. CASE seen'[x][n] = f.id
      <3>1. offered'[f.id].from = f.from
        BY <1>1, <1>4 DEF Addressed
      <3>2. offered'[seen[x][m]] = offered[seen[x][m]]
        BY <1>1, <2>2 DEF HeldInv
      <3>3. seen[x][m] \in SeenFrom(x, f.from)
        BY <2>2, <2>4, <3>1, <3>2 DEF SeenFrom
      <3>4. QED
        BY <1>4, <2>1, <2>2, <2>4, <3>3
    <2>5. QED
      BY <2>2, <2>3, <2>4
  <1>5. ASSUME NEW p \in Port, PollRecvRequeued(p) PROVE seen'[x][m] < seen'[x][n]
    <2>1. /\ rx[p].frame \in Frame /\ seen'[p] = Append(seen[p], rx[p].frame.id)
          /\ \A q \in Port : q # p => seen'[q] = seen[q]
      BY <1>5, RequeuedEffect
    <2>2. PICK f : f = rx[p].frame
      OBVIOUS
    <2>3. f # None /\ Addressed(f) /\ ~rx[p].delivered
      BY <1>5, <2>2 DEF PollRecvRequeued, RxInv, HeldInv
    <2>4. f \in GivenBack(p, f.from)
      BY <2>2, <2>3 DEF GivenBack
    <2>5. f.from \in Role => \A i \in SeenFrom(p, f.from) : i < f.id
      BY <2>4 DEF OrderInv, InLine
    <2>6. QED
      BY <1>2, <1>4, <2>1, <2>2, <2>3, <2>5
  <1>6. ASSUME NEW p \in Port, PollRecvStash(p) PROVE seen'[x][m] < seen'[x][n]
    <2>1. PICK f : f = stash[HostOf(p)][RoleOf(p)]
      OBVIOUS
    <2>2. f \in Frame /\ Addressed(f)
      <3>1. HostOf(p) \in Core /\ RoleOf(p) \in Role /\ f # None
        BY <1>6, <2>1, PortFacts DEF PollRecvStash
      <3>2. QED
        BY <2>1, <3>1 DEF TypeOK, HeldInv
    <2>3. CASE FrameTargetsRxLane(f, p) /\ Stage(p, f)
      <3>1. f \in Stashed(p, f.from)
        BY <1>6, <2>1, <2>3 DEF Stashed, PollRecvStash
      <3>2. f.from \in Role => \A i \in SeenFrom(p, f.from) : i < f.id
        BY <3>1 DEF OrderInv, InLine
      <3>3. seen'[p] = Append(seen[p], f.id) /\ \A q \in Port : q # p => seen'[q] = seen[q]
        BY <2>2, <2>3, StageEffect
      <3>4. QED
        BY <1>2, <1>4, <2>2, <3>2, <3>3
    <2>4. QED
      BY <1>3, <1>6, <2>1, <2>3 DEF PollRecvStash
  <1>7. ASSUME NEW p \in Port, Requeue(p) PROVE seen'[x][m] < seen'[x][n]
    <2>1. /\ rx[p].frame \in Frame
          /\ seen'[p] = IF rx[p].delivered THEN SubSeq(seen[p], 1, Len(seen[p]) - 1) ELSE seen[p]
          /\ \A q \in Port : q # p => seen'[q] = seen[q]
      BY <1>7, RequeueEffect
    <2>2. CASE x = p /\ rx[p].delivered
      <3>1. rx[p].frame # None /\ Len(seen[p]) > 0 /\ seen[p] \in Seq(Nat)
        BY <1>7, <2>2 DEF Requeue, RxInv, TypeOK
      <3>2. m \in 1..Len(seen[x]) /\ n \in 1..Len(seen[x]) /\ seen'[x][m] = seen[x][m]
              /\ seen'[x][n] = seen[x][n]
        <4>1. seen'[x] = SubSeq(seen[x], 1, Len(seen[x]) - 1) /\ seen[x] \in Seq(Nat)
          BY <2>1, <2>2, <3>1
        <4>2. /\ Len(seen'[x]) = Len(seen[x]) - 1 /\ Len(seen[x]) \in Nat
              /\ \A k \in 1..(Len(seen[x]) - 1) : seen'[x][k] = seen[x][k] /\ k \in 1..Len(seen[x])
          BY ZenonT(60), <2>2, <3>1, <4>1, FrontFacts
        <4>3. m \in 1..(Len(seen[x]) - 1) /\ n \in 1..(Len(seen[x]) - 1)
          BY <4>2
        <4>4. QED
          BY <4>2, <4>3
      <3>3. QED
        BY <1>2, <3>2
    <2>3. CASE ~(x = p /\ rx[p].delivered)
      BY <1>2, <2>1, <2>3
    <2>4. QED
      BY <2>2, <2>3
  <1>8. ASSUME NEW c \in Core, TakeFrame(c) PROVE seen'[x][m] < seen'[x][n]
    <2>1. PICK p, f : p = busy[c] /\ f = mailbox[Peer(c)]
      OBVIOUS
    <2>2. p \in Port /\ f \in Frame /\ f # None /\ Addressed(f) /\ HostOf(p) = c
      <3>1. p \in Port /\ f \in Frame /\ Peer(c) \in Core /\ f # None
        BY <1>8, <2>1, PeerFacts DEF TakeFrame, TypeOK
      <3>2. QED
        BY <1>8, <2>1, <3>1 DEF TakeFrame, BusyInv, HeldInv, Original, Addressed
    <2>3. CASE f.to = RoleOf(p) /\ FrameTargetsRxLane(f, p) /\ Stage(p, f)
      <3>1. f \in InMailbox(p, f.from)
        BY <2>1, <2>2, <2>3 DEF InMailbox
      <3>2. f.from \in Role => \A i \in SeenFrom(p, f.from) : i < f.id
        BY <2>2, <3>1 DEF OrderInv, InLine
      <3>3. seen'[p] = Append(seen[p], f.id) /\ \A q \in Port : q # p => seen'[q] = seen[q]
        BY <2>2, <2>3, StageEffect
      <3>4. QED
        BY <1>2, <1>4, <2>2, <3>2, <3>3
    <2>4. QED
      BY <1>3, <1>8, <2>1, <2>3 DEF TakeFrame
  <1>9. QED
    BY <1>3, <1>5, <1>6, <1>7, <1>8
    DEF Next, vars, hist, BeginSend, PollSendLocal, PollSendRemote, CancelSend, PollRecvLoop,
        TakeNone, DeadlineExpired

\* Nothing is attached or sent at first.
LEMMA CarrierInit == Init => CarrierInv /\ InOrder
  <1> SUFFICES ASSUME Init PROVE CarrierInv /\ InOrder
    OBVIOUS
  <1>1. site \in Site
    BY DEF Init
  <1>2. TypeOK
    <2>1. roleLane \in [Role -> [Core -> Nat]]
      BY DEF Init
    <2>2. rx \in [Port -> RxState]
      BY DEF Init, EmptyRx, RxState
    <2>3. offered \in Seq(Frame) /\ accepted \subseteq 1..Len(offered) /\ seen \in [Port -> Seq(Nat)]
      BY DEF Init
    <2>4. QED
      BY <1>1, <2>1, <2>2, <2>3 DEF Init, TypeOK
  <1>3. OfferedInv /\ AttachInv /\ SendInv
    BY DEF Init, OfferedInv, AttachInv, AttachedOn, SendInv
  <1>4. HeldInv /\ RightAddressee /\ NoStrandedFrame /\ RxInv /\ InOrder
    <2>1. \A p \in Port : rx[p].frame = None /\ ~rx[p].requeued /\ Len(seen[p]) = 0
      BY DEF Init, EmptyRx
    <2>2. \A c \in Core, r \in Role : stash[c][r] = None /\ mailbox[c] = None
      BY DEF Init
    <2>3. \A c \in Core : mailbox[c] = None
      BY DEF Init
    <2>4. QED
      BY <2>1, <2>2, <2>3 DEF HeldInv, RightAddressee, NoStrandedFrame, RxInv, InOrder
  <1>5. BusyInv /\ UnderwayInv
    BY DEF Init, BusyInv, UnderwayInv
  <1>6. OrderInv
    <2> SUFFICES ASSUME NEW p \in Port, NEW r \in Role
                 PROVE  InLine(SeenFrom(p, r), GivenBack(p, r), Stashed(p, r), InMailbox(p, r),
                               Leaving(p, r))
      BY DEF OrderInv
    <2>1. HostOf(p) \in Core /\ RoleOf(p) \in Role /\ Peer(HostOf(p)) \in Core
      BY <1>2, PortFacts, PeerFacts
    <2>2. GivenBack(p, r) = {} /\ Stashed(p, r) = {} /\ InMailbox(p, r) = {} /\ Leaving(p, r) = {}
      BY <2>1 DEF Init, EmptyRx, GivenBack, Stashed, InMailbox, Leaving
    <2>3. QED
      BY <2>2 DEF InLine
  <1>7. QED
    BY <1>2, <1>3, <1>4, <1>5, <1>6 DEF CarrierInv

\* Each of the carrier's operations keeps the invariant and the order.
LEMMA CarrierStep == CarrierInv /\ InOrder /\ [Next]_vars => CarrierInv' /\ InOrder'
  <1> SUFFICES ASSUME CarrierInv, InOrder, [Next]_vars PROVE CarrierInv' /\ InOrder'
    OBVIOUS
  <1> USE DEF CarrierInv
  <1>1. TypeOK'
    BY TypeStep
  <1>2. OfferedInv' /\ AttachInv' /\ SendInv'
    BY OfferedStep, AttachStep, SendStep
  <1>3. HeldInv'
    BY <1>1, HeldStep
  <1>4. RxInv' /\ BusyInv' /\ UnderwayInv'
    BY RxStep, BusyStep, UnderwayStep
  <1>5. RightAddressee' /\ NoStrandedFrame'
    BY <1>3, AddresseeStep
  <1>6. OrderInv' /\ InOrder'
    BY OrderStep, InOrderStep
  <1>7. QED
    BY <1>1, <1>2, <1>3, <1>4, <1>5, <1>6

\* In every deployment the carrier stages a frame only at a port of its
\* addressee, and strands none where each core hosts one role.
THEOREM CarrierInvariant == Spec => []CarrierInv
  <1>1. Init => CarrierInv /\ InOrder
    BY CarrierInit
  <1>2. CarrierInv /\ InOrder /\ [Next]_vars => CarrierInv' /\ InOrder'
    BY CarrierStep
  <1>3. QED
    BY <1>1, <1>2, PTL DEF Spec

\* In every deployment whose lanes are kept, any number of roles and lanes
\* sending any number of frames, poll_recv delivers in the order of poll_send.
THEOREM DeliversInOrder == Spec => []InOrder
  <1>1. Init => CarrierInv /\ InOrder
    BY CarrierInit
  <1>2. CarrierInv /\ InOrder /\ [Next]_vars => CarrierInv' /\ InOrder'
    BY CarrierStep
  <1>3. QED
    BY <1>1, <1>2, PTL DEF Spec


-----------------------------------------------------------------------------
(* A frame is in one place.                                                *)

\* No frame is in two places, and one that is somewhere was accepted.
OneEach ==
  \A i \in Nat : (Places(i) # {} => i \in accepted) /\ \A x, y \in Places(i) : x = y

OnceInv == OneRolePerCore => OneEach /\ Cardinality(Lost) <= Cardinality(Stopped)

\* The kinds of places are told apart by their names.
LEMMA PlaceKinds ==
  ASSUME NEW i, NEW x
  PROVE  /\ x \in MailboxPlaces(i) => x[1] = "mailbox"
         /\ x \in StashPlaces(i) => x[1] = "stash"
         /\ x \in GivenBackPlaces(i) => x[1] = "requeued"
         /\ x \in SeenPlaces(i) => x[1] = "seen"
  <1>1. x \in MailboxPlaces(i) => x[1] = "mailbox"
    BY DEF MailboxPlaces
  <1>2. x \in StashPlaces(i) => x[1] = "stash"
    BY DEF StashPlaces
  <1>3. x \in GivenBackPlaces(i) => x[1] = "requeued"
    BY DEF GivenBackPlaces
  <1>4. x \in SeenPlaces(i) => x[1] = "seen"
    <2>1. x \in SeenPlaces(i) => \E p, n : x = <<"seen", <<p, n>>>>
      BY DEF SeenPlaces
    <2>2. QED
      BY <2>1
  <1>5. QED
    BY <1>1, <1>2, <1>3, <1>4

\* A mailbox that is emptied, one that is filled.
LEMMA MailboxEmptied ==
  ASSUME TypeOK, NEW c \in Core, NEW f, f = mailbox[c], f # None,
         mailbox' = [mailbox EXCEPT ![c] = None]
  PROVE  /\ <<"mailbox", c>> \in MailboxPlaces(f.id)
         /\ \A j : MailboxPlaces(j)' = MailboxPlaces(j) \ (IF j = f.id THEN {<<"mailbox", c>>} ELSE {})
  <1>1. \A d \in Core : mailbox'[d] = IF d = c THEN None ELSE mailbox[d]
    BY DEF TypeOK
  <1>2. QED
    BY <1>1 DEF MailboxPlaces

LEMMA MailboxFilled ==
  ASSUME TypeOK, NEW c \in Core, mailbox[c] = None, NEW f \in Frame,
         mailbox' = [mailbox EXCEPT ![c] = f]
  PROVE  \A j : MailboxPlaces(j)' = MailboxPlaces(j) \cup (IF j = f.id THEN {<<"mailbox", c>>} ELSE {})
  <1>1. \A d \in Core : mailbox'[d] = IF d = c THEN f ELSE mailbox[d]
    BY DEF TypeOK
  <1>2. f # None
    BY FrameFacts
  <1>3. QED
    BY <1>1, <1>2 DEF MailboxPlaces

\* A stash slot that is emptied, one that is filled.
LEMMA StashMember ==
  ASSUME NEW j, NEW x
  PROVE  x \in StashPlaces(j) <=>
           \E d \in Core, q \in Role :
             x = <<"stash", <<d, q>>>> /\ stash[d][q] # None /\ stash[d][q].id = j
  <1>1. ASSUME x \in StashPlaces(j)
        PROVE  \E d \in Core, q \in Role :
                 x = <<"stash", <<d, q>>>> /\ stash[d][q] # None /\ stash[d][q].id = j
    <2>1. PICK y \in Core \X Role : /\ x = <<"stash", y>>
                                    /\ stash[y[1]][y[2]] # None /\ stash[y[1]][y[2]].id = j
      BY <1>1 DEF StashPlaces
    <2>2. y[1] \in Core /\ y[2] \in Role /\ y = <<y[1], y[2]>>
      OBVIOUS
    <2>3. QED
      BY <2>1, <2>2
  <1>2. ASSUME NEW d \in Core, NEW q \in Role,
               x = <<"stash", <<d, q>>>>, stash[d][q] # None, stash[d][q].id = j
        PROVE  x \in StashPlaces(j)
    <2>1. PICK y \in Core \X Role : y = <<d, q>>
      OBVIOUS
    <2>2. y[1] = d /\ y[2] = q
      BY <2>1
    <2>3. QED
      BY <1>2, <2>1, <2>2 DEF StashPlaces
  <1>3. QED
    BY <1>1, <1>2

LEMMA StashMemberNext ==
  ASSUME NEW j, NEW x
  PROVE  x \in StashPlaces(j)' <=>
           \E d \in Core, q \in Role' :
             x = <<"stash", <<d, q>>>> /\ stash'[d][q] # None /\ stash'[d][q].id = j
  <1>1. ASSUME x \in StashPlaces(j)'
        PROVE  \E d \in Core, q \in Role' :
                 x = <<"stash", <<d, q>>>> /\ stash'[d][q] # None /\ stash'[d][q].id = j
    <2>1. PICK y \in Core \X Role' : /\ x = <<"stash", y>>
                                     /\ stash'[y[1]][y[2]] # None /\ stash'[y[1]][y[2]].id = j
      BY <1>1 DEF StashPlaces, Core
    <2>2. y[1] \in Core /\ y[2] \in Role' /\ y = <<y[1], y[2]>>
      OBVIOUS
    <2>3. QED
      BY <2>1, <2>2
  <1>2. ASSUME NEW d \in Core, NEW q \in Role',
               x = <<"stash", <<d, q>>>>, stash'[d][q] # None, stash'[d][q].id = j
        PROVE  x \in StashPlaces(j)'
    <2>1. PICK y \in Core \X Role' : y = <<d, q>>
      OBVIOUS
    <2>2. y[1] = d /\ y[2] = q
      BY <2>1
    <2>3. QED
      BY <1>2, <2>1, <2>2 DEF StashPlaces, Core
  <1>3. QED
    BY <1>1, <1>2

LEMMA StashEmptied ==
  ASSUME TypeOK, site' = site, NEW c \in Core, NEW r \in Role, NEW f, f = stash[c][r], f # None,
         \A d \in Core, q \in Role : stash'[d][q] = IF d = c /\ q = r THEN None ELSE stash[d][q]
  PROVE  /\ <<"stash", <<c, r>>>> \in StashPlaces(f.id)
         /\ \A j : StashPlaces(j)' =
                     StashPlaces(j) \ (IF j = f.id THEN {<<"stash", <<c, r>>>>} ELSE {})
  <1>1. \A d \in Core, q \in Role : stash'[d][q] = IF d = c /\ q = r THEN None ELSE stash[d][q]
    OBVIOUS
  <1>2. Role' = Role
    BY SameSite
  <1>3. <<"stash", <<c, r>>>> \in StashPlaces(f.id)
    BY StashMember
  <1>4. ASSUME NEW j, NEW x
        PROVE  x \in StashPlaces(j)' <=>
                 x \in StashPlaces(j) /\ ~(j = f.id /\ x = <<"stash", <<c, r>>>>)
    BY <1>1, <1>2, StashMember, StashMemberNext
  <1>5. QED
    BY <1>3, <1>4

LEMMA StashFilled ==
  ASSUME TypeOK, site' = site, NEW c \in Core, NEW r \in Role, NEW f \in Frame, stash[c][r] = None,
         \A d \in Core, q \in Role : stash'[d][q] = IF d = c /\ q = r THEN f ELSE stash[d][q]
  PROVE  \A j : StashPlaces(j)' =
                  StashPlaces(j) \cup (IF j = f.id THEN {<<"stash", <<c, r>>>>} ELSE {})
  <1>1. \A d \in Core, q \in Role : stash'[d][q] = IF d = c /\ q = r THEN f ELSE stash[d][q]
    OBVIOUS
  <1>2. Role' = Role /\ f # None
    BY SameSite, FrameFacts
  <1>3. ASSUME NEW j, NEW x
        PROVE  x \in StashPlaces(j)' <=>
                 x \in StashPlaces(j) \/ (j = f.id /\ x = <<"stash", <<c, r>>>>)
    BY <1>1, <1>2, StashMember, StashMemberNext
  <1>4. QED
    BY <1>3

\* A frame given back, one taken again.
LEMMA GivenBackSame ==
  ASSUME site' = site,
         \A q \in Port : \/ rx'[q] = rx[q]
                         \/ /\ rx[q].frame = None \/ rx[q].delivered
                            /\ rx'[q].frame = None \/ rx'[q].delivered
  PROVE  \A j : GivenBackPlaces(j)' = GivenBackPlaces(j)
  <1>1. Port' = Port
    BY SameSite
  <1>2. QED
    BY <1>1 DEF GivenBackPlaces

LEMMA GivenBackTaken ==
  ASSUME site' = site, NEW p \in Port, rx[p].frame # None, ~rx[p].delivered, rx'[p].delivered,
         \A q \in Port : q # p => rx'[q] = rx[q],
         NEW k, k = rx[p].frame.id
  PROVE  /\ <<"requeued", p>> \in GivenBackPlaces(k)
         /\ \A j : GivenBackPlaces(j)' =
                     GivenBackPlaces(j) \ (IF j = k THEN {<<"requeued", p>>} ELSE {})
  <1>1. Port' = Port
    BY SameSite
  <1>2. QED
    BY <1>1 DEF GivenBackPlaces

LEMMA GivenBackAgain ==
  ASSUME site' = site, NEW p \in Port, rx[p].frame # None, rx[p].delivered, ~rx'[p].delivered,
         rx'[p].frame = rx[p].frame, \A q \in Port : q # p => rx'[q] = rx[q],
         NEW k, k = rx[p].frame.id
  PROVE  \A j : GivenBackPlaces(j)' =
                  GivenBackPlaces(j) \cup (IF j = k THEN {<<"requeued", p>>} ELSE {})
  <1>1. Port' = Port
    BY SameSite
  <1>2. QED
    BY <1>1 DEF GivenBackPlaces

\* A frame delivered, and the last delivery undone.
LEMMA SeenMember ==
  ASSUME NEW j, NEW x
  PROVE  x \in SeenPlaces(j) <=>
           \E p \in Port : \E n \in 1..Len(seen[p]) : x = <<"seen", <<p, n>>>> /\ seen[p][n] = j
  BY DEF SeenPlaces

LEMMA SeenMemberNext ==
  ASSUME NEW j, NEW x
  PROVE  x \in SeenPlaces(j)' <=>
           \E p \in Port' : \E n \in 1..Len(seen'[p]) : x = <<"seen", <<p, n>>>> /\ seen'[p][n] = j
  BY DEF SeenPlaces

LEMMA SeenMore ==
  ASSUME TypeOK, site' = site, NEW p \in Port, NEW k \in Nat, NEW e, e = Len(seen[p]) + 1,
         seen'[p] = Append(seen[p], k), \A q \in Port : q # p => seen'[q] = seen[q]
  PROVE  \A j : SeenPlaces(j)' = SeenPlaces(j) \cup (IF j = k THEN {<<"seen", <<p, e>>>>} ELSE {})
  <1>1. \A q \in Port : seen'[q] = IF q = p THEN Append(seen[p], k) ELSE seen[q]
    OBVIOUS
  <1>2. Port' = Port
    BY SameSite
  <1>3. seen[p] \in Seq(Nat) /\ Len(seen[p]) \in Nat
    BY DEF TypeOK
  <1>4. Len(seen'[p]) = e /\ seen'[p][e] = k /\ \A n \in 1..Len(seen[p]) : seen'[p][n] = seen[p][n]
    BY <1>3, AppendFacts
  <1>5. ASSUME NEW n
        PROVE  n \in 1..e <=> n \in 1..Len(seen[p]) \/ n = e
    BY <1>3
  <1>6. ASSUME NEW j, NEW x
        PROVE  x \in SeenPlaces(j)' <=> x \in SeenPlaces(j) \/ (j = k /\ x = <<"seen", <<p, e>>>>)
    <2>1. ASSUME x \in SeenPlaces(j)'
          PROVE  x \in SeenPlaces(j) \/ (j = k /\ x = <<"seen", <<p, e>>>>)
      <3>1. PICK q \in Port : \E n \in 1..Len(seen'[q]) : x = <<"seen", <<q, n>>>> /\ seen'[q][n] = j
        BY <2>1, <1>2, SeenMemberNext
      <3>2. PICK n \in 1..Len(seen'[q]) : x = <<"seen", <<q, n>>>> /\ seen'[q][n] = j
        BY <3>1
      <3>3. CASE q = p /\ n = e
        BY <3>2, <3>3, <1>4
      <3>4. CASE q = p /\ n # e
        BY <3>2, <3>4, <1>4, <1>5, SeenMember
      <3>5. CASE q # p
        BY <3>2, <3>5, <1>1, SeenMember
      <3>6. QED
        BY <3>3, <3>4, <3>5
    <2>2. ASSUME x \in SeenPlaces(j)
          PROVE  x \in SeenPlaces(j)'
      <3>1. PICK q \in Port : \E n \in 1..Len(seen[q]) : x = <<"seen", <<q, n>>>> /\ seen[q][n] = j
        BY <2>2, SeenMember
      <3>2. PICK n \in 1..Len(seen[q]) : x = <<"seen", <<q, n>>>> /\ seen[q][n] = j
        BY <3>1
      <3>3. n \in 1..Len(seen'[q]) /\ seen'[q][n] = j
        BY <3>2, <1>1, <1>4, <1>5
      <3>4. QED
        BY <3>2, <3>3, <1>2, SeenMemberNext
    <2>3. ASSUME j = k, x = <<"seen", <<p, e>>>>
          PROVE  x \in SeenPlaces(j)'
      <3>1. e \in 1..Len(seen'[p])
        BY <1>3, <1>4
      <3>2. QED
        BY <2>3, <3>1, <1>2, <1>4, SeenMemberNext
    <2>4. QED
      BY <2>1, <2>2, <2>3
  <1>7. QED
    BY <1>6

LEMMA SeenLess ==
  ASSUME TypeOK, site' = site, NEW p \in Port, NEW e, e = Len(seen[p]), e > 0,
         NEW k, k = seen[p][e],
         seen'[p] = SubSeq(seen[p], 1, e - 1), \A q \in Port : q # p => seen'[q] = seen[q]
  PROVE  /\ <<"seen", <<p, e>>>> \in SeenPlaces(k)
         /\ \A j : SeenPlaces(j)' = SeenPlaces(j) \ (IF j = k THEN {<<"seen", <<p, e>>>>} ELSE {})
  <1>1. \A q \in Port : seen'[q] = IF q = p THEN SubSeq(seen[p], 1, e - 1) ELSE seen[q]
    OBVIOUS
  <1>2. Port' = Port
    BY SameSite
  <1>3. seen[p] \in Seq(Nat) /\ e \in Nat
    BY DEF TypeOK
  <1>4. Len(seen'[p]) = e - 1 /\ \A n \in 1..(e - 1) : seen'[p][n] = seen[p][n]
    BY <1>3, FrontFacts
  <1>5. ASSUME NEW n
        PROVE  n \in 1..(e - 1) <=> n \in 1..e /\ n # e
    BY <1>3
  <1>6. <<"seen", <<p, e>>>> \in SeenPlaces(k)
    <2>1. e \in 1..Len(seen[p])
      BY <1>3
    <2>2. QED
      BY <2>1, SeenMember
  <1>7. ASSUME NEW j, NEW x
        PROVE  x \in SeenPlaces(j)' <=> x \in SeenPlaces(j) /\ ~(j = k /\ x = <<"seen", <<p, e>>>>)
    <2>1. ASSUME x \in SeenPlaces(j)'
          PROVE  x \in SeenPlaces(j) /\ x # <<"seen", <<p, e>>>>
      <3>1. PICK q \in Port : \E n \in 1..Len(seen'[q]) : x = <<"seen", <<q, n>>>> /\ seen'[q][n] = j
        BY <2>1, <1>2, SeenMemberNext
      <3>2. PICK n \in 1..Len(seen'[q]) : x = <<"seen", <<q, n>>>> /\ seen'[q][n] = j
        BY <3>1
      <3>3. n \in 1..Len(seen[q]) /\ seen[q][n] = j /\ ~(q = p /\ n = e)
        BY <3>2, <1>1, <1>4, <1>5
      <3>4. x \in SeenPlaces(j)
        BY <3>2, <3>3, SeenMember
      <3>5. QED
        BY <3>2, <3>3, <3>4
    <2>2. ASSUME x \in SeenPlaces(j), ~(j = k /\ x = <<"seen", <<p, e>>>>)
          PROVE  x \in SeenPlaces(j)'
      <3>1. PICK q \in Port : \E n \in 1..Len(seen[q]) : x = <<"seen", <<q, n>>>> /\ seen[q][n] = j
        BY <2>2, SeenMember
      <3>2. PICK n \in 1..Len(seen[q]) : x = <<"seen", <<q, n>>>> /\ seen[q][n] = j
        BY <3>1
      <3>3. ~(q = p /\ n = e)
        BY <2>2, <3>2
      <3>4. n \in 1..Len(seen'[q]) /\ seen'[q][n] = j
        BY <3>2, <3>3, <1>1, <1>4, <1>5
      <3>5. QED
        BY <3>2, <3>4, <1>2, SeenMemberNext
    <2>3. QED
      BY <2>1, <2>2
  <1>8. QED
    BY <1>6, <1>7

\* Nothing else changes the places of a kind.
LEMMA PlacesSame ==
  ASSUME site' = site
  PROVE  /\ mailbox' = mailbox => \A j : MailboxPlaces(j)' = MailboxPlaces(j)
         /\ stash' = stash => \A j : StashPlaces(j)' = StashPlaces(j)
         /\ rx' = rx => \A j : GivenBackPlaces(j)' = GivenBackPlaces(j)
         /\ seen' = seen => \A j : SeenPlaces(j)' = SeenPlaces(j)
  <1>1. Port' = Port /\ Role' = Role
    BY SameSite
  <1>2. mailbox' = mailbox => \A j : MailboxPlaces(j)' = MailboxPlaces(j)
    BY DEF MailboxPlaces
  <1>3. stash' = stash => \A j : StashPlaces(j)' = StashPlaces(j)
    BY <1>1 DEF StashPlaces
  <1>4. rx' = rx => \A j : GivenBackPlaces(j)' = GivenBackPlaces(j)
    BY <1>1 DEF GivenBackPlaces
  <1>5. seen' = seen => \A j : SeenPlaces(j)' = SeenPlaces(j)
    BY <1>1 DEF SeenPlaces
  <1>6. QED
    BY <1>2, <1>3, <1>4, <1>5

\* A step that moves no frame, one that moves frame k from place a to place b.
LEMMA NoMove ==
  ASSUME OneEach, \A j : Places(j)' = Places(j), accepted' = accepted
  PROVE  OneEach' /\ Lost' = Lost
  BY DEF OneEach, Lost

LEMMA Move ==
  ASSUME OneEach, NEW k \in Nat, NEW a, NEW b, a \in Places(k), accepted' = accepted,
         \A j : j # k => Places(j)' = Places(j),
         Places(k)' = (Places(k) \ {a}) \cup {b}
  PROVE  OneEach' /\ Lost' = Lost
  <1>1. Places(k)' = {b} /\ Places(k) # {} /\ k \in accepted
    BY DEF OneEach
  <1>2. OneEach'
    BY <1>1 DEF OneEach
  <1>3. Lost' = Lost
    BY <1>1 DEF Lost
  <1>4. QED
    BY <1>2, <1>3

\* The Baker placement: a frame crosses to the other core.
LEMMA Crosses ==
  ASSUME TypeOK, OfferedInv, OneRolePerCore, NEW p \in Port, NEW f \in Frame, OwnFrame(p, f)
  PROVE  CoreOf[f.to] # HostOf(p)
  <1>1. f.from # f.to /\ f.from = RoleOf(p)
    BY DEF OwnFrame, Original, OfferedInv
  <1>2. f.from \in Role /\ f.to \in Role /\ HostOf(p) = CoreOf[RoleOf(p)]
    BY FrameFacts, PortFacts
  <1>3. QED
    BY <1>1, <1>2 DEF OneRolePerCore

\* The cores that stopped with Capacity stay stopped.
LEMMA LossCount ==
  ASSUME TypeOK, Cardinality(Lost) <= Cardinality(Stopped),
         NEW k, NEW c \in Core, c \notin Stopped, Lost' = Lost \cup {k}, Stopped' = Stopped \cup {c}
  PROVE  Cardinality(Lost') <= Cardinality(Stopped')
  <1>1. IsFiniteSet(Lost)
    <2>1. Lost \subseteq 1..Len(offered) /\ Len(offered) \in Nat
      <3>1. Lost \subseteq accepted
        BY DEF Lost
      <3>2. accepted \subseteq 1..Len(offered) /\ Len(offered) \in Nat
        BY DEF TypeOK
      <3>3. QED
        BY <3>1, <3>2
    <2>2. IsFiniteSet(1..Len(offered))
      BY <2>1, FS_Interval
    <2>3. QED
      BY <2>1, <2>2, FS_Subset
  <1>2. IsFiniteSet(Stopped)
    <2>1. IsFiniteSet(Core)
      <3>1. Core = 0..1
        BY DEF Core
      <3>2. \A a, b \in Int : IsFiniteSet(a..b)
        BY FS_Interval
      <3>3. \E a, b \in Int : Core = a..b
        BY SMTT(40), <3>1
      <3>4. QED
        BY <3>2, <3>3
    <2>2. QED
      BY <2>1, FS_Subset DEF Stopped
  <1>3. Cardinality(Stopped') = Cardinality(Stopped) + 1 /\ Cardinality(Stopped) \in Nat
    BY <1>2, FS_AddElement, FS_CardinalityType
  <1>4. Cardinality(Lost') \in {Cardinality(Lost), Cardinality(Lost) + 1} /\ Cardinality(Lost) \in Nat
    BY <1>1, FS_AddElement, FS_CardinalityType
  <1>5. QED
    BY <1>3, <1>4

\* The operations of the carrier keep a frame in one place.
LEMMA OnceStep ==
  ASSUME CarrierInv, OneRolePerCore, OneEach, Cardinality(Lost) <= Cardinality(Stopped), [Next]_vars
  PROVE  OneEach' /\ Cardinality(Lost') <= Cardinality(Stopped')
  <1> USE DEF registry, hist
  <1>c. TypeOK /\ OfferedInv /\ AttachInv /\ SendInv /\ HeldInv /\ RxInv /\ BusyInv /\ UnderwayInv
        /\ RightAddressee
    BY DEF CarrierInv
  <1>0. site' = site
    BY DEF Next, vars, BeginSend, PollSendLocal, PollSendRemote, CancelSend, PollRecvRequeued,
           PollRecvStash, PollRecvLoop, Requeue, TakeFrame, TakeNone, DeadlineExpired
  <1>p. /\ mailbox' = mailbox => \A j : MailboxPlaces(j)' = MailboxPlaces(j)
        /\ stash' = stash => \A j : StashPlaces(j)' = StashPlaces(j)
        /\ rx' = rx => \A j : GivenBackPlaces(j)' = GivenBackPlaces(j)
        /\ seen' = seen => \A j : SeenPlaces(j)' = SeenPlaces(j)
    BY <1>0, PlacesSame
  <1>u. ASSUME \A j : Places(j)' = Places(j), accepted' = accepted, fault' = fault
        PROVE  OneEach' /\ Cardinality(Lost') <= Cardinality(Stopped')
    <2>1. Stopped' = Stopped
      BY <1>u DEF Stopped
    <2>2. QED
      BY <1>u, <2>1, NoMove
  <1>m. ASSUME NEW k \in Nat, NEW a, NEW b, a \in Places(k), accepted' = accepted, fault' = fault,
               \A j : j # k => Places(j)' = Places(j),
               Places(k)' = (Places(k) \ {a}) \cup {b}
        PROVE  OneEach' /\ Cardinality(Lost') <= Cardinality(Stopped')
    <2>1. Stopped' = Stopped
      BY <1>m DEF Stopped
    <2>2. OneEach' /\ Lost' = Lost
      BY <1>m, Move
    <2>3. QED
      BY <2>1, <2>2
  <1>1. ASSUME NEW p \in Port, NEW to \in Role, BeginSend(p, to)
        PROVE  OneEach' /\ Cardinality(Lost') <= Cardinality(Stopped')
    <2>1. mailbox' = mailbox /\ stash' = stash /\ rx' = rx /\ seen' = seen
          /\ accepted' = accepted /\ fault' = fault
      BY <1>1 DEF BeginSend
    <2>2. QED
      BY <2>1, <1>p, <1>u DEF Places
  <1>2. ASSUME NEW p \in Port, PollSendLocal(p)
        PROVE  FALSE
    <2>1. PICK f \in Frame : f = outgoing[p]
      BY <1>2, <1>c DEF PollSendLocal, TypeOK
    <2>2. OwnFrame(p, f) /\ AttachedOn(f.to, HostOf(p))
      BY <1>2, <1>c, <2>1 DEF PollSendLocal, SendInv
    <2>3. f.to \in Role /\ HostOf(p) \in Core
      BY <1>c, FrameFacts, PortFacts
    <2>4. CoreOf[f.to] = HostOf(p)
      BY <1>c, <2>2, <2>3 DEF AttachInv
    <2>5. QED
      BY <1>c, <2>2, <2>4, Crosses
  <1>3. ASSUME NEW p \in Port, PollSendRemote(p)
        PROVE  OneEach' /\ Cardinality(Lost') <= Cardinality(Stopped')
    <2>1. PICK f \in Frame : f = outgoing[p]
      BY <1>3, <1>c DEF PollSendRemote, TypeOK
    <2>2. PICK c \in Core : c = HostOf(p)
      BY <1>c, PortFacts
    <2>3. stash' = stash /\ rx' = rx /\ seen' = seen /\ fault' = fault
      BY <1>3 DEF PollSendRemote
    <2>4. CASE mailbox[c] # None
      <3>1. mailbox' = mailbox /\ accepted' = accepted
        BY <1>3, <2>2, <2>4 DEF PollSendRemote
      <3>2. QED
        BY <2>3, <3>1, <1>p, <1>u DEF Places
    <2>5. CASE mailbox[c] = None
      <3>1. pending[p] = None \/ pending[p] = f
        <4>1. SUFFICES ASSUME pending[p] # None PROVE pending[p] = f
          OBVIOUS
        <4>2. pending[p] \in Frame /\ OwnFrame(p, pending[p])
          BY <4>1, <1>c DEF TypeOK, SendInv
        <4>3. CoreOf[pending[p].to] # HostOf(p)
          BY <1>c, <4>2, Crosses
        <4>4. QED
          BY <1>c, <2>1, <4>1, <4>3 DEF SendInv
      <3>2. mailbox' = [mailbox EXCEPT ![c] = f] /\ accepted' = accepted \cup {f.id}
        BY <1>3, <2>1, <2>2, <2>5, <3>1 DEF PollSendRemote
      <3>3. \A j : MailboxPlaces(j)' = MailboxPlaces(j) \cup (IF j = f.id THEN {<<"mailbox", c>>} ELSE {})
        BY <1>c, <2>5, <3>2, MailboxFilled
      <3>4. f.id \in Nat /\ f.id \notin accepted /\ Places(f.id) = {}
        BY <1>3, <1>c, <2>1, FrameFacts DEF PollSendRemote, UnderwayInv, OneEach
      <3>5. \A j : Places(j)' = Places(j) \cup (IF j = f.id THEN {<<"mailbox", c>>} ELSE {})
        BY <2>3, <3>3, <1>p DEF Places
      <3>6. OneEach'
        BY <3>2, <3>4, <3>5 DEF OneEach
      <3>7. Lost' = Lost /\ Stopped' = Stopped
        BY <2>3, <3>2, <3>4, <3>5 DEF Lost, Stopped
      <3>8. QED
        BY <3>6, <3>7
    <2>6. QED
      BY <2>4, <2>5
  <1>4. ASSUME NEW p \in Port, CancelSend(p)
        PROVE  OneEach' /\ Cardinality(Lost') <= Cardinality(Stopped')
    <2>1. mailbox' = mailbox /\ stash' = stash /\ rx' = rx /\ seen' = seen
          /\ accepted' = accepted /\ fault' = fault
      BY <1>4 DEF CancelSend
    <2>2. QED
      BY <2>1, <1>p, <1>u DEF Places
  <1>5. ASSUME NEW p \in Port, PollRecvRequeued(p)
        PROVE  OneEach' /\ Cardinality(Lost') <= Cardinality(Stopped')
    <2>1. PICK f \in Frame : f = rx[p].frame
      BY <1>5, <1>c, RequeuedEffect
    <2>2. PICK k \in Nat : k = f.id
      BY <1>c, FrameFacts
    <2>3. PICK e : e = Len(seen[p]) + 1
      OBVIOUS
    <2>4. rx[p].frame # None /\ ~rx[p].delivered
      BY <1>5, <1>c DEF PollRecvRequeued, RxInv
    <2>5. /\ rx'[p].delivered /\ seen'[p] = Append(seen[p], k)
          /\ \A q \in Port : q # p => rx'[q] = rx[q] /\ seen'[q] = seen[q]
      BY <1>5, <1>c, <2>1, <2>2, RequeuedEffect
    <2>6. /\ <<"requeued", p>> \in GivenBackPlaces(k)
          /\ \A j : GivenBackPlaces(j)' = GivenBackPlaces(j) \ (IF j = k THEN {<<"requeued", p>>} ELSE {})
      BY <1>0, <2>1, <2>2, <2>4, <2>5, GivenBackTaken
    <2>7. \A j : SeenPlaces(j)' = SeenPlaces(j) \cup (IF j = k THEN {<<"seen", <<p, e>>>>} ELSE {})
      BY <1>0, <1>c, <2>3, <2>5, SeenMore
    <2>8. mailbox' = mailbox /\ stash' = stash /\ accepted' = accepted /\ fault' = fault
      BY <1>5 DEF PollRecvRequeued
    <2>9. PICK a : a = <<"requeued", p>>
      OBVIOUS
    <2>10. PICK b : b = <<"seen", <<p, e>>>>
      OBVIOUS
    <2>11. a[1] = "requeued"
      BY <2>9
    <2>12. a \notin MailboxPlaces(k) /\ a \notin StashPlaces(k) /\ a \notin SeenPlaces(k)
      BY <2>11, PlaceKinds
    <2>13. a \in Places(k) /\ Places(k)' = (Places(k) \ {a}) \cup {b}
      BY <2>6, <2>7, <2>8, <2>9, <2>10, <2>12, <1>p DEF Places
    <2>14. \A j : j # k => Places(j)' = Places(j)
      BY <2>6, <2>7, <2>8, <1>p DEF Places
    <2>15. QED
      BY <2>8, <2>13, <2>14, <1>m
  <1>6. ASSUME NEW p \in Port, PollRecvStash(p)
        PROVE  OneEach' /\ Cardinality(Lost') <= Cardinality(Stopped')
    <2>1. PICK c \in Core : c = HostOf(p)
      BY <1>c, PortFacts
    <2>2. PICK r \in Role : r = RoleOf(p)
      BY <1>c, PortFacts
    <2>3. PICK f \in Frame : f = stash[c][r]
      BY <1>6, <1>c, <2>1, <2>2 DEF PollRecvStash, TypeOK
    <2>4. PICK k \in Nat : k = f.id
      BY <1>c, FrameFacts
    <2>5. f # None
      BY <1>c, FrameFacts
    <2>6. mailbox' = mailbox /\ accepted' = accepted /\ fault' = fault
      BY <1>6 DEF PollRecvStash
    <2>7. rx[p].frame = None \/ rx[p].delivered
      BY <1>6 DEF PollRecvStash, Fresh
    <2>8. CASE FrameTargetsRxLane(f, p)
      <3>1. PICK e : e = Len(seen[p]) + 1
        OBVIOUS
      <3>2. stash' = [stash EXCEPT ![c][r] = None] /\ Stage(p, f)
        BY <1>6, <2>1, <2>2, <2>3, <2>8 DEF PollRecvStash
      <3>3. /\ rx'[p].delivered /\ seen'[p] = Append(seen[p], k)
            /\ \A q \in Port : q # p => rx'[q] = rx[q] /\ seen'[q] = seen[q]
        BY <1>c, <2>4, <3>2, StageEffect
      <3>4. \A j : GivenBackPlaces(j)' = GivenBackPlaces(j)
        BY <1>0, <2>7, <3>3, GivenBackSame
      <3>5. \A j : SeenPlaces(j)' = SeenPlaces(j) \cup (IF j = k THEN {<<"seen", <<p, e>>>>} ELSE {})
        BY <1>0, <1>c, <3>1, <3>3, SeenMore
      <3>6. /\ <<"stash", <<c, r>>>> \in StashPlaces(k)
            /\ \A j : StashPlaces(j)' = StashPlaces(j) \ (IF j = k THEN {<<"stash", <<c, r>>>>} ELSE {})
        <4>0. TypeOK /\ stash' = [stash EXCEPT ![c][r] = None]
          BY <1>c, <3>2
        <4>1. \A d \in Core, q \in Role : stash'[d][q] = IF d = c /\ q = r THEN None ELSE stash[d][q]
          BY <4>0, StashWrite
        <4>2. /\ <<"stash", <<c, r>>>> \in StashPlaces(f.id)
              /\ \A j : StashPlaces(j)' =
                          StashPlaces(j) \ (IF j = f.id THEN {<<"stash", <<c, r>>>>} ELSE {})
          BY <1>0, <2>3, <2>5, <4>0, <4>1, StashEmptied
        <4>3. QED
          BY <2>4, <4>2
      <3>7. PICK a : a = <<"stash", <<c, r>>>>
        OBVIOUS
      <3>8. PICK b : b = <<"seen", <<p, e>>>>
        OBVIOUS
      <3>9. a[1] = "stash"
        BY <3>7
      <3>10. a \notin MailboxPlaces(k) /\ a \notin GivenBackPlaces(k) /\ a \notin SeenPlaces(k)
        BY <3>9, PlaceKinds
      <3>11. a \in Places(k) /\ Places(k)' = (Places(k) \ {a}) \cup {b}
        BY <2>6, <3>4, <3>5, <3>6, <3>7, <3>8, <3>10, <1>p DEF Places
      <3>12. \A j : j # k => Places(j)' = Places(j)
        BY <2>6, <3>4, <3>5, <3>6, <1>p DEF Places
      <3>13. QED
        BY <2>6, <3>11, <3>12, <1>m
    <2>9. CASE ~FrameTargetsRxLane(f, p)
      <3>1. stash' = stash /\ seen' = seen /\ rx' = [rx EXCEPT ![p] = Cleared(p)]
        BY <1>6, <2>1, <2>2, <2>3, <2>9 DEF PollRecvStash
      <3>2. rx'[p].frame = None /\ \A q \in Port : q # p => rx'[q] = rx[q]
        BY <1>c, <3>1, ClearEffect
      <3>3. \A j : GivenBackPlaces(j)' = GivenBackPlaces(j)
        BY <1>0, <2>7, <3>2, GivenBackSame
      <3>4. QED
        BY <2>6, <3>1, <3>3, <1>p, <1>u DEF Places
    <2>10. QED
      BY <2>8, <2>9
  <1>7. ASSUME NEW p \in Port, PollRecvLoop(p)
        PROVE  OneEach' /\ Cardinality(Lost') <= Cardinality(Stopped')
    <2>1. mailbox' = mailbox /\ stash' = stash /\ seen' = seen /\ accepted' = accepted
          /\ fault' = fault /\ rx' = [rx EXCEPT ![p] = Cleared(p)]
      BY <1>7 DEF PollRecvLoop
    <2>2. rx[p].frame = None \/ rx[p].delivered
      BY <1>7 DEF PollRecvLoop, Fresh
    <2>3. rx'[p].frame = None /\ \A q \in Port : q # p => rx'[q] = rx[q]
      BY <1>c, <2>1, ClearEffect
    <2>4. \A j : GivenBackPlaces(j)' = GivenBackPlaces(j)
      BY <1>0, <2>2, <2>3, GivenBackSame
    <2>5. QED
      BY <2>1, <2>4, <1>p, <1>u DEF Places
  <1>8. ASSUME NEW p \in Port, Requeue(p)
        PROVE  OneEach' /\ Cardinality(Lost') <= Cardinality(Stopped')
    <2>1. PICK f \in Frame : f = rx[p].frame
      BY <1>8, <1>c, RequeueEffect
    <2>2. PICK k \in Nat : k = f.id
      BY <1>c, FrameFacts
    <2>3. PICK e : e = Len(seen[p])
      OBVIOUS
    <2>4. rx[p].frame # None /\ rx'[p].frame = rx[p].frame /\ ~rx'[p].delivered
          /\ \A q \in Port : q # p => rx'[q] = rx[q] /\ seen'[q] = seen[q]
      BY <1>8, <1>c, RequeueEffect DEF Requeue
    <2>5. mailbox' = mailbox /\ stash' = stash /\ accepted' = accepted /\ fault' = fault
      BY <1>8 DEF Requeue
    <2>6. CASE rx[p].delivered
      <3>1. seen'[p] = SubSeq(seen[p], 1, e - 1)
        BY <1>8, <1>c, <2>3, <2>6, RequeueEffect
      <3>2. e > 0 /\ k = seen[p][e]
        BY <1>c, <2>1, <2>2, <2>3, <2>4, <2>6 DEF RxInv
      <3>3. /\ <<"seen", <<p, e>>>> \in SeenPlaces(k)
            /\ \A j : SeenPlaces(j)' = SeenPlaces(j) \ (IF j = k THEN {<<"seen", <<p, e>>>>} ELSE {})
        BY <1>0, <1>c, <2>3, <2>4, <3>1, <3>2, SeenLess
      <3>4. \A j : GivenBackPlaces(j)' = GivenBackPlaces(j) \cup (IF j = k THEN {<<"requeued", p>>} ELSE {})
        BY <1>0, <2>1, <2>2, <2>4, <2>6, GivenBackAgain
      <3>5. PICK a : a = <<"seen", <<p, e>>>>
        OBVIOUS
      <3>6. PICK b : b = <<"requeued", p>>
        OBVIOUS
      <3>7. a[1] = "seen"
        BY <3>5
      <3>8. a \notin MailboxPlaces(k) /\ a \notin StashPlaces(k) /\ a \notin GivenBackPlaces(k)
        BY <3>7, PlaceKinds
      <3>9. a \in Places(k) /\ Places(k)' = (Places(k) \ {a}) \cup {b}
        BY <2>5, <3>3, <3>4, <3>5, <3>6, <3>8, <1>p DEF Places
      <3>10. \A j : j # k => Places(j)' = Places(j)
        BY <2>5, <3>3, <3>4, <1>p DEF Places
      <3>11. QED
        BY <2>5, <3>9, <3>10, <1>m
    <2>7. CASE ~rx[p].delivered
      <3>1. seen' = seen
        <4>1. \A q \in Port : seen'[q] = seen[q]
          BY <1>8, <1>c, <2>7, RequeueEffect
        <4>2. QED
          BY <1>8, <1>c, <4>1, <2>7 DEF Requeue, TypeOK
      <3>2. \A j : GivenBackPlaces(j)' = GivenBackPlaces(j)
        <4>1. Port' = Port
          BY <1>0, SameSite
        <4>2. \A q \in Port : rx'[q].frame = rx[q].frame /\ rx'[q].delivered = rx[q].delivered
          BY <1>8, <1>c, <2>7 DEF Requeue, TypeOK, RxState
        <4>3. QED
          BY <4>1, <4>2 DEF GivenBackPlaces
      <3>3. QED
        BY <2>5, <3>1, <3>2, <1>p, <1>u DEF Places
    <2>8. QED
      BY <2>6, <2>7
  <1>9. ASSUME NEW c \in Core, TakeFrame(c)
        PROVE  OneEach' /\ Cardinality(Lost') <= Cardinality(Stopped')
    <2>0. Peer(c) \in Core
      BY PeerFacts
    <2>1. PICK d \in Core : d = Peer(c)
      BY <2>0
    <2>2. PICK p \in Port : p = busy[c]
      BY <1>9, <1>c DEF TakeFrame, TypeOK
    <2>3. PICK f \in Frame : f = mailbox[d]
      BY <1>9, <1>c, <2>1 DEF TakeFrame, TypeOK
    <2>4. PICK k \in Nat : k = f.id
      BY <1>c, FrameFacts
    <2>5. f # None /\ f.to \in Role
      BY <1>c, FrameFacts
    <2>6. mailbox' = [mailbox EXCEPT ![d] = None] /\ accepted' = accepted
      BY <1>9, <2>1 DEF TakeFrame
    <2>7. /\ <<"mailbox", d>> \in MailboxPlaces(k)
          /\ \A j : MailboxPlaces(j)' = MailboxPlaces(j) \ (IF j = k THEN {<<"mailbox", d>>} ELSE {})
      BY <1>c, <2>3, <2>4, <2>5, <2>6, MailboxEmptied
    <2>8. PICK a : a = <<"mailbox", d>>
      OBVIOUS
    <2>9. a[1] = "mailbox"
      BY <2>8
    <2>10. a \notin StashPlaces(k) /\ a \notin GivenBackPlaces(k) /\ a \notin SeenPlaces(k)
      BY <2>9, PlaceKinds
    <2>11. rx[p].frame = None /\ fault[c] = "none"
      BY <1>9, <1>c, <2>2 DEF TakeFrame, BusyInv, UnderwayInv
    <2>12. CASE f.to = RoleOf(p) /\ FrameTargetsRxLane(f, p)
      <3>1. PICK e : e = Len(seen[p]) + 1
        OBVIOUS
      <3>2. Stage(p, f) /\ stash' = stash /\ fault' = fault
        BY <1>9, <2>1, <2>2, <2>3, <2>12 DEF TakeFrame
      <3>3. /\ rx'[p].delivered /\ seen'[p] = Append(seen[p], k)
            /\ \A q \in Port : q # p => rx'[q] = rx[q] /\ seen'[q] = seen[q]
        BY <1>c, <2>4, <3>2, StageEffect
      <3>4. \A j : GivenBackPlaces(j)' = GivenBackPlaces(j)
        BY <1>0, <2>11, <3>3, GivenBackSame
      <3>5. \A j : SeenPlaces(j)' = SeenPlaces(j) \cup (IF j = k THEN {<<"seen", <<p, e>>>>} ELSE {})
        BY <1>0, <1>c, <3>1, <3>3, SeenMore
      <3>6. PICK b : b = <<"seen", <<p, e>>>>
        OBVIOUS
      <3>7. a \in Places(k) /\ Places(k)' = (Places(k) \ {a}) \cup {b}
        BY <2>7, <2>8, <2>10, <3>2, <3>4, <3>5, <3>6, <1>p DEF Places
      <3>8. \A j : j # k => Places(j)' = Places(j)
        BY <2>7, <3>2, <3>4, <3>5, <1>p DEF Places
      <3>9. QED
        BY <2>6, <3>2, <3>7, <3>8, <1>m
    <2>13. CASE ~(f.to = RoleOf(p) /\ FrameTargetsRxLane(f, p)) /\ stash[c][f.to] = None
      <3>1. stash' = [stash EXCEPT ![c][f.to] = f] /\ rx' = rx /\ seen' = seen /\ fault' = fault
        BY <1>9, <2>1, <2>2, <2>3, <2>13 DEF TakeFrame
      <3>2. PICK r \in Role : r = f.to
        BY <2>5
      <3>3. \A j : StashPlaces(j)' = StashPlaces(j) \cup (IF j = k THEN {<<"stash", <<c, r>>>>} ELSE {})
        <4>0. TypeOK /\ stash' = [stash EXCEPT ![c][r] = f] /\ stash[c][r] = None
          BY <1>c, <2>13, <3>1, <3>2
        <4>1. \A b \in Core, q \in Role : stash'[b][q] = IF b = c /\ q = r THEN f ELSE stash[b][q]
          BY <4>0, StashWrite
        <4>2. \A j : StashPlaces(j)' =
                       StashPlaces(j) \cup (IF j = f.id THEN {<<"stash", <<c, r>>>>} ELSE {})
          BY <1>0, <4>0, <4>1, StashFilled
        <4>3. QED
          BY <2>4, <4>2
      <3>4. PICK b : b = <<"stash", <<c, r>>>>
        OBVIOUS
      <3>5. a \in Places(k) /\ Places(k)' = (Places(k) \ {a}) \cup {b}
        BY <2>7, <2>8, <2>10, <3>1, <3>3, <3>4, <1>p DEF Places
      <3>6. \A j : j # k => Places(j)' = Places(j)
        BY <2>7, <3>1, <3>3, <1>p DEF Places
      <3>7. QED
        BY <2>6, <3>1, <3>5, <3>6, <1>m
    <2>14. CASE ~(f.to = RoleOf(p) /\ FrameTargetsRxLane(f, p)) /\ stash[c][f.to] # None
      <3>1. stash' = stash /\ rx' = rx /\ seen' = seen /\ fault' = [fault EXCEPT ![c] = "Capacity"]
        BY <1>9, <2>1, <2>2, <2>3, <2>14 DEF TakeFrame, Fail
      <3>2. \A j : Places(j)' = Places(j) \ (IF j = k THEN {a} ELSE {})
        BY <2>7, <2>8, <2>10, <3>1, <1>p DEF Places
      <3>3. a \in Places(k)
        BY <2>7, <2>8 DEF Places
      <3>4. k \in accepted /\ Places(k)' = {}
        BY <3>2, <3>3 DEF OneEach
      <3>5. OneEach'
        BY <2>6, <3>2, <3>4 DEF OneEach
      <3>6. Lost' = Lost \cup {k}
        BY <2>6, <3>2, <3>4 DEF Lost
      <3>7. Stopped' = Stopped \cup {c} /\ c \notin Stopped
        BY <1>c, <2>11, <3>1 DEF Stopped, TypeOK
      <3>8. QED
        BY <1>c, <3>5, <3>6, <3>7, LossCount
    <2>15. QED
      BY <2>12, <2>13, <2>14
  <1>10. ASSUME NEW c \in Core, TakeNone(c)
         PROVE  OneEach' /\ Cardinality(Lost') <= Cardinality(Stopped')
    <2>1. mailbox' = mailbox /\ stash' = stash /\ rx' = rx /\ seen' = seen
          /\ accepted' = accepted /\ fault' = fault
      BY <1>10 DEF TakeNone
    <2>2. QED
      BY <2>1, <1>p, <1>u DEF Places
  <1>11. ASSUME NEW c \in Core, DeadlineExpired(c)
         PROVE  OneEach' /\ Cardinality(Lost') <= Cardinality(Stopped')
    <2>1. mailbox' = mailbox /\ stash' = stash /\ rx' = rx /\ seen' = seen
          /\ accepted' = accepted /\ fault' = [fault EXCEPT ![c] = "Deadline"]
      BY <1>11 DEF DeadlineExpired, Fail
    <2>2. fault[c] = "none"
      BY <1>11, <1>c DEF DeadlineExpired, UnderwayInv
    <2>3. Stopped' = Stopped
      BY <1>c, <2>1, <2>2 DEF Stopped, TypeOK
    <2>4. \A j : Places(j)' = Places(j)
      BY <2>1, <1>p DEF Places
    <2>5. QED
      BY <2>1, <2>3, <2>4, NoMove
  <1>12. CASE UNCHANGED vars
    <2>1. mailbox' = mailbox /\ stash' = stash /\ rx' = rx /\ seen' = seen
          /\ accepted' = accepted /\ fault' = fault
      BY <1>12 DEF vars
    <2>2. QED
      BY <2>1, <1>p, <1>u DEF Places
  <1>13. QED
    BY <1>1, <1>2, <1>3, <1>4, <1>5, <1>6, <1>7, <1>8, <1>9, <1>10, <1>11, <1>12 DEF Next

LEMMA OnceInit == Init => OnceInv
  <1> SUFFICES ASSUME Init PROVE OnceInv
    OBVIOUS
  <1>1. \A j : MailboxPlaces(j) = {} /\ GivenBackPlaces(j) = {}
    BY DEF Init, MailboxPlaces, GivenBackPlaces, EmptyRx
  <1>2. \A j : StashPlaces(j) = {}
    <2>1. \A c \in Core, r \in Role : stash[c][r] = None
      BY DEF Init
    <2>2. QED
      BY <2>1, StashMember
  <1>3. \A j : SeenPlaces(j) = {}
    <2>1. \A p \in Port : 1..Len(seen[p]) = {}
      BY DEF Init
    <2>2. QED
      BY <2>1, SeenMember
  <1>4. \A j : Places(j) = {}
    BY <1>1, <1>2, <1>3 DEF Places
  <1>5. OneEach
    BY <1>4 DEF OneEach
  <1>6. Lost = {} /\ Stopped = {}
    BY DEF Init, Lost, Stopped
  <1>7. QED
    BY <1>5, <1>6, FS_EmptySet DEF OnceInv

\* What OnceInv says of the frames offered so far.
LEMMA OnceCounts == TypeOK /\ OnceInv => ExactlyOnce
  <1> SUFFICES ASSUME TypeOK, OnceInv, OneRolePerCore
               PROVE  /\ \A i \in 1..Len(offered) :
                           Cardinality(Places(i)) <= IF i \in accepted THEN 1 ELSE 0
                      /\ Cardinality(Lost) <= Cardinality(Stopped)
    BY DEF ExactlyOnce
  <1>1. OneEach /\ Cardinality(Lost) <= Cardinality(Stopped)
    BY DEF OnceInv
  <1>2. ASSUME NEW i \in 1..Len(offered)
        PROVE  Cardinality(Places(i)) <= IF i \in accepted THEN 1 ELSE 0
    <2>1. i \in Nat
      BY DEF TypeOK
    <2>2. CASE Places(i) = {}
      BY <2>2, FS_EmptySet
    <2>3. CASE Places(i) # {}
      <3>1. PICK x : x \in Places(i)
        BY <2>3
      <3>2. Places(i) = {x} /\ i \in accepted
        BY <1>1, <2>1, <3>1 DEF OneEach
      <3>3. Cardinality({x}) = 1
        BY FS_Singleton
      <3>4. QED
        BY <3>2, <3>3
    <2>4. QED
      BY <2>2, <2>3
  <1>3. QED
    BY <1>1, <1>2

\* Where each core hosts one role, the carrier loses and duplicates nothing,
\* whatever is stashed, requeued, cancelled or kept waiting, but for one frame
\* for each core that stopped with a Capacity error.
THEOREM CarriesExactlyOnce == Spec => []ExactlyOnce
  <1>1. Init => CarrierInv /\ InOrder /\ OnceInv
    BY CarrierInit, OnceInit
  <1>2. CarrierInv /\ InOrder /\ OnceInv /\ [Next]_vars => CarrierInv' /\ InOrder' /\ OnceInv'
    <2> SUFFICES ASSUME CarrierInv, InOrder, OnceInv, [Next]_vars
                 PROVE  CarrierInv' /\ InOrder' /\ OnceInv'
      OBVIOUS
    <2>1. CarrierInv' /\ InOrder'
      BY CarrierStep
    <2>2. OneRolePerCore' = OneRolePerCore
      <3>1. site' = site
        BY DEF Next, vars, registry, hist, BeginSend, PollSendLocal, PollSendRemote, CancelSend,
               PollRecvRequeued, PollRecvStash, PollRecvLoop, Requeue, TakeFrame, TakeNone, DeadlineExpired
      <3>2. QED
        BY SMTT(40), <3>1, SameSite
    <2>3. OneRolePerCore => OneEach' /\ Cardinality(Lost') <= Cardinality(Stopped')
      BY OnceStep DEF OnceInv
    <2>4. QED
      BY <2>1, <2>2, <2>3 DEF OnceInv
  <1>3. CarrierInv /\ OnceInv => ExactlyOnce
    BY OnceCounts DEF CarrierInv
  <1>4. QED
    BY <1>1, <1>2, <1>3, PTL DEF Spec
=============================================================================
