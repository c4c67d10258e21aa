----------------------------- MODULE BakerProofs -----------------------------
(***************************************************************************)
(* What holds of waiting on a Baker board: the two cores of a session stay *)
(* in step and lose no wakeup, for a choreography of any length and any    *)
(* shape; and a core that has the alarm to itself is never woken before    *)
(* its time, unless a frame ended an earlier wait and left ALARM0 armed.   *)
(***************************************************************************)
EXTENDS BakerSession, DeadlineAlarm, TLAPS

-----------------------------------------------------------------------------
(* The session of the two cores.                                           *)

\* The two cores are each other's peer.
LEMMA PeerFacts ==
  /\ \A c \in Core : Peer(c) \in Core /\ Peer(c) # c /\ Peer(Peer(c)) = c
  /\ \A c, d \in Core : d # c => d = Peer(c)
  BY DEF Core, Peer

\* A core counts messages in the naturals.
LEMMA ReachedType ==
  ASSUME TypeOK, NEW c \in Core
  PROVE  Reached(c) \in Nat /\ pos[c] \in Nat /\ slot[c] \in Nat
  BY SessionAssumption DEF TypeOK, Reached

\* EvenInv without naming the cores: what the proofs use.
LEMMA EvenPair ==
  EvenInv <=> \A c \in Core : slot[c] = 0 /\ slot[Peer(c)] = 0
                                => Reached(c) = Reached(Peer(c))
  BY DEF EvenInv, Core, Peer

\* The two mailboxes are never full at once: the core that published last
\* would be both one message ahead of its peer and one behind it.
LEMMA OneFull ==
  ASSUME TypeOK, SlotInv, NEW c \in Core, slot[c] # 0
  PROVE  slot[Peer(c)] = 0
  <1>1. Reached(c) \in Nat /\ slot[c] \in Nat /\ slot[Peer(c)] \in Nat
    BY ReachedType, PeerFacts
  <1>2. SUFFICES ASSUME slot[Peer(c)] # 0 PROVE FALSE
    OBVIOUS
  <1>3. Reached(c) = slot[c] + 1 /\ Reached(Peer(c)) = slot[c]
    BY DEF SlotInv
  <1>4. Reached(Peer(c)) = slot[Peer(c)] + 1 /\ Reached(c) = slot[Peer(c)]
    BY <1>2, PeerFacts DEF SlotInv
  <1>5. QED
    BY <1>1, <1>3, <1>4

\* A core about to send finds its peer at the same message: a full mailbox of
\* the peer would hold the message the core is at, which is its own to send.
LEMMA SenderEven ==
  ASSUME TypeOK, SlotInv, EvenInv, NEW c \in Core,
         pc[c] = "poll", Sending(c), slot[c] = 0
  PROVE  slot[Peer(c)] = 0 /\ Reached(Peer(c)) = pos[c]
  <1>1. Reached(c) = pos[c]
    BY DEF Reached
  <1>2. slot[Peer(c)] = 0
    BY <1>1, PeerFacts DEF SlotInv, Sending
  <1>3. QED
    BY <1>1, <1>2, EvenPair

\* A core that finds its peer's mailbox full finds the message it is at.
LEMMA ReceiverFull ==
  ASSUME TypeOK, SlotInv, NEW c \in Core, pc[c] = "poll", slot[Peer(c)] # 0
  PROVE  /\ slot[Peer(c)] = pos[c]
         /\ slot[c] = 0
         /\ Reached(Peer(c)) = pos[c] + 1
  <1>1. Reached(c) = pos[c]
    BY DEF Reached
  <1>2. slot[Peer(c)] = pos[c] /\ Reached(Peer(c)) = pos[c] + 1
    BY <1>1, PeerFacts DEF SlotInv
  <1>3. slot[c] = 0
    BY OneFull, PeerFacts
  <1>4. QED
    BY <1>2, <1>3

-----------------------------------------------------------------------------
\* Before the first poll both cores are at the first message.
LEMMA InvInit == Init => SessionInv
  <1> SUFFICES ASSUME Init PROVE SessionInv
    OBVIOUS
  <1> USE SessionAssumption
  <1>1. TypeOK
    BY DEF Init, TypeOK, PC
  <1>2. SlotInv /\ EvenInv
    BY PeerFacts DEF Init, SlotInv, EvenInv, Reached, Core
  <1>3. RoleInv /\ WakeInv
    BY DEF Init, RoleInv, WakeInv, Waiting
  <1>4. QED
    BY <1>1, <1>2, <1>3 DEF SessionInv

\* A step that leaves the mailboxes, the places in the choreography and what
\* counts as reached alone keeps the cores together.
LEMMA SamePlaces ==
  ASSUME SlotInv, EvenInv, UNCHANGED <<sender, slot>>,
         \A c \in Core : Reached(c)' = Reached(c)
  PROVE  SlotInv' /\ EvenInv'
  <1>1. SlotInv'
    BY PeerFacts DEF SlotInv
  <1>2. EvenInv'
    BY DEF EvenInv, Core
  <1>3. QED
    BY <1>1, <1>2

\* Every step of a core, in a poll of its role task or around WFE, preserves
\* the invariant, wherever the other core is.
LEMMA InvStep == SessionInv /\ [Next]_vars => SessionInv'
  <1> SUFFICES ASSUME SessionInv, [Next]_vars PROVE SessionInv'
    OBVIOUS
  <1> USE SessionAssumption, PeerFacts
  <1> USE DEF SessionInv
  <1>1. ASSUME NEW c \in Core, PollDone(c) PROVE SessionInv'
    <2> USE <1>1 DEF PollDone
    <2>1. TypeOK'
      BY DEF TypeOK, PC
    <2>2. SlotInv' /\ EvenInv'
      BY SamePlaces DEF Reached, TypeOK
    <2>3. RoleInv'
      BY DEF RoleInv, TypeOK, Sending, Receiving
    <2>4. WakeInv'
      BY SMTT(40) DEF WakeInv, Waiting, TypeOK, Sending, Receiving
    <2>5. QED
      BY <2>1, <2>2, <2>3, <2>4
  <1>2. ASSUME NEW c \in Core, SendBusy(c) PROVE SessionInv'
    <2> USE <1>2 DEF SendBusy
    <2>1. TypeOK'
      BY DEF TypeOK, PC
    <2>2. SlotInv' /\ EvenInv'
      BY SamePlaces DEF Reached, TypeOK
    <2>3. RoleInv'
      BY DEF RoleInv, TypeOK, Sending, Receiving
    <2>4. WakeInv'
      BY DEF WakeInv, Waiting, TypeOK, Sending, Receiving
    <2>5. QED
      BY <2>1, <2>2, <2>3, <2>4
  <1>3. ASSUME NEW c \in Core, SignalBusy(c) PROVE SessionInv'
    <2> USE <1>3 DEF SignalBusy, Sev
    <2>1. TypeOK'
      BY DEF TypeOK, PC
    <2>2. SlotInv' /\ EvenInv'
      BY SamePlaces DEF Reached, TypeOK
    <2>3. RoleInv'
      BY DEF RoleInv, TypeOK, Sending, Receiving
    <2>4. WakeInv'
      BY DEF WakeInv
    <2>5. QED
      BY <2>1, <2>2, <2>3, <2>4
  <1>4. ASSUME NEW c \in Core, Publish(c) PROVE SessionInv'
    <2> USE <1>4 DEF Publish
    <2>1. pos[c] \in 1..N
      BY DEF Sending, TypeOK
    <2>2. slot[Peer(c)] = 0 /\ Reached(Peer(c)) = pos[c]
      BY SenderEven
    <2>3. TypeOK'
      BY SMTT(40), <2>1 DEF TypeOK, PC
    <2>4. /\ slot'[c] = pos[c]
          /\ slot'[Peer(c)] = 0
      BY <2>2 DEF TypeOK
    <2>5. /\ Reached(c)' = pos[c] + 1
          /\ Reached(Peer(c))' = pos[c]
      BY <2>2 DEF Reached, TypeOK
    <2>6. SlotInv'
      BY <2>4, <2>5 DEF SlotInv, Sending
    <2>7. EvenInv'
      BY <2>1, <2>4 DEF EvenInv, Core
    <2>8. RoleInv'
      BY DEF RoleInv, TypeOK, Sending, Receiving
    <2>9. WakeInv'
      BY DEF WakeInv, Waiting, TypeOK, Sending, Receiving
    <2>10. QED
      BY <2>3, <2>6, <2>7, <2>8, <2>9
  <1>5. ASSUME NEW c \in Core, SignalPublished(c) PROVE SessionInv'
    <2> USE <1>5 DEF SignalPublished, Sev
    <2>1. pos[c] \in 1..N
      BY DEF RoleInv, Sending, TypeOK
    <2>2. TypeOK'
      <3>1. pos' \in [Core -> 1..(N + 1)]
        BY SMTT(40), <2>1 DEF TypeOK
      <3>2. pc' \in [Core -> PC] /\ event' \in [Core -> BOOLEAN]
        BY DEF TypeOK, PC
      <3>3. QED
        BY <3>1, <3>2 DEF TypeOK
    <2>3. SlotInv' /\ EvenInv'
      BY SamePlaces DEF Reached, TypeOK
    <2>4. RoleInv'
      BY DEF RoleInv, TypeOK, Sending, Receiving
    <2>5. WakeInv'
      BY DEF WakeInv
    <2>6. QED
      BY <2>2, <2>3, <2>4, <2>5
  <1>6. ASSUME NEW c \in Core, RecvEmpty(c) PROVE SessionInv'
    <2> USE <1>6 DEF RecvEmpty
    <2>1. TypeOK'
      BY DEF TypeOK, PC
    <2>2. SlotInv' /\ EvenInv'
      BY SamePlaces DEF Reached, TypeOK
    <2>3. RoleInv'
      BY DEF RoleInv, TypeOK, Sending, Receiving
    <2>4. WakeInv'
      BY DEF WakeInv, Waiting, TypeOK, Sending, Receiving
    <2>5. QED
      BY <2>1, <2>2, <2>3, <2>4
  <1>7. ASSUME NEW c \in Core, Take(c) PROVE SessionInv'
    <2> USE <1>7 DEF Take
    <2>1. /\ slot[Peer(c)] = pos[c]
          /\ slot[c] = 0
          /\ Reached(Peer(c)) = pos[c] + 1
      BY ReceiverFull
    <2>2. TypeOK'
      BY DEF TypeOK, PC
    <2>3. slot'[c] = 0 /\ slot'[Peer(c)] = 0
      BY <2>1 DEF TypeOK
    <2>4. /\ Reached(c)' = pos[c] + 1
          /\ Reached(Peer(c))' = pos[c] + 1
      BY <2>1 DEF Reached, TypeOK
    <2>5. SlotInv'
      BY <2>3 DEF SlotInv
    <2>6. EvenInv'
      BY <2>4 DEF EvenInv, Core, Peer
    <2>7. RoleInv'
      BY <2>1 DEF RoleInv, TypeOK, Sending, Receiving
    <2>8. WakeInv'
      BY <2>1, <2>3 DEF WakeInv, Waiting, TypeOK, Sending, Receiving
    <2>9. QED
      BY <2>2, <2>5, <2>6, <2>7, <2>8
  <1>8. ASSUME NEW c \in Core, SignalTaken(c) PROVE SessionInv'
    <2> USE <1>8 DEF SignalTaken, Sev
    <2>1. pos[c] \in 1..N
      BY DEF RoleInv, Receiving, TypeOK
    <2>2. TypeOK'
      <3>1. pos' \in [Core -> 1..(N + 1)]
        BY SMTT(40), <2>1 DEF TypeOK
      <3>2. pc' \in [Core -> PC] /\ event' \in [Core -> BOOLEAN]
        BY DEF TypeOK, PC
      <3>3. QED
        BY <3>1, <3>2 DEF TypeOK
    <2>3. SlotInv' /\ EvenInv'
      BY SamePlaces DEF Reached, TypeOK
    <2>4. RoleInv'
      BY DEF RoleInv, TypeOK, Sending, Receiving
    <2>5. WakeInv'
      BY DEF WakeInv
    <2>6. QED
      BY <2>2, <2>3, <2>4, <2>5
  <1>9. ASSUME NEW c \in Core, EnterWfe(c) PROVE SessionInv'
    <2> USE <1>9 DEF EnterWfe
    <2>1. TypeOK'
      BY DEF TypeOK, PC
    <2>2. SlotInv' /\ EvenInv'
      BY SamePlaces DEF Reached, TypeOK
    <2>3. RoleInv'
      BY DEF RoleInv, TypeOK, Sending, Receiving
    <2>4. WakeInv'
      BY DEF WakeInv, Waiting, TypeOK, Sending, Receiving
    <2>5. QED
      BY <2>1, <2>2, <2>3, <2>4
  <1>10. ASSUME NEW c \in Core, WfeReturns(c) PROVE SessionInv'
    <2> USE <1>10 DEF WfeReturns
    <2>1. TypeOK'
      BY DEF TypeOK, PC
    <2>2. SlotInv' /\ EvenInv'
      BY SamePlaces DEF Reached, TypeOK
    <2>3. RoleInv'
      BY DEF RoleInv, TypeOK, Sending, Receiving
    <2>4. WakeInv'
      BY DEF WakeInv, Waiting, TypeOK, Sending, Receiving
    <2>5. QED
      BY <2>1, <2>2, <2>3, <2>4
  <1>11. CASE UNCHANGED vars
    <2> USE <1>11 DEF vars
    <2>1. TypeOK'
      BY DEF TypeOK
    <2>2. SlotInv' /\ EvenInv'
      BY SamePlaces DEF Reached
    <2>3. RoleInv' /\ WakeInv'
      BY DEF RoleInv, WakeInv, Waiting, Sending, Receiving
    <2>4. QED
      BY <2>1, <2>2, <2>3
  <1>12. QED
    BY <1>1, <1>2, <1>3, <1>4, <1>5, <1>6, <1>7, <1>8, <1>9, <1>10, <1>11
    DEF Next, Step

-----------------------------------------------------------------------------
\* The two cores of a Baker session are never more than one message apart, a
\* mailbox holds the message the other core is at, and whoever waits is owed a
\* signal or has one: for every choreography.
THEOREM SessionInvariant == Spec => []SessionInv
  BY InvInit, InvStep, PTL DEF Spec

\* A core that sleeps in WFE has no message in its peer's mailbox, unless the
\* peer is between its store of `occupied' and its SEV.
THEOREM NoWakeupIsLost == Spec => []NoLostWakeup
  <1>1. SessionInv => NoLostWakeup
    BY DEF SessionInv, WakeInv, Waiting, NoLostWakeup
  <1>2. QED
    BY <1>1, SessionInvariant, PTL

\* A core whose poll_send found its mailbox occupied never sleeps: the SEV of
\* its own signal_peer is still in its event register when it executes WFE.
THEOREM BusySenderPolls == Spec => []SenderNeverSleeps
  <1>1. SessionInv => SenderNeverSleeps
    BY DEF SessionInv, WakeInv, Waiting, SenderNeverSleeps
  <1>2. QED
    BY <1>1, SessionInvariant, PTL

\* The message a poll_recv takes is the one of the core's place in the
\* choreography: one mailbox per core, without sequence numbers, is enough.
THEOREM ReceivesInStep == Spec => []InStep
  <1>1. SessionInv => InStep
    BY DEF SessionInv, RoleInv, InStep
  <1>2. QED
    BY <1>1, SessionInvariant, PTL

-----------------------------------------------------------------------------
(* The alarm.                                                              *)

\* The registers keep their types, whoever uses the alarm.
LEMMA TypeStep == WaitTypeOK /\ [AlarmNext]_alarmVars => WaitTypeOK'
  <1> SUFFICES ASSUME WaitTypeOK, [AlarmNext]_alarmVars PROVE WaitTypeOK'
    OBVIOUS
  <1> USE AlarmAssumption
  <1> USE DEF WaitTypeOK, AlarmTypeOK, Cores, All, nvic, timer, use, hist
  <1>1. ASSUME AlarmFires PROVE WaitTypeOK'
    BY <1>1 DEF AlarmFires
  <1>2. ASSUME NEW c \in Cores, FrameArrives(c) PROVE WaitTypeOK'
    BY <1>2 DEF FrameArrives
  <1>3. ASSUME NEW c \in Cores, NEW k \in Kinds, ArmReady(c, k) PROVE WaitTypeOK'
    <2>1. waits + 1 \in 0..MaxWaits /\ \A n \in 0..waits : n \in 0..(waits + 1)
      BY <1>3 DEF ArmReady
    <2>2. wait' \in [Cores -> 0..waits'] /\ wait'[c] > 0
      BY <1>3, <2>1 DEF ArmReady
    <2>3. cut' \subseteq 1..waits'
      BY <1>3, <2>1 DEF ArmReady
    <2>4. \A d \in Cores : place'[d] # "idle" => wait'[d] > 0
      BY <1>3, <2>2 DEF ArmReady, Goto
    <2>5. QED
      BY <1>3, <2>1, <2>2, <2>3, <2>4 DEF ArmReady, At, Goto
  <1>4. ASSUME NEW c \in Cores, IsrEnter(c) PROVE WaitTypeOK'
    BY <1>4 DEF IsrEnter, Preempted
  <1>5. ASSUME NEW c \in Cores, IsrReady(c) PROVE WaitTypeOK'
    BY <1>5 DEF IsrReady, Preempted
  <1>6. ASSUME NEW c \in Cores, ArmIntr(c) PROVE WaitTypeOK'
    BY <1>6 DEF ArmIntr, At, Goto
  <1>7. ASSUME NEW c \in Cores, ArmPend(c) PROVE WaitTypeOK'
    BY <1>7 DEF ArmPend, At, Goto
  <1>8. ASSUME NEW c \in Cores, ArmInte(c) PROVE WaitTypeOK'
    BY <1>8 DEF ArmInte, At, Goto
  <1>9. ASSUME NEW c \in Cores, ArmNvic(c) PROVE WaitTypeOK'
    BY <1>9 DEF ArmNvic, At, Goto
  <1>10. ASSUME NEW c \in Cores, ArmAlarm(c) PROVE WaitTypeOK'
    BY <1>10 DEF ArmAlarm, At, Goto
  <1>11. ASSUME NEW c \in Cores, LookFrame(c) PROVE WaitTypeOK'
    <2>1. wait[c] \in 1..waits
      BY <1>11 DEF LookFrame, At
    <2>2. cut' \subseteq 1..waits'
      BY <1>11, <2>1 DEF LookFrame
    <2>3. QED
      BY <1>11, <2>2 DEF LookFrame, At, Goto
  <1>12. ASSUME NEW c \in Cores, LookEmpty(c) PROVE WaitTypeOK'
    BY <1>12 DEF LookEmpty, At, Goto
  <1>13. ASSUME NEW c \in Cores, CheckReady(c) PROVE WaitTypeOK'
    BY <1>13 DEF CheckReady, At, Goto
  <1>14. ASSUME NEW c \in Cores, CheckWait(c) PROVE WaitTypeOK'
    BY <1>14 DEF CheckWait, At, Goto
  <1>15. ASSUME NEW c \in Cores, WfeWakes(c) PROVE WaitTypeOK'
    BY <1>15 DEF WfeWakes, At, Goto
  <1>16. ASSUME NEW c \in Cores, Wfi(c) PROVE WaitTypeOK'
    BY <1>16 DEF Wfi, At, Goto
  <1>17. ASSUME NEW c \in Cores, FinishInte(c) PROVE WaitTypeOK'
    BY <1>17 DEF FinishInte, At, Goto
  <1>18. ASSUME NEW c \in Cores, FinishIntr(c) PROVE WaitTypeOK'
    BY <1>18 DEF FinishIntr, At, Goto
  <1>19. ASSUME UNCHANGED alarmVars PROVE WaitTypeOK'
    BY <1>19 DEF alarmVars
  <1>20. QED
    BY <1>1, <1>2, <1>3, <1>4, <1>5, <1>6, <1>7, <1>8, <1>9, <1>10, <1>11, <1>12, <1>13, <1>14, <1>15,
       <1>16, <1>17, <1>18, <1>19 DEF AlarmNext, AlarmStep

\* Before the first wait.
LEMMA InitType == AlarmInit => WaitTypeOK
  <1> SUFFICES ASSUME AlarmInit PROVE WaitTypeOK
    OBVIOUS
  <1>1. waits \in 0..MaxWaits /\ alarm \in 0..waits /\ fired \in 0..waits /\ cut \subseteq 1..waits
    BY AlarmAssumption DEF AlarmInit
  <1>2. wait \in [Cores -> 0..waits]
    BY DEF AlarmInit, All, Cores
  <1>3. QED
    BY <1>1, <1>2 DEF AlarmInit, WaitTypeOK, AlarmTypeOK, Cores, All

\* The alarm's words and registers are well typed with any number of users.
THEOREM AlarmTypeCorrect == AlarmSpec => []WaitTypeOK
  <1>1. AlarmInit => WaitTypeOK
    BY InitType
  <1>2. QED
    BY <1>1, TypeStep, PTL DEF AlarmSpec

\* The core that does not use the alarm neither arms nor is interrupted.
LEMMA OnlyTheUserSteps ==
  ASSUME NEW u \in Cores, Users = {u}, WaitTypeOK, AloneInv(u),
         NEW c \in Cores, AlarmStep(c) \/ \E k \in Kinds : ArmReady(c, k)
  PROVE  c = u
  <1> SUFFICES ASSUME c # u PROVE FALSE
    OBVIOUS
  <1>1. place[c] = "idle" /\ ~Preempted(c) /\ c \notin Users
    BY DEF AloneInv, Preempted
  <1>2. \A label : At(c, label) => label = "idle"
    BY <1>1 DEF At
  <1>3. ~IsrEnter(c) /\ ~IsrReady(c)
    BY <1>1 DEF IsrEnter, IsrReady, Preempted
  <1>4. ~ArmIntr(c) /\ ~ArmPend(c) /\ ~ArmInte(c) /\ ~ArmNvic(c) /\ ~ArmAlarm(c)
    BY <1>2 DEF ArmIntr, ArmPend, ArmInte, ArmNvic, ArmAlarm
  <1>5. ~LookFrame(c) /\ ~LookEmpty(c) /\ ~CheckReady(c) /\ ~CheckWait(c)
    BY <1>2 DEF LookFrame, LookEmpty, CheckReady, CheckWait
  <1>6. ~WfeWakes(c) /\ ~Wfi(c) /\ ~FinishInte(c) /\ ~FinishIntr(c)
    BY <1>2 DEF WfeWakes, Wfi, FinishInte, FinishIntr
  <1>7. \A k \in Kinds : ~ArmReady(c, k)
    BY <1>1 DEF ArmReady
  <1>8. QED
    BY <1>3, <1>4, <1>5, <1>6, <1>7 DEF AlarmStep

\* With one user every step keeps the timer and the NVIC free of what an
\* earlier wait left, until a frame ends one.
LEMMA AloneStep ==
  ASSUME NEW u \in Cores, Users = {u}, WaitTypeOK, WaitTypeOK', CutShortByLeftover,
         AloneInv(u), [AlarmNext]_alarmVars
  PROVE  CutShortByLeftover' /\ AloneInv(u)'
  <1> USE DEF WaitTypeOK, AlarmTypeOK, Cores, All, nvic, timer, use, hist, AloneInv,
              CutShortByLeftover, NoLeftover
  <1>1. ASSUME AlarmFires PROVE CutShortByLeftover' /\ AloneInv(u)'
    <2> USE <1>1 DEF AlarmFires
    <2>1. CutShortByLeftover'
      OBVIOUS
    <2>2. NoLeftover(u)' => ArmsClean(u)'
      BY DEF ArmsClean, EndsClean
    <2>3. NoLeftover(u)' => WaitsForOwn(u)'
      BY DEF ArmsClean, WaitsForOwn, InWait
    <2>4. NoLeftover(u)' => EndsClean(u)'
      BY DEF EndsClean, WaitsForOwn, InWait
    <2>5. \A c \in Cores \ {u} : place'[c] = "idle" /\ ~enabled'[c] /\ ~isr'[c] /\ ~outcome'[c].early
      OBVIOUS
    <2>6. QED
      BY <2>1, <2>2, <2>3, <2>4, <2>5
  <1>2. ASSUME NEW c \in Cores, FrameArrives(c) PROVE CutShortByLeftover' /\ AloneInv(u)'
    <2> USE <1>2 DEF FrameArrives
    <2>1. CutShortByLeftover'
      OBVIOUS
    <2>2. NoLeftover(u)' => ArmsClean(u)'
      BY DEF ArmsClean, EndsClean
    <2>3. NoLeftover(u)' => WaitsForOwn(u)'
      BY DEF ArmsClean, WaitsForOwn, InWait
    <2>4. NoLeftover(u)' => EndsClean(u)'
      BY DEF EndsClean, WaitsForOwn, InWait
    <2>5. \A d \in Cores \ {u} : place'[d] = "idle" /\ ~enabled'[d] /\ ~isr'[d] /\ ~outcome'[d].early
      OBVIOUS
    <2>6. QED
      BY <2>1, <2>2, <2>3, <2>4, <2>5
  <1>3. ASSUME NEW k \in Kinds, ArmReady(u, k) PROVE CutShortByLeftover' /\ AloneInv(u)'
    <2> USE <1>3 DEF ArmReady, At, Goto, Preempted
    <2>1. CutShortByLeftover'
      OBVIOUS
    <2>2. NoLeftover(u)' => ArmsClean(u)'
      BY DEF ArmsClean, EndsClean
    <2>3. NoLeftover(u)' => WaitsForOwn(u)'
      BY DEF ArmsClean, WaitsForOwn, InWait
    <2>4. NoLeftover(u)' => EndsClean(u)'
      BY DEF EndsClean, WaitsForOwn, InWait
    <2>5. \A c \in Cores \ {u} : place'[c] = "idle" /\ ~enabled'[c] /\ ~isr'[c] /\ ~outcome'[c].early
      OBVIOUS
    <2>6. QED
      BY <2>1, <2>2, <2>3, <2>4, <2>5
  <1>4. ASSUME IsrEnter(u) PROVE CutShortByLeftover' /\ AloneInv(u)'
    <2> USE <1>4 DEF IsrEnter, Preempted
    <2>1. CutShortByLeftover'
      OBVIOUS
    <2>2. NoLeftover(u)' => ArmsClean(u)'
      BY DEF ArmsClean, EndsClean
    <2>3. NoLeftover(u)' => WaitsForOwn(u)'
      BY DEF ArmsClean, WaitsForOwn, InWait
    <2>4. NoLeftover(u)' => EndsClean(u)'
      BY DEF EndsClean, WaitsForOwn, InWait
    <2>5. \A c \in Cores \ {u} : place'[c] = "idle" /\ ~enabled'[c] /\ ~isr'[c] /\ ~outcome'[c].early
      OBVIOUS
    <2>6. QED
      BY <2>1, <2>2, <2>3, <2>4, <2>5
  <1>5. ASSUME IsrReady(u) PROVE CutShortByLeftover' /\ AloneInv(u)'
    <2> USE <1>5 DEF IsrReady, Preempted
    <2>1. CutShortByLeftover'
      OBVIOUS
    <2>2. NoLeftover(u)' => ArmsClean(u)'
      BY DEF ArmsClean, EndsClean
    <2>3. NoLeftover(u)' => WaitsForOwn(u)'
      BY DEF ArmsClean, WaitsForOwn, InWait
    <2>4. NoLeftover(u)' => EndsClean(u)'
      BY DEF EndsClean, WaitsForOwn, InWait
    <2>5. \A c \in Cores \ {u} : place'[c] = "idle" /\ ~enabled'[c] /\ ~isr'[c] /\ ~outcome'[c].early
      OBVIOUS
    <2>6. QED
      BY <2>1, <2>2, <2>3, <2>4, <2>5
  <1>6. ASSUME ArmIntr(u) PROVE CutShortByLeftover' /\ AloneInv(u)'
    <2> USE <1>6 DEF ArmIntr, At, Goto, Preempted
    <2>1. CutShortByLeftover'
      OBVIOUS
    <2>2. NoLeftover(u)' => ArmsClean(u)'
      BY DEF ArmsClean, EndsClean
    <2>3. NoLeftover(u)' => WaitsForOwn(u)'
      BY DEF ArmsClean, WaitsForOwn, InWait
    <2>4. NoLeftover(u)' => EndsClean(u)'
      BY DEF EndsClean, WaitsForOwn, InWait
    <2>5. \A c \in Cores \ {u} : place'[c] = "idle" /\ ~enabled'[c] /\ ~isr'[c] /\ ~outcome'[c].early
      OBVIOUS
    <2>6. QED
      BY <2>1, <2>2, <2>3, <2>4, <2>5
  <1>7. ASSUME ArmPend(u) PROVE CutShortByLeftover' /\ AloneInv(u)'
    <2> USE <1>7 DEF ArmPend, At, Goto, Preempted
    <2>1. CutShortByLeftover'
      OBVIOUS
    <2>2. NoLeftover(u)' => ArmsClean(u)'
      BY DEF ArmsClean, EndsClean
    <2>3. NoLeftover(u)' => WaitsForOwn(u)'
      BY DEF ArmsClean, WaitsForOwn, InWait
    <2>4. NoLeftover(u)' => EndsClean(u)'
      BY DEF EndsClean, WaitsForOwn, InWait
    <2>5. \A c \in Cores \ {u} : place'[c] = "idle" /\ ~enabled'[c] /\ ~isr'[c] /\ ~outcome'[c].early
      OBVIOUS
    <2>6. QED
      BY <2>1, <2>2, <2>3, <2>4, <2>5
  <1>8. ASSUME ArmInte(u) PROVE CutShortByLeftover' /\ AloneInv(u)'
    <2> USE <1>8 DEF ArmInte, At, Goto, Preempted
    <2>1. CutShortByLeftover'
      OBVIOUS
    <2>2. NoLeftover(u)' => ArmsClean(u)'
      BY DEF ArmsClean, EndsClean
    <2>3. NoLeftover(u)' => WaitsForOwn(u)'
      BY DEF ArmsClean, WaitsForOwn, InWait
    <2>4. NoLeftover(u)' => EndsClean(u)'
      BY DEF EndsClean, WaitsForOwn, InWait
    <2>5. \A c \in Cores \ {u} : place'[c] = "idle" /\ ~enabled'[c] /\ ~isr'[c] /\ ~outcome'[c].early
      OBVIOUS
    <2>6. QED
      BY <2>1, <2>2, <2>3, <2>4, <2>5
  <1>9. ASSUME ArmNvic(u) PROVE CutShortByLeftover' /\ AloneInv(u)'
    <2> USE <1>9 DEF ArmNvic, At, Goto, Preempted
    <2>1. CutShortByLeftover'
      OBVIOUS
    <2>2. NoLeftover(u)' => ArmsClean(u)'
      BY DEF ArmsClean, EndsClean
    <2>3. NoLeftover(u)' => WaitsForOwn(u)'
      BY DEF ArmsClean, WaitsForOwn, InWait
    <2>4. NoLeftover(u)' => EndsClean(u)'
      BY DEF EndsClean, WaitsForOwn, InWait
    <2>5. \A c \in Cores \ {u} : place'[c] = "idle" /\ ~enabled'[c] /\ ~isr'[c] /\ ~outcome'[c].early
      OBVIOUS
    <2>6. QED
      BY <2>1, <2>2, <2>3, <2>4, <2>5
  <1>10. ASSUME ArmAlarm(u) PROVE CutShortByLeftover' /\ AloneInv(u)'
    <2> USE <1>10 DEF ArmAlarm, At, Goto, Preempted
    <2>1. CutShortByLeftover'
      OBVIOUS
    <2>2. NoLeftover(u)' => ArmsClean(u)'
      BY DEF ArmsClean, EndsClean
    <2>3. NoLeftover(u)' => WaitsForOwn(u)'
      BY DEF ArmsClean, WaitsForOwn, InWait
    <2>4. NoLeftover(u)' => EndsClean(u)'
      BY DEF EndsClean, WaitsForOwn, InWait
    <2>5. \A c \in Cores \ {u} : place'[c] = "idle" /\ ~enabled'[c] /\ ~isr'[c] /\ ~outcome'[c].early
      OBVIOUS
    <2>6. QED
      BY <2>1, <2>2, <2>3, <2>4, <2>5
  <1>11. ASSUME LookFrame(u) PROVE CutShortByLeftover' /\ AloneInv(u)'
    <2> USE <1>11 DEF LookFrame, At, Goto, Preempted
    <2>1. CutShortByLeftover'
      OBVIOUS
    <2>2. NoLeftover(u)' => ArmsClean(u)'
      BY DEF ArmsClean, EndsClean
    <2>3. NoLeftover(u)' => WaitsForOwn(u)'
      BY DEF ArmsClean, WaitsForOwn, InWait
    <2>4. NoLeftover(u)' => EndsClean(u)'
      BY DEF EndsClean, WaitsForOwn, InWait
    <2>5. \A c \in Cores \ {u} : place'[c] = "idle" /\ ~enabled'[c] /\ ~isr'[c] /\ ~outcome'[c].early
      OBVIOUS
    <2>6. QED
      BY <2>1, <2>2, <2>3, <2>4, <2>5
  <1>12. ASSUME LookEmpty(u) PROVE CutShortByLeftover' /\ AloneInv(u)'
    <2> USE <1>12 DEF LookEmpty, At, Goto, Preempted
    <2>1. CutShortByLeftover'
      OBVIOUS
    <2>2. NoLeftover(u)' => ArmsClean(u)'
      BY DEF ArmsClean, EndsClean
    <2>3. NoLeftover(u)' => WaitsForOwn(u)'
      BY DEF ArmsClean, WaitsForOwn, InWait
    <2>4. NoLeftover(u)' => EndsClean(u)'
      BY DEF EndsClean, WaitsForOwn, InWait
    <2>5. \A c \in Cores \ {u} : place'[c] = "idle" /\ ~enabled'[c] /\ ~isr'[c] /\ ~outcome'[c].early
      OBVIOUS
    <2>6. QED
      BY <2>1, <2>2, <2>3, <2>4, <2>5
  <1>13. ASSUME CheckReady(u) PROVE CutShortByLeftover' /\ AloneInv(u)'
    <2> USE <1>13 DEF CheckReady, At, Goto, Preempted
    <2>1. CutShortByLeftover'
      <3>1. NoLeftover(u) => fired = wait[u]
        BY DEF WaitsForOwn, InWait
      <3>2. outcome'[u].early => ~NoLeftover(u)
        BY <3>1
      <3>3. \A c \in Cores \ {u} : outcome'[c] = outcome[c]
        OBVIOUS
      <3>4. QED
        BY <3>2, <3>3
    <2>2. NoLeftover(u)' => ArmsClean(u)'
      BY DEF ArmsClean, EndsClean
    <2>3. NoLeftover(u)' => WaitsForOwn(u)'
      BY DEF ArmsClean, WaitsForOwn, InWait
    <2>4. NoLeftover(u)' => EndsClean(u)'
      BY DEF EndsClean, WaitsForOwn, InWait
    <2>5. \A c \in Cores \ {u} : place'[c] = "idle" /\ ~enabled'[c] /\ ~isr'[c] /\ ~outcome'[c].early
      OBVIOUS
    <2>6. QED
      BY <2>1, <2>2, <2>3, <2>4, <2>5
  <1>14. ASSUME CheckWait(u) PROVE CutShortByLeftover' /\ AloneInv(u)'
    <2> USE <1>14 DEF CheckWait, At, Goto, Preempted
    <2>1. CutShortByLeftover'
      OBVIOUS
    <2>2. NoLeftover(u)' => ArmsClean(u)'
      BY DEF ArmsClean, EndsClean
    <2>3. NoLeftover(u)' => WaitsForOwn(u)'
      BY DEF ArmsClean, WaitsForOwn, InWait
    <2>4. NoLeftover(u)' => EndsClean(u)'
      BY DEF EndsClean, WaitsForOwn, InWait
    <2>5. \A c \in Cores \ {u} : place'[c] = "idle" /\ ~enabled'[c] /\ ~isr'[c] /\ ~outcome'[c].early
      OBVIOUS
    <2>6. QED
      BY <2>1, <2>2, <2>3, <2>4, <2>5
  <1>15. ASSUME WfeWakes(u) PROVE CutShortByLeftover' /\ AloneInv(u)'
    <2> USE <1>15 DEF WfeWakes, At, Goto, Preempted
    <2>1. CutShortByLeftover'
      OBVIOUS
    <2>2. NoLeftover(u)' => ArmsClean(u)'
      BY DEF ArmsClean, EndsClean
    <2>3. NoLeftover(u)' => WaitsForOwn(u)'
      BY DEF ArmsClean, WaitsForOwn, InWait
    <2>4. NoLeftover(u)' => EndsClean(u)'
      BY DEF EndsClean, WaitsForOwn, InWait
    <2>5. \A c \in Cores \ {u} : place'[c] = "idle" /\ ~enabled'[c] /\ ~isr'[c] /\ ~outcome'[c].early
      OBVIOUS
    <2>6. QED
      BY <2>1, <2>2, <2>3, <2>4, <2>5
  <1>16. ASSUME Wfi(u) PROVE CutShortByLeftover' /\ AloneInv(u)'
    <2> USE <1>16 DEF Wfi, At, Goto, Preempted
    <2>1. CutShortByLeftover'
      OBVIOUS
    <2>2. NoLeftover(u)' => ArmsClean(u)'
      BY DEF ArmsClean, EndsClean
    <2>3. NoLeftover(u)' => WaitsForOwn(u)'
      BY DEF ArmsClean, WaitsForOwn, InWait
    <2>4. NoLeftover(u)' => EndsClean(u)'
      BY DEF EndsClean, WaitsForOwn, InWait
    <2>5. \A c \in Cores \ {u} : place'[c] = "idle" /\ ~enabled'[c] /\ ~isr'[c] /\ ~outcome'[c].early
      OBVIOUS
    <2>6. QED
      BY <2>1, <2>2, <2>3, <2>4, <2>5
  <1>17. ASSUME FinishInte(u) PROVE CutShortByLeftover' /\ AloneInv(u)'
    <2> USE <1>17 DEF FinishInte, At, Goto, Preempted
    <2>1. CutShortByLeftover'
      OBVIOUS
    <2>2. NoLeftover(u)' => ArmsClean(u)'
      BY DEF ArmsClean, EndsClean
    <2>3. NoLeftover(u)' => WaitsForOwn(u)'
      BY DEF ArmsClean, WaitsForOwn, InWait
    <2>4. NoLeftover(u)' => EndsClean(u)'
      BY DEF EndsClean, WaitsForOwn, InWait
    <2>5. \A c \in Cores \ {u} : place'[c] = "idle" /\ ~enabled'[c] /\ ~isr'[c] /\ ~outcome'[c].early
      OBVIOUS
    <2>6. QED
      BY <2>1, <2>2, <2>3, <2>4, <2>5
  <1>18. ASSUME FinishIntr(u) PROVE CutShortByLeftover' /\ AloneInv(u)'
    <2> USE <1>18 DEF FinishIntr, At, Goto, Preempted
    <2>1. CutShortByLeftover'
      OBVIOUS
    <2>2. NoLeftover(u)' => ArmsClean(u)'
      BY DEF ArmsClean, EndsClean
    <2>3. NoLeftover(u)' => WaitsForOwn(u)'
      BY DEF ArmsClean, WaitsForOwn, InWait
    <2>4. NoLeftover(u)' => EndsClean(u)'
      BY DEF EndsClean, WaitsForOwn, InWait
    <2>5. \A c \in Cores \ {u} : place'[c] = "idle" /\ ~enabled'[c] /\ ~isr'[c] /\ ~outcome'[c].early
      OBVIOUS
    <2>6. QED
      BY <2>1, <2>2, <2>3, <2>4, <2>5
  <1>19. ASSUME UNCHANGED alarmVars PROVE CutShortByLeftover' /\ AloneInv(u)'
    <2> USE <1>19 DEF alarmVars
    <2>1. CutShortByLeftover'
      OBVIOUS
    <2>2. NoLeftover(u)' => ArmsClean(u)'
      BY DEF ArmsClean, EndsClean
    <2>3. NoLeftover(u)' => WaitsForOwn(u)'
      BY DEF ArmsClean, WaitsForOwn, InWait
    <2>4. NoLeftover(u)' => EndsClean(u)'
      BY DEF EndsClean, WaitsForOwn, InWait
    <2>5. \A c \in Cores \ {u} : place'[c] = "idle" /\ ~enabled'[c] /\ ~isr'[c] /\ ~outcome'[c].early
      OBVIOUS
    <2>6. QED
      BY <2>1, <2>2, <2>3, <2>4, <2>5
  <1>20. ASSUME AlarmStep(u) PROVE CutShortByLeftover' /\ AloneInv(u)'
    BY <1>20, <1>4, <1>5, <1>6, <1>7, <1>8, <1>9, <1>10, <1>11, <1>12, <1>13, <1>14, <1>15, <1>16, <1>17, <1>18 DEF AlarmStep
  <1>21. QED
    <2>1. CASE AlarmFires \/ UNCHANGED alarmVars
      BY <2>1, <1>1, <1>19
    <2>2. CASE \E c \in Cores : FrameArrives(c)
      BY <2>2, <1>2
    <2>3. CASE \E c \in Cores : AlarmStep(c) \/ \E k \in Kinds : ArmReady(c, k)
      <3>1. AlarmStep(u) \/ \E k \in Kinds : ArmReady(u, k)
        BY <2>3, OnlyTheUserSteps
      <3>2. QED
        BY <3>1, <1>3, <1>20
    <2>4. QED
      BY <2>1, <2>2, <2>3 DEF AlarmNext

\* For a single user of the alarm: it comes early only by a leftover alarm.
THEOREM AlarmInvariant ==
  ASSUME NEW u \in Cores, Users = {u}
  PROVE  AlarmSpec => []AlarmInv
  <1>1. AlarmInit => AlarmInv
    <2> SUFFICES ASSUME AlarmInit PROVE AlarmInv
      OBVIOUS
    <2>1. WaitTypeOK
      BY InitType
    <2>2. CutShortByLeftover
      BY DEF AlarmInit, CutShortByLeftover, All
    <2>3. \A c \in Cores : AloneInv(c)
      BY DEF AlarmInit, AloneInv, NoLeftover, ArmsClean, WaitsForOwn, InWait, EndsClean, All
    <2>4. QED
      BY <2>1, <2>2, <2>3 DEF AlarmInv
  <1>2. AlarmInv /\ [AlarmNext]_alarmVars => AlarmInv'
    <2> SUFFICES ASSUME AlarmInv, [AlarmNext]_alarmVars PROVE AlarmInv'
      OBVIOUS
    <2>1. WaitTypeOK'
      BY TypeStep DEF AlarmInv
    <2>2. CutShortByLeftover' /\ AloneInv(u)'
      BY <2>1, AloneStep DEF AlarmInv
    <2>3. \A c \in Cores : Users = {c} => c = u
      OBVIOUS
    <2>4. QED
      BY <2>1, <2>2, <2>3 DEF AlarmInv
  <1>3. QED
    BY <1>1, <1>2, PTL DEF AlarmSpec
=============================================================================
