---------------------------- MODULE AppkitProofs ----------------------------
(***************************************************************************)
(* What holds of appkit for any image, any number of imports and any       *)
(* driver: the scheduler of appkit::run keeps its slots apart from the     *)
(* engine and returns only when the image is quiescent, and the canonical  *)
(* WASI engine releases its guest and its lease once and implements the    *)
(* remote call.                                                            *)
(***************************************************************************)
EXTENDS AppkitRun, WasiEngine, FiniteSetTheorems, TLAPS

-----------------------------------------------------------------------------
(* The scheduler. *)

\* The roles of an image, and the frames a poll sends, are finitely many.
LEMMA FiniteRoles ==
  ASSUME TypeOK, NEW targets \in SUBSET attached
  PROVE  Cardinality(targets) \in Nat
  <1>1. image.requested \subseteq HIBANA_TYPED_ROLE_DOMAIN
    BY RunAssumption DEF TypeOK
  <1>2. IsFiniteSet(HIBANA_TYPED_ROLE_DOMAIN)
    <2>1. 0 \in Int /\ 15 \in Int
      OBVIOUS
    <2>2. QED
      BY <2>1, FS_Interval DEF HIBANA_TYPED_ROLE_DOMAIN
  <1>3. targets \subseteq HIBANA_TYPED_ROLE_DOMAIN
    BY <1>1 DEF TypeOK
  <1>4. QED
    BY <1>2, <1>3, FS_Subset, FS_CardinalityType

\* A poll that delivers frames keeps them to requested roles and within the
\* budget.
LEMMA DeliverType ==
  ASSUME TypeOK, NEW r, NEW targets \in SUBSET attached, Deliver(r, targets)
  PROVE  /\ inbox' \subseteq image.requested
         /\ budget' \in 0..MaxFrames
  <1>1. Cardinality(targets) \in Nat
    BY FiniteRoles
  <1>2. inbox' \subseteq image.requested
    BY DEF Deliver, TypeOK
  <1>3. budget' \in 0..MaxFrames
    BY <1>1, RunAssumption DEF Deliver, TypeOK
  <1>4. QED
    BY <1>2, <1>3

\* A task keeps its slot when another is pushed.
LEMMA AppendScheduled ==
  ASSUME NEW S, NEW s \in Seq(S), NEW r
  PROVE  /\ Append(s, r) \in Seq(S \cup {r})
         /\ Len(Append(s, r)) = Len(s) + 1
         /\ \A i \in 1..Len(s) : Append(s, r)[i] = s[i]
         /\ Append(s, r)[Len(s) + 1] = r
  OBVIOUS

\* The scheduler has four slots or sixteen.
LEMMA SlotsType == SLOTS \in Nat /\ SLOTS > 0
  BY DEF SLOTS

\* Before the projection nothing is attached.
LEMMA InvInit == Init => RunInv
  <1> SUFFICES ASSUME Init PROVE RunInv
    OBVIOUS
  <1>1. TypeOK
    <2>1. slots \in Seq(attached) /\ Len(slots) <= SLOTS /\ idx \in 1..(SLOTS + 1)
      BY SlotsType DEF Init
    <2>2. budget \in 0..MaxFrames
      BY RunAssumption DEF Init
    <2>3. QED
      BY <2>1, <2>2 DEF Init, TypeOK, Rest
  <1>2. EngineSlotFree /\ PhaseInv /\ WakeInv /\ ReturnsQuiescent
    BY DEF Init, EngineSlotFree, PhaseInv, WakeInv, ReturnsQuiescent
  <1>3. QED
    BY <1>1, <1>2 DEF RunInv, SlotsInv

\* Every step of the run, from projection to the last pass, preserves the
\* invariant, and so does a frame that arrives from another core.
LEMMA InvStep == RunInv /\ [Next]_vars => RunInv'
  <1> SUFFICES ASSUME RunInv, [Next]_vars PROVE RunInv'
    OBVIOUS
  <1> USE RunAssumption
  <1> USE DEF RunInv, SlotsInv
  <1>1. ASSUME Project PROVE RunInv'
    <2> USE <1>1 DEF Project
    <2>1. TypeOK'
      BY DEF TypeOK, EMBEDDED, SLOTS
    <2>2. EngineSlotFree'
      BY DEF EngineSlotFree, SLOTS, EMBEDDED
    <2>3. PhaseInv'
      BY DEF PhaseInv, EMBEDDED, TypeOK
    <2>4. WakeInv'
      BY DEF WakeInv, PhaseInv, Scheduled, Quiet, Waits, EMBEDDED, TypeOK
    <2>5. ReturnsQuiescent'
      BY DEF ReturnsQuiescent, PhaseInv, WakeInv, Quiet, Waits, EMBEDDED, TypeOK
    <2>6. QED
      BY <2>1, <2>2, <2>3, <2>4, <2>5
  <1>2. ASSUME NEW r \in image.requested, AttachFails(r) PROVE RunInv'
    <2> USE <1>2 DEF AttachFails, Panic
    <2>1. TypeOK'
      BY DEF TypeOK, EMBEDDED, SLOTS
    <2>2. EngineSlotFree'
      BY DEF EngineSlotFree, SLOTS, EMBEDDED
    <2>3. PhaseInv'
      BY DEF PhaseInv, EMBEDDED, TypeOK
    <2>4. WakeInv'
      BY DEF WakeInv, PhaseInv, Scheduled, Quiet, Waits, EMBEDDED, TypeOK
    <2>5. ReturnsQuiescent'
      BY DEF ReturnsQuiescent, PhaseInv, WakeInv, Quiet, Waits, EMBEDDED, TypeOK
    <2>6. QED
      BY <2>1, <2>2, <2>3, <2>4, <2>5
  <1>3. ASSUME NEW r \in image.requested, PushTask(r) PROVE RunInv'
    <2> USE <1>3 DEF PushTask, NextRole, SlotFree
    <2>1. TypeOK'
      BY DEF TypeOK, EMBEDDED, SLOTS
    <2>2. EngineSlotFree'
      BY DEF EngineSlotFree, PhaseInv
    <2>3. PhaseInv'
      BY DEF PhaseInv, EMBEDDED, TypeOK
    <2>4. WakeInv'
      BY DEF WakeInv, PhaseInv, Scheduled, Quiet, Waits, EMBEDDED, TypeOK
    <2>5. ReturnsQuiescent'
      BY DEF ReturnsQuiescent, PhaseInv, WakeInv, Quiet, Waits, EMBEDDED, TypeOK
    <2>6. QED
      BY <2>1, <2>2, <2>3, <2>4, <2>5
  <1>4. ASSUME NEW r \in image.requested, StartEngine(r) PROVE RunInv'
    <2> USE <1>4 DEF StartEngine, NextRole, SlotFree
    <2>1. TypeOK'
      BY DEF TypeOK, EMBEDDED, SLOTS
    <2>2. EngineSlotFree'
      BY DEF EngineSlotFree, SLOTS, EMBEDDED
    <2>3. PhaseInv'
      BY DEF PhaseInv, EMBEDDED, TypeOK
    <2>4. WakeInv'
      BY DEF WakeInv, PhaseInv, Scheduled, Quiet, Waits, EMBEDDED, TypeOK
    <2>5. ReturnsQuiescent'
      BY DEF ReturnsQuiescent, PhaseInv, WakeInv, Quiet, Waits, EMBEDDED, TypeOK
    <2>6. QED
      BY <2>1, <2>2, <2>3, <2>4, <2>5
  <1>5. ASSUME StartPolling PROVE RunInv'
    <2> USE <1>5 DEF StartPolling
    <2>1. TypeOK'
      BY DEF TypeOK, EMBEDDED, SLOTS
    <2>2. EngineSlotFree'
      BY DEF EngineSlotFree, SLOTS, EMBEDDED
    <2>3. PhaseInv'
      BY DEF PhaseInv, EMBEDDED, TypeOK
    <2>4. WakeInv'
      BY DEF WakeInv, PhaseInv, Scheduled, Quiet, Waits, EMBEDDED, TypeOK
    <2>5. ReturnsQuiescent'
      BY DEF ReturnsQuiescent, PhaseInv, WakeInv, Quiet, Waits, EMBEDDED, TypeOK
    <2>6. QED
      BY <2>1, <2>2, <2>3, <2>4, <2>5
  <1>6. ASSUME PollTask PROVE RunInv'
    <2> USE <1>6 DEF PollTask, Polling
    <2>0. PICK r : r = slots[idx]
      OBVIOUS
    <2>1. r \in attached /\ r \in HIBANA_TYPED_ROLE_DOMAIN
      BY <2>0 DEF TypeOK
    <2>2. /\ inbox' \subseteq image.requested /\ budget' \in 0..MaxFrames
          /\ woke' \in BOOLEAN
          /\ rest' \in [HIBANA_TYPED_ROLE_DOMAIN -> Rest]
          /\ \A q \in attached : q # r => rest'[q] = rest[q]
          /\ ~woke' => /\ ~woke /\ (\A q \in attached : q # r => (q \in inbox' <=> q \in inbox))
                       /\ rest'[r] # "runs" /\ ~(rest'[r] = "recv" /\ image.spins)
                       /\ Waits(r)'
      <3>1. CASE TaskWaits(r)
        <4>1. rest' = rest /\ inbox' = inbox /\ budget' = budget /\ Waits(r)
          BY <3>1 DEF TaskWaits
        <4>2. woke' = (woke \/ (rest[r] = "recv" /\ image.spins))
          BY <3>1 DEF TaskWaits
        <4>3. woke' \in BOOLEAN
          BY <4>2, Zenon
        <4>4. r \in inbox => rest[r] = "parked"
          BY <4>1 DEF Waits
        <4>5. QED
          BY <2>1, <4>1, <4>2, <4>3, <4>4 DEF TypeOK, Waits
      <3>2. CASE TaskRuns(r)
        <4>1. PICK targets \in SUBSET attached, to \in Rest, received \in BOOLEAN :
                /\ Deliver(r, targets)
                /\ rest' = [rest EXCEPT ![r] = to]
                /\ woke' = (woke \/ targets # {} \/ to = "runs"
                              \/ (to = "recv" /\ image.spins) \/ received)
          BY <3>2 DEF TaskRuns
        <4>2. inbox' \subseteq image.requested /\ budget' \in 0..MaxFrames
          BY <4>1, DeliverType
        <4>3. rest' \in [HIBANA_TYPED_ROLE_DOMAIN -> Rest] /\ rest'[r] = to
          BY <2>1, <4>1 DEF TypeOK
        <4>4. \A q \in attached : q # r => rest'[q] = rest[q]
          BY <4>1 DEF TypeOK
        <4>5. woke' \in BOOLEAN
          BY <4>1, Zenon
        <4>6. ASSUME ~woke'
              PROVE  /\ ~woke /\ inbox' = inbox \ {r}
                     /\ to # "runs" /\ ~(to = "recv" /\ image.spins)
          BY <4>1, <4>6 DEF Deliver
        <4>7. ~woke' => Waits(r)'
          BY <4>1, <4>3, <4>6 DEF Waits, Rest
        <4>8. QED
          BY <4>2, <4>3, <4>4, <4>5, <4>6, <4>7
      <3>3. QED
        BY <2>0, <3>1, <3>2
    <2>3. TypeOK'
      <3>1. SLOTS' = SLOTS /\ SLOTS \in Nat
        BY SlotsType DEF SLOTS, EMBEDDED
      <3>2. idx' \in 1..(SLOTS + 1)
        BY <3>1 DEF TypeOK
      <3>3. QED
        BY <2>2, <3>1, <3>2 DEF TypeOK
    <2>4. EngineSlotFree'
      BY DEF EngineSlotFree, SLOTS, EMBEDDED
    <2>5. PhaseInv'
      BY DEF PhaseInv, EMBEDDED, TypeOK
    <2>6. WakeInv'
      <3> SUFFICES ASSUME ~EMBEDDED
                   PROVE  /\ \A q \in attached : Scheduled(q, 1)'
                          /\ phase = "pass" => attached = image.requested
                          /\ phase = "pass" /\ ~woke' =>
                               \A q \in attached : Quiet(q)' \/ Scheduled(q, idx)'
        BY DEF WakeInv, EMBEDDED
      <3>1. \A q \in attached : Scheduled(q, 1)'
        BY DEF WakeInv, Scheduled
      <3>2. ASSUME phase = "pass", ~woke', NEW q \in attached, ~Quiet(q)'
            PROVE  Scheduled(q, idx)'
        <4>1. q # r
          BY <2>2, <3>2 DEF Quiet
        <4>2. ~Quiet(q)
          BY <2>2, <3>2, <4>1 DEF Quiet, Waits
        <4>3. PICK i \in idx..Len(slots) : slots[i] = q
          BY <2>2, <3>2, <4>2 DEF WakeInv, Scheduled
        <4>4. i \in (idx + 1)..Len(slots)
          BY <2>0, <4>1, <4>3 DEF TypeOK
        <4>5. QED
          BY <4>3, <4>4 DEF Scheduled
      <3>3. QED
        BY <3>1, <3>2 DEF WakeInv
    <2>7. ReturnsQuiescent'
      BY DEF ReturnsQuiescent
    <2>8. QED
      BY <2>3, <2>4, <2>5, <2>6, <2>7
  <1>7. ASSUME TaskFails PROVE RunInv'
    <2> USE <1>7 DEF TaskFails, Polling, Panic
    <2>1. TypeOK'
      BY DEF TypeOK, EMBEDDED, SLOTS
    <2>2. EngineSlotFree'
      BY DEF EngineSlotFree, SLOTS, EMBEDDED
    <2>3. PhaseInv'
      BY DEF PhaseInv, EMBEDDED, TypeOK
    <2>4. WakeInv'
      BY DEF WakeInv, PhaseInv, Scheduled, Quiet, Waits, EMBEDDED, TypeOK
    <2>5. ReturnsQuiescent'
      BY DEF ReturnsQuiescent, PhaseInv, WakeInv, Quiet, Waits, EMBEDDED, TypeOK
    <2>6. QED
      BY <2>1, <2>2, <2>3, <2>4, <2>5
  <1>8. ASSUME EndPassHost PROVE RunInv'
    <2> USE <1>8 DEF EndPassHost
    <2>1. TypeOK'
      <3>1. SLOTS' = SLOTS /\ SLOTS \in Nat
        BY SlotsType DEF SLOTS, EMBEDDED
      <3>2. idx' \in 1..(SLOTS + 1)
        BY <3>1 DEF TypeOK
      <3>3. QED
        BY <3>1, <3>2 DEF TypeOK
    <2>2. EngineSlotFree'
      BY DEF EngineSlotFree, SLOTS, EMBEDDED
    <2>3. PhaseInv'
      BY DEF PhaseInv, EMBEDDED, TypeOK
    <2>4. WakeInv'
      BY DEF WakeInv, PhaseInv, Scheduled, Quiet, Waits, EMBEDDED, TypeOK
    <2>5. ReturnsQuiescent'
      <3> SUFFICES ASSUME ~woke
                   PROVE  /\ attached = image.requested /\ ~leased'
                          /\ \A r \in attached : Quiet(r)
        BY DEF ReturnsQuiescent, Quiet, Waits
      <3>1. \A r \in attached : Quiet(r) \/ Scheduled(r, idx)
        BY DEF WakeInv
      <3>2. idx..Len(slots) = {}
        BY DEF TypeOK
      <3>3. QED
        BY <3>1, <3>2 DEF WakeInv, Scheduled
    <2>6. QED
      BY <2>1, <2>2, <2>3, <2>4, <2>5
  <1>9. ASSUME EndPassEmbedded PROVE RunInv'
    <2> USE <1>9 DEF EndPassEmbedded
    <2>1. TypeOK'
      <3>1. SLOTS' = SLOTS /\ SLOTS \in Nat
        BY SlotsType DEF SLOTS, EMBEDDED
      <3>2. idx' \in 1..(SLOTS + 1)
        BY <3>1 DEF TypeOK
      <3>3. QED
        BY <3>1, <3>2 DEF TypeOK
    <2>2. EngineSlotFree'
      BY DEF EngineSlotFree, SLOTS, EMBEDDED
    <2>3. PhaseInv'
      BY DEF PhaseInv, EMBEDDED, TypeOK
    <2>4. WakeInv'
      BY DEF WakeInv, PhaseInv, Scheduled, Quiet, Waits, EMBEDDED, TypeOK
    <2>5. ReturnsQuiescent'
      BY DEF ReturnsQuiescent, PhaseInv, WakeInv, Quiet, Waits, EMBEDDED, TypeOK
    <2>6. QED
      BY <2>1, <2>2, <2>3, <2>4, <2>5
  <1>10. ASSUME SafeState PROVE RunInv'
    <2> USE <1>10 DEF SafeState
    <2>1. TypeOK'
      BY DEF TypeOK, EMBEDDED, SLOTS
    <2>2. EngineSlotFree'
      BY DEF EngineSlotFree, SLOTS, EMBEDDED
    <2>3. PhaseInv'
      BY DEF PhaseInv, EMBEDDED, TypeOK
    <2>4. WakeInv'
      BY DEF WakeInv, PhaseInv, Scheduled, Quiet, Waits, EMBEDDED, TypeOK
    <2>5. ReturnsQuiescent'
      BY DEF ReturnsQuiescent, PhaseInv, WakeInv, Quiet, Waits, EMBEDDED, TypeOK
    <2>6. QED
      BY <2>1, <2>2, <2>3, <2>4, <2>5
  <1>11. ASSUME EndFirstPass PROVE RunInv'
    <2> USE <1>11 DEF EndFirstPass
    <2>1. TypeOK'
      <3>1. SLOTS' = SLOTS /\ SLOTS \in Nat
        BY SlotsType DEF SLOTS, EMBEDDED
      <3>2. idx' \in 1..(SLOTS + 1)
        BY <3>1 DEF TypeOK
      <3>3. QED
        BY <3>1, <3>2 DEF TypeOK
    <2>2. EngineSlotFree'
      BY DEF EngineSlotFree, SLOTS, EMBEDDED
    <2>3. PhaseInv'
      BY DEF PhaseInv, EMBEDDED, TypeOK
    <2>4. WakeInv'
      BY DEF WakeInv, PhaseInv, Scheduled, Quiet, Waits, EMBEDDED, TypeOK
    <2>5. ReturnsQuiescent'
      BY DEF ReturnsQuiescent, PhaseInv, WakeInv, Quiet, Waits, EMBEDDED, TypeOK
    <2>6. QED
      BY <2>1, <2>2, <2>3, <2>4, <2>5
  <1>12. ASSUME EngineReady PROVE RunInv'
    <2> USE <1>12 DEF EngineReady, Deliver
    <2>1. TypeOK'
      <3>1. SLOTS' = SLOTS
        BY DEF SLOTS, EMBEDDED
      <3>2. PICK targets \in SUBSET attached : Deliver(engine, targets)
        OBVIOUS
      <3>3. inbox' \subseteq image.requested /\ budget' \in 0..MaxFrames
        BY <3>2, DeliverType
      <3>4. QED
        BY <3>1, <3>3 DEF TypeOK
    <2>2. EngineSlotFree'
      BY DEF EngineSlotFree, SLOTS, EMBEDDED
    <2>3. PhaseInv'
      BY DEF PhaseInv, EMBEDDED, TypeOK
    <2>4. WakeInv'
      BY DEF WakeInv, PhaseInv, Scheduled, Quiet, Waits, EMBEDDED, TypeOK
    <2>5. ReturnsQuiescent'
      BY DEF ReturnsQuiescent, PhaseInv, WakeInv, Quiet, Waits, EMBEDDED, TypeOK
    <2>6. QED
      BY <2>1, <2>2, <2>3, <2>4, <2>5
  <1>13. ASSUME EnginePending PROVE RunInv'
    <2> USE <1>13 DEF EnginePending
    <2>1. TypeOK'
      BY DEF TypeOK, EMBEDDED, SLOTS
    <2>2. EngineSlotFree'
      BY DEF EngineSlotFree, SLOTS, EMBEDDED
    <2>3. PhaseInv'
      BY DEF PhaseInv, EMBEDDED, TypeOK
    <2>4. WakeInv'
      BY DEF WakeInv, PhaseInv, Scheduled, Quiet, Waits, EMBEDDED, TypeOK
    <2>5. ReturnsQuiescent'
      BY DEF ReturnsQuiescent, PhaseInv, WakeInv, Quiet, Waits, EMBEDDED, TypeOK
    <2>6. QED
      BY <2>1, <2>2, <2>3, <2>4, <2>5
  <1>14. ASSUME EndSidePass PROVE RunInv'
    <2> USE <1>14 DEF EndSidePass
    <2>1. TypeOK'
      BY DEF TypeOK, EMBEDDED, SLOTS
    <2>2. EngineSlotFree'
      BY DEF EngineSlotFree, SLOTS, EMBEDDED
    <2>3. PhaseInv'
      BY DEF PhaseInv, EMBEDDED, TypeOK
    <2>4. WakeInv'
      BY DEF WakeInv, PhaseInv, Scheduled, Quiet, Waits, EMBEDDED, TypeOK
    <2>5. ReturnsQuiescent'
      BY DEF ReturnsQuiescent, PhaseInv, WakeInv, Quiet, Waits, EMBEDDED, TypeOK
    <2>6. QED
      BY <2>1, <2>2, <2>3, <2>4, <2>5
  <1>15. ASSUME EngineExits PROVE RunInv'
    <2> USE <1>15 DEF EngineExits
    <2>1. TypeOK'
      BY DEF TypeOK, EMBEDDED, SLOTS
    <2>2. EngineSlotFree'
      BY DEF EngineSlotFree, SLOTS, EMBEDDED
    <2>3. PhaseInv'
      BY DEF PhaseInv, EMBEDDED, TypeOK
    <2>4. WakeInv'
      BY DEF WakeInv, PhaseInv, Scheduled, Quiet, Waits, EMBEDDED, TypeOK
    <2>5. ReturnsQuiescent'
      BY DEF ReturnsQuiescent, PhaseInv, WakeInv, Quiet, Waits, EMBEDDED, TypeOK
    <2>6. QED
      BY <2>1, <2>2, <2>3, <2>4, <2>5
  <1>16. ASSUME EngineFails PROVE RunInv'
    <2> USE <1>16 DEF EngineFails, Panic
    <2>1. TypeOK'
      BY DEF TypeOK, EMBEDDED, SLOTS
    <2>2. EngineSlotFree'
      BY DEF EngineSlotFree, SLOTS, EMBEDDED
    <2>3. PhaseInv'
      BY DEF PhaseInv, EMBEDDED, TypeOK
    <2>4. WakeInv'
      BY DEF WakeInv, PhaseInv, Scheduled, Quiet, Waits, EMBEDDED, TypeOK
    <2>5. ReturnsQuiescent'
      BY DEF ReturnsQuiescent, PhaseInv, WakeInv, Quiet, Waits, EMBEDDED, TypeOK
    <2>6. QED
      BY <2>1, <2>2, <2>3, <2>4, <2>5
  <1>17. ASSUME Wake PROVE RunInv'
    <2> USE <1>17 DEF Wake
    <2>1. TypeOK'
      BY DEF TypeOK, EMBEDDED, SLOTS
    <2>2. EngineSlotFree'
      BY DEF EngineSlotFree, SLOTS, EMBEDDED
    <2>3. PhaseInv'
      BY DEF PhaseInv, EMBEDDED, TypeOK
    <2>4. WakeInv'
      BY DEF WakeInv, PhaseInv, Scheduled, Quiet, Waits, EMBEDDED, TypeOK
    <2>5. ReturnsQuiescent'
      BY DEF ReturnsQuiescent, PhaseInv, WakeInv, Quiet, Waits, EMBEDDED, TypeOK
    <2>6. QED
      BY <2>1, <2>2, <2>3, <2>4, <2>5
  <1>18. ASSUME NEW r \in HIBANA_TYPED_ROLE_DOMAIN, Arrive(r) PROVE RunInv'
    <2> USE <1>18 DEF Arrive
    <2>1. TypeOK'
      BY DEF TypeOK, EMBEDDED, SLOTS
    <2>2. EngineSlotFree'
      BY DEF EngineSlotFree, SLOTS, EMBEDDED
    <2>3. PhaseInv'
      BY DEF PhaseInv, EMBEDDED, TypeOK
    <2>4. WakeInv'
      BY DEF WakeInv, PhaseInv, Scheduled, Quiet, Waits, EMBEDDED, TypeOK
    <2>5. ReturnsQuiescent'
      BY DEF ReturnsQuiescent, PhaseInv, WakeInv, Quiet, Waits, EMBEDDED, TypeOK
    <2>6. QED
      BY <2>1, <2>2, <2>3, <2>4, <2>5
  <1>19. ASSUME UNCHANGED vars PROVE RunInv'
    <2> USE <1>19 DEF vars
    <2>1. TypeOK'
      BY DEF TypeOK, EMBEDDED, SLOTS
    <2>2. EngineSlotFree'
      BY DEF EngineSlotFree, SLOTS, EMBEDDED
    <2>3. PhaseInv'
      BY DEF PhaseInv, EMBEDDED, TypeOK
    <2>4. WakeInv'
      BY DEF WakeInv, PhaseInv, Scheduled, Quiet, Waits, EMBEDDED, TypeOK
    <2>5. ReturnsQuiescent'
      BY DEF ReturnsQuiescent, PhaseInv, WakeInv, Quiet, Waits, EMBEDDED, TypeOK
    <2>6. QED
      BY <2>1, <2>2, <2>3, <2>4, <2>5
  <1>20. QED
    BY <1>1, <1>2, <1>3, <1>4, <1>5, <1>6, <1>7, <1>8, <1>9, <1>10, <1>11, <1>12, <1>13, <1>14, <1>15, <1>16, <1>17, <1>18, <1>19 DEF Next, Step, Attach

\* For any image, host or bare metal, the scheduler's invariant holds.
THEOREM RunInvariant == Spec => []RunInv
  <1>1. Init => RunInv
    BY InvInit
  <1>2. RunInv /\ [Next]_vars => RunInv'
    BY InvStep
  <1>3. QED
    BY <1>1, <1>2, PTL DEF Spec

\* appkit::run comes back, and safe_state is called, only when every requested
\* role was attached, no frame is left and the guest arena is free.
THEOREM ReturnsOnlyQuiescent == Spec => []ReturnsQuiescent
  <1>1. RunInv => ReturnsQuiescent
    BY DEF RunInv
  <1>2. QED
    BY <1>1, RunInvariant, PTL

-----------------------------------------------------------------------------
(* The WASI engine. *)

\* What appending the last completion does to a history of completions.
LEMMA Appended ==
  ASSUME NEW S, NEW s \in Seq(S), NEW v \in S
  PROVE  /\ Append(s, v) \in Seq(S)
         /\ Len(Append(s, v)) = Len(s) + 1
         /\ Append(s, v)[Len(s) + 1] = v
         /\ Len(s) \in Nat
  OBVIOUS

\* The engine starts with its lease in guest_storage and nothing in flight.
LEMMA EngineInvInit == EngineInit => EngineInv
  <1> SUFFICES ASSUME EngineInit PROVE EngineInv
    OBVIOUS
  <1>1. EngineTypeOK
    BY DEF EngineInit, EngineTypeOK
  <1>2. PlaceInv /\ LeaseOnce /\ GuestOnce
    BY DEF EngineInit, PlaceInv, LeaseOnce, GuestOnce
  <1>3. CallInv
    BY DEF EngineInit, CallInv, Running, Settled
  <1>4. QED
    BY <1>1, <1>2, <1>3 DEF EngineInv

\* Every step of an activation, of its end, of the driver and of the host that
\* drops the task preserves the invariant.
LEMMA EngineInvStep == EngineInv /\ [EngineNext]_engineVars => EngineInv'
  <1> SUFFICES ASSUME EngineInv, [EngineNext]_engineVars PROVE EngineInv'
    OBVIOUS
  <1> USE EngineAssumption
  <1> USE DEF EngineInv, arena, endpoint
  <1>1. CASE TakeKeptSlot
    <2> USE <1>1 DEF TakeKeptSlot
    <2>1. EngineTypeOK'
      BY DEF EngineTypeOK
    <2>2. PlaceInv' /\ LeaseOnce' /\ GuestOnce'
      BY DEF EngineTypeOK, PlaceInv, LeaseOnce, GuestOnce
    <2>3. CallInv'
      BY DEF CallInv, Running, Settled
    <2>4. QED
      BY <2>1, <2>2, <2>3
  <1>2. CASE InitSlot
    <2> USE <1>2 DEF InitSlot
    <2>1. EngineTypeOK'
      BY DEF EngineTypeOK
    <2>2. PlaceInv' /\ LeaseOnce' /\ GuestOnce'
      BY DEF EngineTypeOK, PlaceInv, LeaseOnce, GuestOnce
    <2>3. CallInv'
      BY DEF CallInv, Running, Settled
    <2>4. QED
      BY <2>1, <2>2, <2>3
  <1>3. CASE InitSlotFails
    <2> USE <1>3 DEF InitSlotFails, Release
    <2>1. EngineTypeOK'
      <3>1. occupied' \in BOOLEAN
        BY Zenon
      <3>2. boots' \in Nat /\ drops' \in Nat /\ releases' \in Nat
        BY DEF EngineTypeOK
      <3>3. QED
        BY <3>1, <3>2 DEF EngineTypeOK
    <2>2. PlaceInv' /\ LeaseOnce' /\ GuestOnce'
      BY DEF EngineTypeOK, PlaceInv, LeaseOnce, GuestOnce
    <2>3. CallInv'
      BY DEF CallInv, Running, Settled
    <2>4. QED
      BY <2>1, <2>2, <2>3
  <1>4. CASE ResumePending
    <2> USE <1>4 DEF ResumePending
    <2>1. EngineTypeOK'
      BY DEF EngineTypeOK
    <2>2. PlaceInv' /\ LeaseOnce' /\ GuestOnce'
      BY DEF EngineTypeOK, PlaceInv, LeaseOnce, GuestOnce
    <2>3. CallInv'
      BY DEF EngineTypeOK, CallInv, Running, Settled
    <2>4. QED
      BY <2>1, <2>2, <2>3
  <1>5. CASE ResumeEnds
    <2> USE <1>5 DEF ResumeEnds, Break
    <2>1. EngineTypeOK'
      BY DEF EngineTypeOK
    <2>2. PlaceInv' /\ LeaseOnce' /\ GuestOnce'
      BY DEF EngineTypeOK, PlaceInv, LeaseOnce, GuestOnce
    <2>3. CallInv'
      BY DEF CallInv, Running, Settled
    <2>4. QED
      BY <2>1, <2>2, <2>3
  <1>6. CASE SendRequest
    <2> USE <1>6 DEF SendRequest
    <2>1. EngineTypeOK'
      BY DEF EngineTypeOK
    <2>2. PlaceInv' /\ LeaseOnce' /\ GuestOnce'
      BY DEF EngineTypeOK, PlaceInv, LeaseOnce, GuestOnce
    <2>3. CallInv'
      BY DEF EngineTypeOK, CallInv, Running, Settled
    <2>4. QED
      BY <2>1, <2>2, <2>3
  <1>7. CASE RecvCompletion
    <2> USE <1>7 DEF RecvCompletion
    <2>1. EngineTypeOK'
      BY DEF EngineTypeOK
    <2>2. PlaceInv' /\ LeaseOnce' /\ GuestOnce'
      BY DEF EngineTypeOK, PlaceInv, LeaseOnce, GuestOnce
    <2>3. CallInv'
      BY DEF CallInv, Running, Settled
    <2>4. QED
      BY <2>1, <2>2, <2>3
  <1>8. CASE EndpointFails
    <2> USE <1>8 DEF EndpointFails, BreakEndpoint, Break
    <2>1. EngineTypeOK'
      BY DEF EngineTypeOK
    <2>2. PlaceInv' /\ LeaseOnce' /\ GuestOnce'
      BY DEF EngineTypeOK, PlaceInv, LeaseOnce, GuestOnce
    <2>3. CallInv'
      BY DEF CallInv, Running, Settled
    <2>4. QED
      BY <2>1, <2>2, <2>3
  <1>9. CASE Complete
    <2> USE <1>9 DEF Complete, Break
    <2>1. Len(answers) \in Nat /\ Len(results) \in Nat /\ calls \in Nat
      BY DEF EngineTypeOK
    <2>2. reply \in Value
      BY <2>1 DEF EngineTypeOK, CallInv
    <2>3. EngineTypeOK'
      <3>1. Append(results, reply) \in Seq(Value)
        BY <2>2, Appended DEF EngineTypeOK
      <3>2. QED
        BY <2>2, <3>1 DEF EngineTypeOK
    <2>4. PlaceInv' /\ LeaseOnce' /\ GuestOnce'
      BY DEF EngineTypeOK, PlaceInv, LeaseOnce, GuestOnce
    <2>5. Len(Append(results, reply)) = calls
      BY <2>2, Appended DEF EngineTypeOK, CallInv
    <2>6. CallInv'
      BY <2>5 DEF CallInv, Running, Settled
    <2>7. QED
      BY <2>3, <2>4, <2>6
  <1>10. CASE StoreSlot
    <2> USE <1>10 DEF StoreSlot
    <2>1. EngineTypeOK'
      BY DEF EngineTypeOK
    <2>2. PlaceInv' /\ LeaseOnce' /\ GuestOnce'
      BY DEF EngineTypeOK, PlaceInv, LeaseOnce, GuestOnce
    <2>3. CallInv'
      BY DEF CallInv, Running, Settled
    <2>4. QED
      BY <2>1, <2>2, <2>3
  <1>11. CASE DropTask
    <2> USE <1>11 DEF DropTask, Release
    <2>1. EngineTypeOK'
      <3>1. occupied' \in BOOLEAN
        BY Zenon DEF EngineTypeOK
      <3>2. drops' \in Nat /\ releases' \in Nat
        BY DEF EngineTypeOK
      <3>3. QED
        BY <3>1, <3>2 DEF EngineTypeOK
    <2>2. PlaceInv'
      BY DEF EngineTypeOK, PlaceInv
    <2>3. LeaseOnce'
      BY DEF EngineTypeOK, LeaseOnce
    <2>4. GuestOnce'
      BY DEF EngineTypeOK, PlaceInv, GuestOnce
    <2>5. CallInv'
      BY DEF CallInv, Running, Settled
    <2>6. QED
      BY <2>1, <2>2, <2>3, <2>4, <2>5
  <1>12. CASE DriverReplies
    <2> USE <1>12 DEF DriverReplies
    <2>1. PICK v \in Value : completion' = v /\ answers' = Append(answers, v)
      OBVIOUS
    <2>2. /\ answers' \in Seq(Value)
          /\ Len(answers') = Len(answers) + 1
          /\ answers'[Len(answers) + 1] = v
          /\ Len(answers) \in Nat
      BY <2>1, Appended DEF EngineTypeOK
    <2>3. EngineTypeOK'
      BY <2>1, <2>2 DEF EngineTypeOK
    <2>4. PlaceInv' /\ LeaseOnce' /\ GuestOnce'
      BY DEF PlaceInv, LeaseOnce, GuestOnce
    <2>5. CallInv'
      BY <2>1, <2>2 DEF EngineTypeOK, CallInv, Running, Settled
    <2>6. QED
      BY <2>3, <2>4, <2>5
  <1>13. CASE UNCHANGED engineVars
    <2> USE <1>13 DEF engineVars
    <2>1. EngineTypeOK'
      BY DEF EngineTypeOK
    <2>2. PlaceInv' /\ LeaseOnce' /\ GuestOnce'
      BY DEF PlaceInv, LeaseOnce, GuestOnce
    <2>3. CallInv'
      BY DEF CallInv, Running, Settled
    <2>4. QED
      BY <2>1, <2>2, <2>3
  <1>14. QED
    BY <1>1, <1>2, <1>3, <1>4, <1>5, <1>6, <1>7, <1>8, <1>9, <1>10, <1>11, <1>12, <1>13
    DEF EngineNext, Engine

-----------------------------------------------------------------------------
\* At every point of drive_wasi_guest one party holds the guest and the lease,
\* and at most the guest's last import is in flight, for every run of the
\* engine, on a host and on bare metal.
THEOREM EngineInvariant == EngineSpec => []EngineInv
  BY EngineInvInit, EngineInvStep, PTL DEF EngineSpec

\* The lease of the WASI arena is given back exactly once, and the arena is
\* marked free only then.
THEOREM LeaseReleasedOnce == EngineSpec => []LeaseOnce
  <1>1. EngineInv => LeaseOnce
    BY DEF EngineInv
  <1>2. QED
    BY <1>1, EngineInvariant, PTL

\* WasiGuestSlot::init runs once in the life of an engine, and the guest it
\* made is dropped once.
THEOREM GuestDroppedOnce == EngineSpec => []GuestOnce
  <1>1. EngineInv => GuestOnce
    BY DEF EngineInv
  <1>2. QED
    BY <1>1, EngineInvariant, PTL

\* Every step of the engine and its driver is a step of the remote call or
\* leaves its histories alone.
LEMMA CallStep ==
  EngineInv /\ [EngineNext]_engineVars
    => [Remote!Call \/ Remote!Answer \/ Remote!Return]_(Remote!callVars)
  <1> SUFFICES ASSUME EngineInv, [EngineNext]_engineVars
               PROVE  \/ Remote!Call \/ Remote!Answer \/ Remote!Return
                      \/ UNCHANGED <<calls, answers, results>>
    BY DEF Remote!callVars
  <1> USE EngineAssumption
  <1> USE DEF EngineInv, endpoint
  <1>1. CASE ResumePending
    BY <1>1 DEF ResumePending, CallInv, Running, Remote!Call
  <1>2. CASE DriverReplies
    BY <1>2 DEF DriverReplies, CallInv, Remote!Answer
  <1>3. CASE Complete
    <2>1. /\ Len(results) \in Nat
          /\ Len(answers) = Len(results) + 1
          /\ reply = answers[Len(results) + 1]
      BY <1>3 DEF Complete, EngineTypeOK, CallInv
    <2>2. \/ UNCHANGED <<calls, answers, results>>
          \/ /\ results' = Append(results, answers[Len(results) + 1])
             /\ UNCHANGED <<calls, answers>>
      BY <1>3, <2>1 DEF Complete
    <2>3. QED
      BY <2>1, <2>2 DEF Remote!Return
  <1>4. CASE TakeKeptSlot \/ InitSlot \/ InitSlotFails \/ StoreSlot \/ DropTask
    BY <1>4 DEF TakeKeptSlot, InitSlot, InitSlotFails, StoreSlot, DropTask
  <1>5. CASE ResumeEnds \/ SendRequest \/ RecvCompletion \/ EndpointFails
    BY <1>5 DEF ResumeEnds, SendRequest, RecvCompletion, EndpointFails
  <1>6. CASE UNCHANGED engineVars
    BY <1>6 DEF engineVars
  <1>7. QED
    BY <1>1, <1>2, <1>3, <1>4, <1>5, <1>6 DEF EngineNext, Engine

\* The engine implements the remote call: every import of the guest completes
\* with the driver's completion for that import and with no other.
THEOREM EngineRefinesRemoteCall == EngineSpec => CallsAreRemote
  <1>1. EngineInit => Remote!CallInit
    BY DEF EngineInit, Remote!CallInit
  <1>2. QED
    BY <1>1, EngineInvariant, CallStep, PTL DEF EngineSpec, CallsAreRemote, Remote!CallSpec
=============================================================================
