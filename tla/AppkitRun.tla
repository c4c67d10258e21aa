----------------------------- MODULE AppkitRun ------------------------------
(***************************************************************************)
(* One call of appkit::run for a logical image: projection of the          *)
(* requested roles, registration of their resolvers, attachment of each    *)
(* role through the rendezvous, and the fixed scheduler that polls the     *)
(* role tasks.  On a host poll_until_quiescent polls until a pass wakes    *)
(* nobody and the run returns; on bare metal poll_forever never returns    *)
(* and sleeps in WFE, and a WASI engine takes over inside its own visit.   *)
(*                                                                         *)
(* image       the logical image: requested roles, their kinds, whether    *)
(*             the artifact is a WasiImage, and whether its carrier spins: *)
(*             its poll_recv wakes the task whenever it returns Pending    *)
(* rest[r]     where the task of role r goes on when it is polled: "runs"  *)
(*             (not polled yet, or it yielded), "recv" (in a pending       *)
(*             poll_recv) or "parked" (in appkit::pending, for good)       *)
(* phase       where the call is; "exited" is embedded_observe_forever     *)
(* attached    the roles whose endpoint was entered                        *)
(* slots, idx  the scheduled role tasks; the one that is polled next       *)
(* engine      the role of the blocking WASI engine, whose state lives in  *)
(*             the last slot                                               *)
(* woke        the wake flag of the current pass                           *)
(* event       the event register of the core (WFE and SEV)                *)
(* inbox       the roles with a frame the carrier holds for them           *)
(* leased      WasiGuestArena.occupied                                     *)
(* safe        LogicalImage::safe_state was called                         *)
(* budget      frames that may still be sent                               *)
(***************************************************************************)
EXTENDS Naturals, Sequences, FiniteSets

CONSTANTS
  Image,       \* the logical images to run, each built for a host or for bare
               \* metal (target_os = "none")
  NoRole,
  MaxFrames    \* bound: frames sent in a behaviour

HIBANA_TYPED_ROLE_DOMAIN == 0..15
RoleKind == {"Engine", "Driver", "Boundary"}

ASSUME RunAssumption ==
  /\ \A i \in Image : /\ i.requested # {}
                      /\ i.requested \subseteq HIBANA_TYPED_ROLE_DOMAIN
                      /\ i.kind \in [i.requested -> RoleKind]
                      /\ i.wasi \in BOOLEAN
                      /\ i.embedded \in BOOLEAN
                      /\ i.spins \in BOOLEAN
  /\ NoRole \notin HIBANA_TYPED_ROLE_DOMAIN
  /\ MaxFrames \in Nat

VARIABLES image, rest, phase, attached, slots, idx, engine, woke, event, inbox,
          leased, safe, budget

EMBEDDED == image.embedded

\* APPKIT_EMBEDDED_ROLE_SLOTS or APPKIT_CARRIER_ROLES task slots.
SLOTS == IF EMBEDDED THEN 4 ELSE 16

vars == <<image, rest, phase, attached, slots, idx, engine, woke, event, inbox,
          leased, safe, budget>>

Rest == {"runs", "recv", "parked"}

Init ==
  /\ image \in Image
  /\ rest = [r \in HIBANA_TYPED_ROLE_DOMAIN |-> "runs"]
  /\ phase = "project"
  /\ attached = {}
  /\ slots = <<>>
  /\ idx = 1
  /\ engine = NoRole
  /\ woke = FALSE
  /\ event = FALSE
  /\ inbox = {}
  /\ leased = FALSE
  /\ safe = FALSE
  /\ budget = MaxFrames

-----------------------------------------------------------------------------
(* Leaving the run: a panic unwinds on a host, dropping the tasks and with *)
(* them the lease of the guest arena; on bare metal the core halts.        *)

Panic ==
  /\ phase' = "panic"
  /\ leased' = (leased /\ EMBEDDED)

-----------------------------------------------------------------------------
(* Projection and attachment.                                              *)

\* collect_projected_roles and the assertions of run_with_artifact: every
\* requested role is projected once, so roles and count match the request.
Project ==
  /\ phase = "project"
  /\ phase' = "attach"
  /\ UNCHANGED <<image, rest, attached, slots, idx, engine, woke, event, inbox,
                 leased, safe, budget>>

\* visit_requested_projected_roles visits the requested roles in ascending
\* order, the attach visitor after the resolver visitor.
NextRole(r) ==
  /\ r \in image.requested \ attached
  /\ \A q \in image.requested \ attached : r <= q

Blocking(r) == image.wasi /\ image.kind[r] = "Engine"

\* RendezvousKit::enter fails, or the arena of the guest is leased already,
\* or no scheduler slot is free: the visit panics.
AttachFails(r) ==
  /\ phase = "attach" /\ NextRole(r)
  /\ Panic
  /\ UNCHANGED <<image, rest, attached, slots, idx, engine, woke, event, inbox, safe, budget>>

\* A slot of the scheduler is left.
SlotFree == Len(slots) < SLOTS

\* A role task is pushed: a localside future, or on a host the future that
\* drives the WASI guest in the arena leased for it.
PushTask(r) ==
  /\ phase = "attach" /\ NextRole(r)
  /\ ~(EMBEDDED /\ Blocking(r))
  /\ SlotFree
  /\ Blocking(r) => ~leased
  /\ leased' = (leased \/ Blocking(r))
  /\ slots' = Append(slots, r)
  /\ attached' = attached \cup {r}
  /\ UNCHANGED <<image, rest, phase, idx, engine, woke, event, inbox, safe, budget>>

MutStartEngine(r) ==
  /\ phase = "attach" /\ NextRole(r)
  /\ EMBEDDED /\ Blocking(r)
  /\ ~leased
  /\ leased' = TRUE
  /\ engine' = r
  /\ attached' = attached \cup {r}
  /\ phase' = "first"
  /\ UNCHANGED <<image, rest, slots, idx, woke, event, inbox, safe, budget>>

\* On bare metal the visit of a WASI engine stores the engine state in the
\* last slot and never returns: run_canonical_wasi_engine_forever polls the
\* tasks attached so far once, without looking at the wake flag.
StartEngine(r) ==
  /\ phase = "attach" /\ NextRole(r)
  /\ EMBEDDED /\ Blocking(r)
  /\ SlotFree
  /\ ~leased
  /\ leased' = TRUE
  /\ engine' = r
  /\ attached' = attached \cup {r}
  /\ phase' = "first"
  /\ UNCHANGED <<image, rest, slots, idx, woke, event, inbox, safe, budget>>

\* Every role is attached: poll_until_quiescent or poll_forever starts.
StartPolling ==
  /\ phase = "attach"
  /\ attached = image.requested
  /\ phase' = "pass"
  /\ UNCHANGED <<image, rest, attached, slots, idx, engine, woke, event, inbox,
                 leased, safe, budget>>

-----------------------------------------------------------------------------
(* A pass over the tasks.  The passes of the scheduler ("pass"), of the    *)
(* waits of a blocking engine ("side") and its first one share poll_once.  *)

Polling == phase \in {"pass", "side", "first"}

\* A future takes the frame held for its role and sends to roles of this image
\* whose frame slot in the carrier is free.
Deliver(r, targets) ==
  /\ targets \subseteq attached \ ({r} \cup inbox)
  /\ Cardinality(targets) <= budget
  /\ budget' = budget - Cardinality(targets)
  /\ inbox' = (inbox \ {r}) \cup targets

\* The future cannot go on: it is parked, or no frame has come.
Waits(r) == rest[r] = "parked" \/ (rest[r] = "recv" /\ r \notin inbox)

MutTaskWaits(r) ==
  /\ Waits(r)
  /\ woke' = (woke \/ rest[r] = "recv")
  /\ UNCHANGED <<rest, inbox, budget>>

\* poll_recv returns Pending again; a carrier that spins wakes its caller.
TaskWaits(r) ==
  /\ Waits(r)
  /\ woke' = (woke \/ (rest[r] = "recv" /\ image.spins))
  /\ UNCHANGED <<rest, inbox, budget>>

\* The future runs until it waits for a frame, parks or, having received or
\* sent, yields.  The context it is polled with is woken by a send to a role of
\* this image, by a yield, by the Pending of a carrier that spins, and over
\* some carriers by a frame received.
TaskRuns(r) ==
  /\ ~Waits(r)
  /\ \E targets \in SUBSET attached, to \in Rest, received \in BOOLEAN :
       /\ Deliver(r, targets)
       /\ to = "runs" => r \in inbox \/ targets # {}
       /\ received => r \in inbox
       /\ rest' = [rest EXCEPT ![r] = to]
       /\ woke' = (woke \/ targets # {} \/ to = "runs" \/ (to = "recv" /\ image.spins) \/ received)

PollTask ==
  /\ Polling /\ idx <= Len(slots)
  /\ TaskWaits(slots[idx]) \/ TaskRuns(slots[idx])
  /\ idx' = idx + 1
  /\ UNCHANGED <<image, phase, attached, slots, engine, event, leased, safe>>

\* A task returned Err: the scheduler panics.
TaskFails ==
  /\ Polling /\ idx <= Len(slots)
  /\ Panic
  /\ UNCHANGED <<image, rest, attached, slots, idx, engine, woke, event, inbox, safe, budget>>

MutEndPassLost ==
  /\ phase = "pass" /\ ~EMBEDDED /\ idx > Len(slots)
  /\ phase' = "returned"
  /\ leased' = FALSE
  /\ idx' = 1
  /\ woke' = FALSE
  /\ UNCHANGED <<image, rest, attached, slots, engine, event, inbox, safe, budget>>

\* Host: the pass is over and observed.  Another one follows if some task
\* woke; otherwise attach_projected_roles returns, dropping the tasks.
EndPassHost ==
  /\ phase = "pass" /\ ~EMBEDDED /\ idx > Len(slots)
  /\ phase' = IF woke THEN "pass" ELSE "returned"
  /\ leased' = (leased /\ woke)
  /\ idx' = 1
  /\ woke' = FALSE
  /\ UNCHANGED <<image, rest, attached, slots, engine, event, inbox, safe, budget>>

MutEndPassEmbedded ==
  /\ phase = "pass" /\ EMBEDDED /\ idx > Len(slots)
  /\ phase' = "wfe"
  /\ idx' = 1
  /\ woke' = FALSE
  /\ UNCHANGED <<image, rest, attached, slots, engine, event, inbox, leased, safe, budget>>

\* Bare metal: sleep in WFE unless some task woke.
EndPassEmbedded ==
  /\ phase = "pass" /\ EMBEDDED /\ idx > Len(slots)
  /\ phase' = IF woke THEN "pass" ELSE "wfe"
  /\ idx' = 1
  /\ woke' = FALSE
  /\ UNCHANGED <<image, rest, attached, slots, engine, event, inbox, leased, safe, budget>>

\* I::init and safe_state, after the attach call came back.
SafeState ==
  /\ phase = "returned"
  /\ safe' = TRUE
  /\ phase' = "done"
  /\ UNCHANGED <<image, rest, attached, slots, idx, engine, woke, event, inbox, leased, budget>>

-----------------------------------------------------------------------------
(* The blocking WASI engine of a bare-metal image.                         *)

\* The first pass over the tasks is over: drive_wasi_guest_blocking starts.
EndFirstPass ==
  /\ phase = "first" /\ idx > Len(slots)
  /\ phase' = "engine"
  /\ idx' = 1
  /\ woke' = FALSE
  /\ UNCHANGED <<image, rest, attached, slots, engine, event, inbox, leased, safe, budget>>

\* The guest runs to an import whose request is sent or whose completion is
\* there, or its budget expires: the loop goes on.
EngineReady ==
  /\ phase = "engine"
  /\ \E targets \in SUBSET attached : Deliver(engine, targets)
  /\ UNCHANGED <<image, rest, phase, attached, slots, idx, engine, woke, event, leased, safe>>

\* The endpoint future is pending, waking its context if the carrier spins: the
\* other tasks of the image get a pass.
EnginePending ==
  /\ phase = "engine"
  /\ engine \notin inbox
  /\ phase' = "side"
  /\ woke' = image.spins
  /\ UNCHANGED <<image, rest, attached, slots, idx, engine, event, inbox, leased, safe, budget>>

\* After that pass: poll the endpoint again, or sleep first.
EndSidePass ==
  /\ phase = "side" /\ idx > Len(slots)
  /\ phase' = IF woke THEN "engine" ELSE "wfe"
  /\ idx' = 1
  /\ UNCHANGED <<image, rest, attached, slots, engine, woke, event, inbox, leased, safe, budget>>

\* The guest exited or its endpoint ended: nothing is polled from now on.
EngineExits ==
  /\ phase = "engine"
  /\ phase' = "exited"
  /\ UNCHANGED <<image, rest, attached, slots, idx, engine, woke, event, inbox, leased, safe, budget>>

EngineFails ==
  /\ phase = "engine"
  /\ Panic
  /\ UNCHANGED <<image, rest, attached, slots, idx, engine, woke, event, inbox, safe, budget>>

-----------------------------------------------------------------------------
(* The core's event register.                                              *)

\* WFE returns when the event register is set and clears it.
Wake ==
  /\ phase = "wfe" /\ event
  /\ event' = FALSE
  /\ phase' = IF engine = NoRole THEN "pass" ELSE "engine"
  /\ woke' = FALSE
  /\ UNCHANGED <<image, rest, attached, slots, idx, engine, inbox, leased, safe, budget>>

\* The carrier receives a frame from another core, which signals this one.
Arrive(r) ==
  /\ EMBEDDED /\ phase # "panic"
  /\ r \in image.requested \ inbox
  /\ budget > 0
  /\ budget' = budget - 1
  /\ inbox' = inbox \cup {r}
  /\ event' = TRUE
  /\ UNCHANGED <<image, rest, phase, attached, slots, idx, engine, woke, leased, safe>>

-----------------------------------------------------------------------------
Attach ==
  \E r \in image.requested : AttachFails(r) \/ PushTask(r) \/ StartEngine(r)

\* The steps of the calling core.
Step ==
  \/ Project
  \/ Attach
  \/ StartPolling
  \/ PollTask
  \/ TaskFails
  \/ EndPassHost
  \/ EndPassEmbedded
  \/ SafeState
  \/ EndFirstPass
  \/ EngineReady
  \/ EnginePending
  \/ EndSidePass
  \/ EngineExits
  \/ EngineFails
  \/ Wake

Next == Step \/ \E r \in HIBANA_TYPED_ROLE_DOMAIN : Arrive(r)

\* The processor keeps executing: one core, one control flow.
Spec == Init /\ [][Next]_vars /\ WF_vars(Step)

-----------------------------------------------------------------------------
TypeOK ==
  /\ image \in Image
  /\ rest \in [HIBANA_TYPED_ROLE_DOMAIN -> Rest]
  /\ phase \in {"project", "attach", "pass", "returned", "done", "panic", "first",
                "engine", "side", "wfe", "exited"}
  /\ attached \subseteq image.requested
  /\ slots \in Seq(attached) /\ Len(slots) <= SLOTS
  /\ idx \in 1..(SLOTS + 1)
  /\ engine \in attached \cup {NoRole}
  /\ woke \in BOOLEAN /\ event \in BOOLEAN /\ leased \in BOOLEAN /\ safe \in BOOLEAN
  /\ inbox \subseteq image.requested
  /\ budget \in 0..MaxFrames

\* The state of the blocking engine is written over the last slot of the
\* future arena: no role task may live there while tasks are still polled.
EngineSlotFree == engine # NoRole => Len(slots) < SLOTS

\* The scheduler's slots: well typed, and the engine's is its own.
SlotsInv == TypeOK /\ EngineSlotFree

\* A poll of the task would change nothing: it is parked, or it waits for a
\* frame that has not come, over a carrier that will not wake it for that.
Quiet(r) == Waits(r) /\ ~(rest[r] = "recv" /\ image.spins)

\* The run returns only when the image is quiescent: every requested role was
\* attached, no task could go on or was woken (so over a carrier that spins
\* every task is parked), and the guest arena is free for the next run.
ReturnsQuiescent ==
  phase \in {"returned", "done"} =>
    /\ attached = image.requested
    /\ \A r \in attached : Quiet(r)
    /\ ~leased

-----------------------------------------------------------------------------
(* Why the two hold: an invariant that no step breaks.                     *)

\* Tasks are attached before any is polled, and only a bare-metal image has a
\* blocking engine or sleeps, and never returns.
PhaseInv ==
  /\ phase \in {"project", "attach"} => engine = NoRole /\ idx = 1
  /\ phase \in {"first", "engine", "side"} => EMBEDDED /\ engine # NoRole
  /\ phase = "wfe" => EMBEDDED
  /\ phase \in {"returned", "done"} => ~EMBEDDED
  /\ idx <= Len(slots) + 1

Scheduled(r, from) == \E i \in from..Len(slots) : slots[i] = r

\* On a host every attached role has a task; and in a pass every task is still
\* to be polled, or has nothing to do, or its wake will cause another pass.
WakeInv ==
  ~EMBEDDED =>
    /\ \A r \in attached : Scheduled(r, 1)
    /\ phase = "pass" => attached = image.requested
    /\ phase = "pass" /\ ~woke => \A r \in attached : Quiet(r) \/ Scheduled(r, idx)

\* All of it together.
RunInv == SlotsInv /\ PhaseInv /\ WakeInv /\ ReturnsQuiescent

-----------------------------------------------------------------------------
\* On a host the run comes back and then safe_state is called, unless the run
\* panics or some task goes on waiting over a carrier that spins: then every pass
\* is woken, and there is always another.
HostRunEnds ==
  ~EMBEDDED => \/ <>(safe \/ phase = "panic")
               \/ image.spins /\ <>[](\E r \in attached : rest[r] = "recv")

\* A frame held for a role task of an image without a WASI guest is taken, unless
\* the task has parked: no wake is lost between the poll of the task, the check of
\* the wake flag and the WFE.
FrameServed ==
  \A r \in HIBANA_TYPED_ROLE_DOMAIN :
    (r \in inbox /\ ~image.wasi) ~> (r \notin inbox \/ rest[r] = "parked" \/ phase = "panic")
=============================================================================
