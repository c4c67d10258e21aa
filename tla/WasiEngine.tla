----------------------------- MODULE WasiEngine -----------------------------
(***************************************************************************)
(* The canonical WASI engine of appkit: CanonicalWasiEngine drives one     *)
(* WASI guest, sends each import (or memory.grow) request of the guest to  *)
(* the driver role through its endpoint, waits for the completion and      *)
(* resumes the guest with it.  A guest whose budget expires is kept for    *)
(* the next activation.                                                    *)
(*                                                                         *)
(* embedded    target_os = "none": an endpoint error is not a failure      *)
(* pc          where drive_wasi_guest and its caller are; "parked" is the  *)
(*             engine after the guest's exit, "dropped" an engine that was *)
(*             dropped with its task                                       *)
(* place       who holds the lease of the guest arena: the engine's        *)
(*             guest_storage, the local guest_slot of an activation, the   *)
(*             engine's guest_slot, or nobody                              *)
(* occupied    WasiGuestArena.occupied                                     *)
(* boots, drops, releases                                                  *)
(*             histories: guests initialised, guest storages dropped,      *)
(*             leases given back                                           *)
(* result      what the current activation returned                        *)
(* request, completion                                                     *)
(*             the endpoint: a request the driver has not answered, a      *)
(*             completion the engine has not received                      *)
(* reply       the completion received for the pending import              *)
(* calls, answers, results                                                 *)
(*             histories: imports the guest called, completions the driver *)
(*             sent, completions handed to the guest                       *)
(***************************************************************************)
EXTENDS Naturals, Sequences

CONSTANTS
  Value,      \* completions a driver may send
  NoValue,
  MaxCalls    \* bound: imports a guest calls

ASSUME EngineAssumption ==
  /\ NoValue \notin Value
  /\ MaxCalls \in Nat

VARIABLES embedded, pc, place, occupied, boots, drops, releases, result, request,
          completion, reply, calls, answers, results

arena == <<place, occupied, boots, drops, releases>>
endpoint == <<request, completion, answers>>
engineVars == <<embedded, pc, arena, endpoint, result, reply, calls, results>>

\* AttachProjectedRoles::visit leased the arena for the engine.
EngineInit ==
  /\ embedded \in BOOLEAN
  /\ pc = "take"
  /\ place = "storage"
  /\ occupied = TRUE
  /\ boots = 0 /\ drops = 0 /\ releases = 0
  /\ result = "none"
  /\ request = 0
  /\ completion = NoValue
  /\ reply = NoValue
  /\ calls = 0
  /\ answers = <<>>
  /\ results = <<>>

-----------------------------------------------------------------------------
(* The lease.                                                              *)

Release == occupied' = FALSE /\ releases' = releases + 1

\* take_wasi_guest_slot: the guest kept from an activation that ran out of
\* budget goes on.
TakeKeptSlot ==
  /\ pc = "take" /\ place = "kept"
  /\ place' = "slot"
  /\ pc' = "resume"
  /\ UNCHANGED <<embedded, occupied, boots, drops, releases, endpoint, result, reply, calls, results>>

\* WasiGuestSlot::init: a guest is set up in zeroed memory ...
InitSlot ==
  /\ pc = "take" /\ place = "storage"
  /\ place' = "slot"
  /\ boots' = boots + 1
  /\ pc' = "resume"
  /\ UNCHANGED <<embedded, occupied, drops, releases, endpoint, result, reply, calls, results>>

\* ... or the module is rejected: the half-built slot is dropped with its
\* storage and its lease, and the error leaves drive_wasi_guest at once.
InitSlotFails ==
  /\ pc = "take" /\ place = "storage"
  /\ boots' = boots + 1
  /\ drops' = drops + 1
  /\ place' = "nobody"
  /\ Release
  /\ result' = "rejected"
  /\ pc' = "failed"
  /\ UNCHANGED <<embedded, endpoint, reply, calls, results>>

-----------------------------------------------------------------------------
(* The loop of an activation.                                              *)

Break(r) == result' = r /\ pc' = "store"

\* An endpoint error ends a host activation with an error, an embedded one
\* with TerminalEndpoint.
BreakEndpoint == Break(IF embedded THEN "TerminalEndpoint" ELSE "rejected")

\* resume_wasi_boundary: the guest reaches an import or memory.grow.
ResumePending ==
  /\ pc = "resume"
  /\ calls < MaxCalls
  /\ calls' = calls + 1
  /\ pc' = "send"
  /\ UNCHANGED <<embedded, arena, endpoint, result, reply, results>>

\* The budget expires, the guest exits, or the runtime rejects a step.
ResumeEnds ==
  /\ pc = "resume"
  /\ \E r \in {"BudgetExpired", "Exit", "rejected"} : Break(r)
  /\ UNCHANGED <<embedded, arena, endpoint, reply, calls, results>>

MutSendLost ==
  /\ pc = "send"
  /\ pc' = "recv"
  /\ UNCHANGED <<embedded, arena, endpoint, result, reply, calls, results>>

\* send_wasi_import_request / send_memory_grow_request.
SendRequest ==
  /\ pc = "send"
  /\ request' = calls
  /\ pc' = "recv"
  /\ UNCHANGED <<embedded, arena, completion, answers, result, reply, calls, results>>

MutRecvCompletion ==
  /\ pc = "recv" /\ completion # NoValue
  /\ reply' = completion
  /\ pc' = "complete"
  /\ UNCHANGED <<embedded, arena, endpoint, result, calls, results>>

\* recv_wasi_import_completion / recv_memory_grow_decision.
RecvCompletion ==
  /\ pc = "recv" /\ completion # NoValue
  /\ reply' = completion
  /\ completion' = NoValue
  /\ pc' = "complete"
  /\ UNCHANGED <<embedded, arena, request, answers, result, calls, results>>

EndpointFails ==
  /\ pc \in {"send", "recv"}
  /\ BreakEndpoint
  /\ UNCHANGED <<embedded, arena, endpoint, reply, calls, results>>

\* pending.complete hands the completion to the guest, or the runtime rejects
\* it.
Complete ==
  /\ pc = "complete"
  /\ reply' = NoValue
  /\ \/ /\ results' = Append(results, reply)
        /\ pc' = "resume"
        /\ UNCHANGED result
     \/ /\ Break("rejected")
        /\ UNCHANGED results
  /\ UNCHANGED <<embedded, arena, endpoint, calls>>

-----------------------------------------------------------------------------
(* The end of an activation.                                               *)

MutStoreSlot ==
  /\ pc = "store"
  /\ place' = "storage" /\ drops' = drops + 1
  /\ pc' = CASE result = "BudgetExpired" -> "take"
             [] result = "rejected" -> "failed"
             [] OTHER -> "parked"
  /\ UNCHANGED <<embedded, occupied, boots, releases, endpoint, result, reply, calls, results>>

\* store_wasi_guest_slot keeps an expired guest and finishes any other: the
\* guest is dropped and its lease goes back to the engine.  The caller loops
\* after BudgetExpired, parks after Exit (and TerminalEndpoint), and fails.
StoreSlot ==
  /\ pc = "store"
  /\ IF result = "BudgetExpired"
     THEN place' = "kept" /\ UNCHANGED drops
     ELSE place' = "storage" /\ drops' = drops + 1
  /\ pc' = CASE result = "BudgetExpired" -> "take"
             [] result = "rejected" -> "failed"
             [] OTHER -> "parked"
  /\ UNCHANGED <<embedded, occupied, boots, releases, endpoint, result, reply, calls, results>>

\* A host drops the engine's task when the run ends: before its first poll, at
\* a point where its future is suspended, or after its failure.  The slot of
\* an activation is dropped with the guest in it, then the lease, whoever
\* holds it.
DropTask ==
  /\ ~embedded
  /\ pc \in {"send", "recv", "parked", "failed"} \/ (pc = "take" /\ place = "storage")
  /\ pc' = "dropped"
  /\ drops' = IF place = "slot" THEN drops + 1 ELSE drops
  /\ place' = "nobody"
  /\ IF place = "nobody" THEN UNCHANGED <<occupied, releases>> ELSE Release
  /\ UNCHANGED <<embedded, boots, endpoint, result, reply, calls, results>>

-----------------------------------------------------------------------------
(* The driver role, on the other side of the endpoint.                     *)

DriverReplies ==
  /\ request # 0
  /\ \E v \in Value : completion' = v /\ answers' = Append(answers, v)
  /\ request' = 0
  /\ UNCHANGED <<embedded, pc, arena, result, reply, calls, results>>

-----------------------------------------------------------------------------
\* The steps of the engine's loop when nothing fails around it.
Engine ==
  \/ TakeKeptSlot
  \/ InitSlot
  \/ ResumePending
  \/ ResumeEnds
  \/ SendRequest
  \/ RecvCompletion
  \/ Complete
  \/ StoreSlot

EngineNext == Engine \/ InitSlotFails \/ EndpointFails \/ DropTask \/ DriverReplies

\* The engine's loop and the driver's task keep being polled.
EngineSpec == EngineInit /\ [][EngineNext]_engineVars /\ WF_engineVars(Engine) /\ WF_engineVars(DriverReplies)

-----------------------------------------------------------------------------
EngineTypeOK ==
  /\ embedded \in BOOLEAN
  /\ pc \in {"take", "resume", "send", "recv", "complete", "store", "parked",
             "failed", "dropped"}
  /\ place \in {"storage", "slot", "kept", "nobody"}
  /\ occupied \in BOOLEAN
  /\ boots \in Nat /\ drops \in Nat /\ releases \in Nat
  /\ result \in {"none", "BudgetExpired", "Exit", "TerminalEndpoint", "rejected"}
  /\ request \in 0..calls
  /\ completion \in Value \cup {NoValue}
  /\ reply \in Value \cup {NoValue}
  /\ calls \in Nat
  /\ answers \in Seq(Value)
  /\ results \in Seq(Value)

\* The lease of the arena is given back exactly once, whatever ends the
\* engine, and occupied is cleared only then: never while a guest lives in it.
LeaseOnce ==
  /\ occupied <=> place # "nobody"
  /\ releases = IF place = "nobody" THEN 1 ELSE 0

\* A guest is initialised once in the life of an engine, not again after an
\* expired budget, and its storage is dropped once.
GuestOnce ==
  /\ boots <= 1
  /\ drops = IF place \in {"slot", "kept"} THEN 0 ELSE boots

\* Every import completes with the driver's completion for that import: none
\* is answered locally, twice, out of order or across an activation.
Remote == INSTANCE RemoteCall
CallsAreRemote == Remote!CallSpec

-----------------------------------------------------------------------------
(* Why the properties hold: an invariant that no step breaks.              *)

\* An activation owns its guest in a local slot; between activations an
\* expired guest is kept, and only the first activation finds bare storage.
PlaceInv ==
  /\ place = "slot" <=> pc \in {"resume", "send", "recv", "complete", "store"}
  /\ place = "kept" => pc = "take"
  /\ place = "nobody" => pc \in {"failed", "dropped"}
  /\ pc = "dropped" => place = "nobody"
  /\ place \in {"slot", "kept"} => boots = 1
  /\ pc = "take" /\ place = "storage" => boots = 0

\* The guest runs or will be resumed: every call of it has returned.
Running == pc \in {"take", "resume"} \/ (pc = "store" /\ result = "BudgetExpired")

Settled == request = 0 /\ completion = NoValue

\* What is in flight between engine and driver at each point of the loop.
CallInv ==
  /\ request # 0 => Len(answers) < calls
  /\ Running => Settled /\ Len(answers) = calls /\ Len(results) = calls
  /\ pc = "send" => Settled /\ Len(answers) + 1 = calls /\ Len(results) + 1 = calls
  /\ pc = "recv" =>
       /\ Len(results) + 1 = calls
       /\ request # 0 => completion = NoValue /\ Len(answers) + 1 = calls
       /\ request = 0 => Len(answers) = calls /\ completion = answers[calls]
  /\ pc = "complete" =>
       /\ Settled /\ Len(answers) = calls /\ Len(results) + 1 = calls
       /\ reply = answers[calls]

\* All of it together: at every point of the engine's loop one party holds the
\* guest and its lease, and at most the last call is in flight.
EngineInv == EngineTypeOK /\ PlaceInv /\ LeaseOnce /\ GuestOnce /\ CallInv

-----------------------------------------------------------------------------
\* A request the engine sent is completed or ends the activation: the engine
\* does not wait for a completion nobody owes it.
RequestSettled ==
  \A n \in 1..MaxCalls :
    (pc = "recv" /\ calls = n) ~> (Len(results) >= n \/ pc \in {"store", "parked", "failed", "dropped"})
=============================================================================
