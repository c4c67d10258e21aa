------------------------------ MODULE EpfLoad ------------------------------
(***************************************************************************)
(* Loading an EPF image into the running firmware of Baker or Pico 2 W.  A *)
(* debug probe writes an image, its length and its hash into shared RAM    *)
(* and last the commit word; both cores poll for it, verify, load it into  *)
(* the VM of their own and publish it as the active image, which a core    *)
(* that did not load it picks up.  The policy capsule also carries the     *)
(* image from the driver to the engine as a message, and on the Pico 2 W   *)
(* takes it from UART0, where the interrupt handler and the waiting driver *)
(* feed one parser.  No lock protects any of it.                           *)
(*                                                                         *)
(* site        the capsule, the ingress and the commits of the probe       *)
(* up          the cores that run the capsule                              *)
(* state, len, hash, image    HIBANA_EPF_BYTECODE_*                        *)
(* active, activeLen, digest  HIBANA_EPF_ACTIVE_*, HIBANA_EPF_IMAGE_DIGEST *)
(* local[c]    HIBANA_EPF_COREc_IMAGE_DIGEST                               *)
(* target      HIBANA_EPF_ACTIVE_TARGET_KIND and _POLICY_ID, as the image  *)
(*             they were taken from                                        *)
(* reason      HIBANA_EPF_LOAD_REASON                                      *)
(* vm[c]       what the EPF storage of core c holds                        *)
(* job[c]      where core c stands in a load, its copy of an image, and the *)
(*             policy_image the driver holds                               *)
(* task[c]     the localside: driver (core 0) or engine (core 1)           *)
(* message     the EpfPolicyImage on its way to the engine                 *)
(* owed[c]     an event of this firmware set core c's event register       *)
(* irqSeen     BAKER_TIMER_ALARM0_READY                                    *)
(* probe       where the probe stands, and the commits it made             *)
(* spool[c]    the tap spool: events kept, events read                     *)
(* tap[c]      tap events: emitted by Hibana, taken, run through the VM    *)
(* uart        UART0: pieces on the line, the piece the driver holds, what *)
(*             ImageIngress has, RX_READY, transmissions of the host       *)
(*                                                                         *)
(* An image is a function of its cells; a cell is named by the image it    *)
(* belongs to.  The hash of cells of one image is that image, of mixed     *)
(* cells something else; Epf::load refuses mixed cells by their own hash.  *)
(***************************************************************************)
EXTENDS Naturals, Sequences, FiniteSets

CONSTANTS
  Site,                  \* capsule, ingress, images and faults of the commits
  PolicyImage,           \* the image with Target::Policy; the others observe
  Cells,                 \* cells of an image (EPF_BYTECODE_BYTES in the code)
  EPF_TAP_SPOOL_EVENTS,  \* 16 in the code
  None, Mixed,
  MaxEvents,             \* bound: tap events of both cores
  MaxUploads             \* bound: transmissions of the host on UART0

ASSUME EpfAssumption ==
  /\ \A s \in Site : /\ s.capsule \in {"diagnostic", "policy"}
                     /\ s.uart \in BOOLEAN
                     /\ s.commits \in Seq([image : STRING \ {None, Mixed},
                                            fault : {"none", "hash", "len"}])
  /\ PolicyImage \notin {None, Mixed} /\ None # Mixed
  /\ Cells \in Nat \ {0} /\ EPF_TAP_SPOOL_EVENTS \in Nat \ {0} /\ MaxEvents \in Nat
  /\ MaxUploads \in Nat

VARIABLES site, up, state, len, hash, image, active, activeLen, digest, local, target,
          reason, vm, job, task, message, owed, irqSeen, probe, spool, tap, uart

mailbox == <<state, len, hash, image>>
published == <<active, activeLen, digest, target>>
diagnostics == <<spool, tap>>
signals == <<message, owed, irqSeen>>
epfVars == <<site, up, mailbox, published, local, reason, vm, job, task, signals, probe,
             diagnostics, uart>>

Core == {0, 1}
Cell == 1..Cells
Blank == [k \in Cell |-> None]
Whole(i) == [k \in Cell |-> i]

\* epf_hash_image.
Digest(cells) == IF \A k \in Cell : cells[k] = cells[1] THEN cells[1] ELSE Mixed

\* Epf::load.
Accepts(cells) == Digest(cells) \notin {None, Mixed}

Idle == [at |-> "idle", then |-> "idle", image |-> Blank, digest |-> None, k |-> 1,
         held |-> Blank]
NoUart == [line |-> <<>>, held |-> <<>>, ingress |-> <<>>, ready |-> FALSE, uploads |-> 0]

EpfInit ==
  /\ site \in Site
  /\ state = "EMPTY" /\ len = 0 /\ hash = None /\ image = Blank
  /\ active = Blank /\ activeLen = 0 /\ digest = None /\ target = None
  /\ local = [c \in Core |-> None]
  /\ reason = "NONE"
  /\ vm = [c \in Core |-> Blank]
  /\ job = [c \in Core |-> Idle]
  /\ task = [c \in Core |-> IF site.capsule = "diagnostic" THEN "other"
                            ELSE IF c = 0 THEN "wait" ELSE "recv"]
  /\ message = Blank
  /\ owed = [c \in Core |-> FALSE] /\ irqSeen = FALSE
  /\ probe = [at |-> "ready", k |-> 1, commits |-> 0]
  /\ spool = [c \in Core |-> [kept |-> <<>>, read |-> 0]]
  /\ tap = [c \in Core |-> [emitted |-> 0, taken |-> 0, ran |-> {}]]
  /\ uart = NoUart

-----------------------------------------------------------------------------
(* The probe: run_baker_link_hardware_pattern.sh.                          *)

Commit == site.commits[probe.commits + 1]

\* The next image is written when the last one was loaded or rejected.
ProbeBegin ==
  /\ probe.at = "ready" /\ 0 \in up
  /\ probe.commits < Len(site.commits)
  /\ state \in {"EMPTY", "LOADED", "REJECTED"}
  /\ state' = "EMPTY"
  /\ probe' = [probe EXCEPT !.at = "image", !.k = 1]
  /\ UNCHANGED <<site, up, len, hash, image, published, local, reason, vm, job, task, signals,
                 diagnostics, uart>>

ProbeCell ==
  /\ probe.at = "image"
  /\ image' = [image EXCEPT ![probe.k] = Commit.image]
  /\ probe' = IF probe.k = Cells THEN [probe EXCEPT !.at = "length"]
              ELSE [probe EXCEPT !.k = @ + 1]
  /\ UNCHANGED <<site, up, state, len, hash, published, local, reason, vm, job, task, signals,
                 diagnostics, uart>>

ProbeLength ==
  /\ probe.at = "length"
  /\ len' = IF Commit.fault = "len" THEN Cells + 1 ELSE Cells
  /\ hash' = IF Commit.fault = "hash" THEN Mixed ELSE Commit.image
  /\ probe' = [probe EXCEPT !.at = "commit"]
  /\ UNCHANGED <<site, up, state, image, published, local, reason, vm, job, task, signals,
                 diagnostics, uart>>

\* The commit word is written last.
ProbeCommit ==
  /\ probe.at = "commit"
  /\ state' = "COMMIT"
  /\ probe' = [probe EXCEPT !.at = "ready", !.commits = @ + 1]
  /\ UNCHANGED <<site, up, len, hash, image, published, local, reason, vm, job, task, signals,
                 diagnostics, uart>>

-----------------------------------------------------------------------------
(* epf_try_load_committed_image on core c.                                 *)

At(c, label) == c \in up /\ job[c].at = label
Goto(c, label) == job' = [job EXCEPT ![c].at = label]

MutRejectLoad(why) ==
  /\ reason' = why
  /\ UNCHANGED state

\* epf_reject_load.
RejectLoad(why) ==
  /\ reason' = why
  /\ state' = "REJECTED"

\* epf_prepare_committed_image looks for the commit word.
Prepare(c) ==
  /\ At(c, "prepare")
  /\ Goto(c, IF state = "COMMIT" THEN "verify" ELSE "active")
  /\ UNCHANGED <<site, up, mailbox, published, local, reason, vm, task, signals, probe,
                 diagnostics, uart>>

MutVerify(c) ==
  /\ At(c, "verify")
  /\ job' = [job EXCEPT ![c].at = "copy", ![c].digest = Digest(image)]
  /\ UNCHANGED <<site, up, mailbox, published, local, reason, vm, task, signals, probe,
                 diagnostics, uart>>

\* The length is checked, then the hash over the shared bytes.
Verify(c) ==
  /\ At(c, "verify")
  /\ IF len = 0 \/ len > Cells
     THEN RejectLoad("BAD_LEN") /\ Goto(c, "active")
     ELSE IF Digest(image) # hash
     THEN RejectLoad("BAD_HASH") /\ Goto(c, "active")
     ELSE /\ job' = [job EXCEPT ![c].at = "copy", ![c].digest = hash]
          /\ UNCHANGED <<state, reason>>
  /\ UNCHANGED <<site, up, len, hash, image, published, local, vm, task, signals, probe,
                 diagnostics, uart>>

\* The shared bytes are read again, into the copy that is loaded.
Copy(c) ==
  /\ At(c, "copy")
  /\ job' = [job EXCEPT ![c].at = "load", ![c].image = image]
  /\ UNCHANGED <<site, up, mailbox, published, local, reason, vm, task, signals, probe,
                 diagnostics, uart>>

\* epf_load_image: into the VM of this core, or a rejection.  A localside that
\* brought the image sees false and fails.
LoadVm(c) ==
  /\ At(c, "load")
  /\ IF Accepts(job[c].image)
     THEN /\ vm' = [vm EXCEPT ![c] = job[c].image]
          /\ job' = [job EXCEPT ![c].at = "cells", ![c].k = 1]
          /\ UNCHANGED <<state, reason, task>>
     ELSE /\ RejectLoad("LOAD_ERROR")
          /\ Goto(c, job[c].then)
          /\ task' = [task EXCEPT ![c] = IF @ = "loading" THEN "refused" ELSE @]
          /\ UNCHANGED vm
  /\ UNCHANGED <<site, up, len, hash, image, published, local, signals, probe, diagnostics, uart>>

\* It publishes the active image word by word.
PutCell(c) ==
  LET k == job[c].k
  IN  /\ At(c, "cells")
      /\ active' = [active EXCEPT ![k] = job[c].image[k]]
      /\ job' = IF k = Cells THEN [job EXCEPT ![c].at = "len"] ELSE [job EXCEPT ![c].k = k + 1]
      /\ UNCHANGED <<site, up, mailbox, activeLen, digest, target, local, reason, vm, task,
                     signals, probe, diagnostics, uart>>

MutPutLen(c) ==
  /\ At(c, "len")
  /\ Goto(c, "digest")
  /\ UNCHANGED <<site, up, mailbox, published, local, reason, vm, task, signals, probe,
                 diagnostics, uart>>

PutLen(c) ==
  /\ At(c, "len")
  /\ activeLen' = Cells
  /\ Goto(c, "digest")
  /\ UNCHANGED <<site, up, mailbox, active, digest, target, local, reason, vm, task, signals,
                 probe, diagnostics, uart>>

PutDigest(c) ==
  /\ At(c, "digest")
  /\ digest' = job[c].digest
  /\ Goto(c, "local")
  /\ UNCHANGED <<site, up, mailbox, active, activeLen, target, local, reason, vm, task, signals,
                 probe, diagnostics, uart>>

PutLocal(c) ==
  /\ At(c, "local")
  /\ local' = [local EXCEPT ![c] = job[c].digest]
  /\ target' = vm[c][1]
  /\ Goto(c, "loaded")
  /\ UNCHANGED <<site, up, mailbox, active, activeLen, digest, reason, vm, task, signals, probe,
                 diagnostics, uart>>

\* LOADED is the last word.  An engine that brought the image goes on to wait
\* for its policy, a driver to wait for the timer, or to send what UART0 brought.
PutLoaded(c) ==
  /\ At(c, "loaded")
  /\ reason' = "NONE"
  /\ state' = "LOADED"
  /\ Goto(c, job[c].then)
  /\ task' = [task EXCEPT ![c] = CASE @ = "loading" -> IF c = 1 THEN "policy" ELSE "irq"
                                   [] @ = "uartLoading" -> "sendLoaded"
                                   [] OTHER -> @]
  /\ uart' = [uart EXCEPT !.ready = @ /\ task[c] # "uartLoading"]
  /\ UNCHANGED <<site, up, len, hash, image, published, local, vm, signals, probe, diagnostics>>

MutActive(c) ==
  /\ At(c, "active")
  /\ IF activeLen = 0 \/ digest = None \/ local[c] = digest
     THEN Goto(c, job[c].then) /\ UNCHANGED local
     ELSE /\ job' = [job EXCEPT ![c].at = "copyActive", ![c].digest = digest]
          /\ local' = [local EXCEPT ![c] = digest]
  /\ UNCHANGED <<site, up, mailbox, published, reason, vm, task, signals, probe,
                 diagnostics, uart>>

\* epf_load_active_image_for_core: an image the other core published.
Active(c) ==
  /\ At(c, "active")
  /\ IF activeLen = 0 \/ digest = None \/ local[c] = digest
     THEN Goto(c, job[c].then)
     ELSE job' = [job EXCEPT ![c].at = "copyActive", ![c].digest = digest]
  /\ UNCHANGED <<site, up, mailbox, published, local, reason, vm, task, signals, probe,
                 diagnostics, uart>>

CopyActive(c) ==
  /\ At(c, "copyActive")
  /\ job' = [job EXCEPT ![c].at = "loadActive", ![c].image = active]
  /\ UNCHANGED <<site, up, mailbox, published, local, reason, vm, task, signals, probe,
                 diagnostics, uart>>

LoadActive(c) ==
  /\ At(c, "loadActive")
  /\ Goto(c, job[c].then)
  /\ IF Accepts(job[c].image)
     THEN /\ vm' = [vm EXCEPT ![c] = job[c].image]
          /\ local' = [local EXCEPT ![c] = job[c].digest]
          /\ UNCHANGED <<state, reason>>
     ELSE /\ RejectLoad("LOAD_ERROR")
          /\ UNCHANGED <<vm, local>>
  /\ UNCHANGED <<site, up, len, hash, image, published, task, signals, probe, diagnostics, uart>>

\* epf_loaded_for_core.
LoadedForCore(c) == activeLen # 0 /\ digest # None /\ local[c] = digest

-----------------------------------------------------------------------------
(* The diagnostic service point of a scheduler pass, and the tap spool.    *)

\* A localside that failed makes the image panic.
Failed(c) == task[c] \in {"panic", "noImage", "refused", "late", "unloaded"}

\* ResponseReady, TimerRouteDone and TimerRouteAck, by the part that receives
\* them and the part that has sent them.
Sender == [response |-> "ready", ready |-> "ack", ack |-> "done"]

\* The localside's await finds no message, or waits for ever.  The waits for an
\* image, for the policy and for the timer do not yield.
Awaits(c) ==
  \/ task[c] \in {"other", "done", "success"}
  \/ task[c] = "recv" /\ message = Blank
  \/ task[c] \in DOMAIN Sender /\ task[1 - c] # Sender[task[c]]

\* A pass of poll_forever polls the localside and then, once, calls observe:
\* poll_epf_diagnostic.  The panic loop calls poll_epf_panic_diagnostic.
PollDiagnostic(c) ==
  /\ At(c, "idle")
  /\ Awaits(c) \/ Failed(c)
  /\ job' = [job EXCEPT ![c].at = "prepare", ![c].then = "spool"]
  /\ UNCHANGED <<site, up, mailbox, published, local, reason, vm, task, signals, probe,
                 diagnostics, uart>>

\* A pass ends in WFE, the panic loop goes round.
PassEnd(c) == IF Failed(c) THEN "idle" ELSE "wfe"

Ran(c, event) == tap' = [tap EXCEPT ![c].ran = @ \cup {event}]

MutSpoolStep(c) ==
  /\ At(c, "spool")
  /\ IF spool[c].read < Len(spool[c].kept)
     THEN /\ spool' = [spool EXCEPT ![c].read = @ + 1]
          /\ IF LoadedForCore(c) THEN Ran(c, spool[c].kept[spool[c].read + 1]) ELSE UNCHANGED tap
          /\ UNCHANGED job
     ELSE /\ job' = [job EXCEPT ![c].at = IF Failed(c) THEN "idle" ELSE "tap", ![c].k = 1]
          /\ UNCHANGED diagnostics
  /\ UNCHANGED <<site, up, mailbox, published, local, reason, vm, task, signals, probe, uart>>

\* poll_epf_spool_diagnostic: kept events run through the VM, up to the first
\* that emits.
SpoolStep(c) ==
  /\ At(c, "spool")
  /\ IF LoadedForCore(c) /\ spool[c].read < Len(spool[c].kept)
     THEN /\ spool' = [spool EXCEPT ![c].read = @ + 1]
          /\ Ran(c, spool[c].kept[spool[c].read + 1])
          /\ \/ UNCHANGED job
             \/ Goto(c, PassEnd(c))
     ELSE /\ job' = [job EXCEPT ![c].at = IF Failed(c) THEN "idle" ELSE "tap", ![c].k = 1]
          /\ UNCHANGED diagnostics
  /\ UNCHANGED <<site, up, mailbox, published, local, reason, vm, task, signals, probe, uart>>

\* The drain loop: an event is kept while there is room and run if an image is
\* loaded; the loop ends with the tap, with an event that emits, or after
\* EPF_TAP_SPOOL_EVENTS events.
TapStep(c) ==
  LET event == tap[c].taken + 1
  IN  /\ At(c, "tap")
      /\ IF tap[c].taken < tap[c].emitted /\ job[c].k <= EPF_TAP_SPOOL_EVENTS
         THEN /\ spool' = [spool EXCEPT ![c].kept =
                             IF Len(@) < EPF_TAP_SPOOL_EVENTS THEN Append(@, event) ELSE @]
              /\ tap' = [tap EXCEPT ![c].taken = event,
                                    ![c].ran = IF LoadedForCore(c) THEN @ \cup {event} ELSE @]
              /\ \/ job' = [job EXCEPT ![c].k = @ + 1]
                 \/ LoadedForCore(c) /\ Goto(c, "wfe")
         ELSE /\ Goto(c, "wfe")
              /\ UNCHANGED diagnostics
      /\ UNCHANGED <<site, up, mailbox, published, local, reason, vm, task, signals, probe, uart>>

\* WFE returns if the event register is set, and then clears it.  Besides the
\* events owed, others may set it: an interrupt, a carrier, the waker of a pass
\* that woke its own task.  A write of the probe to RAM is not one.
WfeReturns(c) ==
  /\ At(c, "wfe")
  /\ Goto(c, "idle")
  /\ owed' = [owed EXCEPT ![c] = FALSE]
  /\ UNCHANGED <<site, up, mailbox, published, local, reason, vm, task, message, irqSeen, probe,
                 diagnostics, uart>>

\* Hibana emits a tap event while its localside is polled.
Emit(c) ==
  /\ At(c, "idle") /\ tap[0].emitted + tap[1].emitted < MaxEvents /\ task[c] = "other"
  /\ tap' = [tap EXCEPT ![c].emitted = @ + 1]
  /\ UNCHANGED <<site, up, mailbox, published, local, reason, vm, job, task, signals, probe,
                 spool, uart>>

\* The firmware panics and stays in epf_panic_park.
Panic(c) ==
  /\ At(c, "idle") /\ task[c] = "other"
  /\ task' = [task EXCEPT ![c] = "panic"]
  /\ UNCHANGED <<site, up, mailbox, published, local, reason, vm, job, signals, probe,
                 diagnostics, uart>>

-----------------------------------------------------------------------------
(* The alarm, for baker_poll_delay and for the timer route of the engine:  *)
(* one ready word, lowered by the next arming and not by the end of a wait.*)

\* SEV.
SignalCores == owed' = [c \in Core |-> TRUE]

\* timer_alarm0_irq_handler.
AlarmIrq == irqSeen' = TRUE /\ SignalCores

\* baker_timer_route_arm.
Arm == irqSeen' = FALSE /\ UNCHANGED owed

\* baker_poll_delay arms the alarm ...
DelayArms(c) ==
  /\ At(c, "arm")
  /\ Goto(c, "delay")
  /\ Arm
  /\ UNCHANGED <<site, up, mailbox, published, local, reason, vm, task, message, probe,
                 diagnostics, uart>>

\* ... and looks at the ready word before each WFI.  An interrupt served between
\* the two leaves nothing pending: the core sleeps on.
DelayEnds(c) ==
  /\ At(c, "delay")
  /\ Goto(c, "idle") \/ Goto(c, "wfi")
  /\ AlarmIrq
  /\ UNCHANGED <<site, up, mailbox, published, local, reason, vm, task, message, probe,
                 diagnostics, uart>>

-----------------------------------------------------------------------------
(* The localsides of the policy capsule.                                   *)

Task(c, label) == At(c, "idle") /\ task[c] = label
Become(c, label) == task' = [task EXCEPT ![c] = label]

\* baker_epf_policy_image_ready.
ImageReady == (state = "COMMIT" /\ len = Cells) \/ activeLen = Cells

\* The driver waits for an image, and reports its absence after the last wait.
DriverWait ==
  /\ Task(0, "wait") /\ uart.held = <<>>
  /\ ImageReady
  /\ Become(0, "read")
  /\ UNCHANGED <<site, up, mailbox, published, local, reason, vm, job, signals, probe,
                 diagnostics, uart>>

DriverGiveUp ==
  /\ Task(0, "wait") /\ uart.held = <<>>
  /\ ~ImageReady /\ ~uart.ready
  /\ Become(0, "noImage")
  /\ UNCHANGED <<site, up, mailbox, published, local, reason, vm, job, signals, probe,
                 diagnostics, uart>>

\* It sleeps between two looks.
DriverDelay ==
  /\ Task(0, "wait") /\ uart.held = <<>>
  /\ ~ImageReady /\ ~uart.ready
  /\ Goto(0, "arm")
  /\ UNCHANGED <<site, up, mailbox, published, local, reason, vm, task, signals, probe,
                 diagnostics, uart>>

Load(c, cells) ==
  job' = [job EXCEPT ![c].at = "load", ![c].then = "idle", ![c].image = cells,
                     ![c].digest = Digest(cells)]

\* read_epf_policy_image: the committed image or else the active one.
DriverRead ==
  /\ Task(0, "read")
  /\ IF ImageReady
     THEN /\ job' = [job EXCEPT ![0].held =
                       IF state = "COMMIT" /\ len = Cells THEN image ELSE active]
          /\ Become(0, "send")
     ELSE /\ Become(0, "noImage")
          /\ UNCHANGED job
  /\ UNCHANGED <<site, up, mailbox, published, local, reason, vm, signals, probe, diagnostics, uart>>

\* The image goes to the engine, if the resolver of the route still finds one;
\* then the driver loads it too, unless it came from the UART.
DriverSend ==
  /\ At(0, "idle") /\ task[0] \in {"send", "sendLoaded"}
  /\ IF ~ImageReady
     THEN /\ Become(0, "noImage")
          /\ UNCHANGED <<message, owed, job>>
     ELSE /\ message' = job[0].held
          /\ SignalCores
          /\ IF task[0] = "sendLoaded"
             THEN Become(0, "irq") /\ UNCHANGED job
             ELSE Become(0, "loading") /\ Load(0, job[0].held)
  /\ UNCHANGED <<site, up, mailbox, published, local, reason, vm, irqSeen, probe, diagnostics, uart>>

\* load_epf_choreography_image of what the driver sent.
EngineRecv ==
  /\ Task(1, "recv") /\ message # Blank
  /\ Become(1, "loading")
  /\ Load(1, message)
  /\ UNCHANGED <<site, up, mailbox, published, local, reason, vm, signals, probe, diagnostics, uart>>

\* The engine polls until epf_policy_loaded, with a delay after each look.
EnginePolicy ==
  /\ Task(1, "policy")
  /\ IF LoadedForCore(1) /\ target = PolicyImage
     THEN Become(1, "route") /\ UNCHANGED job
     ELSE /\ job' = [job EXCEPT ![1].at = "prepare", ![1].then = "arm"]
          /\ UNCHANGED task
  /\ UNCHANGED <<site, up, mailbox, published, local, reason, vm, signals, probe, diagnostics, uart>>

\* baker_timer_route_resolver_ready arms the route's 500 ms at its first call,
\* and the engine calls it again, awake, until the interrupt was there.
EngineArms ==
  /\ Task(1, "route")
  /\ Become(1, "alarm")
  /\ Arm
  /\ UNCHANGED <<site, up, mailbox, published, local, reason, vm, job, message, probe,
                 diagnostics, uart>>

RouteAlarm ==
  /\ Task(1, "alarm") /\ ~irqSeen
  /\ AlarmIrq
  /\ UNCHANGED <<site, up, mailbox, published, local, reason, vm, job, task, message, probe,
                 diagnostics, uart>>

EngineIrq ==
  /\ Task(1, "alarm") /\ irqSeen
  /\ Become(1, "fact")
  /\ UNCHANGED <<site, up, mailbox, published, local, reason, vm, job, signals, probe,
                 diagnostics, uart>>

\* baker_wait_timer_route_irq_observed: the word as a delay left it will do.
\* The 500 ms of the driver do not begin with those of the route and may end
\* before them; then the driver fails.
DriverIrq ==
  /\ Task(0, "irq")
  /\ Become(0, IF irqSeen THEN "fact" ELSE "late")
  /\ UNCHANGED <<site, up, mailbox, published, local, reason, vm, job, signals, probe,
                 diagnostics, uart>>

\* run_epf_timer_irq_fact needs the image of this core; the policy image emits
\* whatever the ready word is.  The engine then sends ResponseReady.
TimerFact(c) ==
  /\ Task(c, "fact")
  /\ IF ~LoadedForCore(c) THEN Become(c, "unloaded") /\ UNCHANGED owed
     ELSE IF c = 0 THEN Become(0, "response") /\ UNCHANGED owed
     ELSE Become(1, "ready") /\ SignalCores
  /\ UNCHANGED <<site, up, mailbox, published, local, reason, vm, job, message, irqSeen, probe,
                 diagnostics, uart>>

\* The rest of the choreography; then both wait for ever.
Answer(c, mine, next) ==
  /\ Task(c, mine) /\ task[1 - c] = Sender[mine]
  /\ Become(c, next)
  /\ SignalCores
  /\ UNCHANGED <<site, up, mailbox, published, local, reason, vm, job, message, irqSeen, probe,
                 diagnostics, uart>>

DriverDone == Answer(0, "response", "ack")
EngineAck == Answer(1, "ready", "done")
DriverSuccess == Answer(0, "ack", "success")

-----------------------------------------------------------------------------
(* UART0 of the Pico 2 W.  An upload is a header and the cells, in order.  *)

Upload == [k \in 1..Cells + 1 |-> k]

UartHost ==
  /\ site.uart /\ 0 \in up /\ uart.line = <<>> /\ uart.uploads < MaxUploads
  /\ uart' = [uart EXCEPT !.line = Upload, !.uploads = @ + 1]
  /\ UNCHANGED <<site, up, mailbox, published, local, reason, vm, job, task, signals, probe, diagnostics>>

\* ImageIngress skips to a header, takes as many pieces as follow and accepts
\* them if their hash is right.
Push(ingress, piece) == IF ingress = <<>> /\ piece # 1 THEN <<>> ELSE Append(ingress, piece)

\* rp2w_uart_rx_byte.
RxByte(u, piece) ==
  LET got == Push(u.ingress, piece)
  IN  IF Len(got) <= Cells THEN [u EXCEPT !.ingress = got]
      ELSE [u EXCEPT !.ingress = <<>>, !.ready = @ \/ got = Upload]

\* uart0_irq_handler drains a piece; core 0 wakes from WFI.
UartIrq ==
  /\ uart.line # <<>>
  /\ uart' = RxByte([uart EXCEPT !.line = Tail(@)], Head(uart.line))
  /\ job' = IF At(0, "wfi") THEN [job EXCEPT ![0].at = "idle"] ELSE job
  /\ SignalCores
  /\ UNCHANGED <<site, up, mailbox, published, local, reason, vm, task, message, irqSeen, probe,
                 diagnostics>>

\* rp2w_wait_epf_uart_image_ready drains too.  The interrupt may come between
\* its read of the data register and its call of rp2w_uart_rx_byte.
DriverDrain ==
  /\ Task(0, "wait")
  /\ IF uart.held # <<>>
     THEN uart' = RxByte([uart EXCEPT !.held = <<>>], uart.held[1])
     ELSE /\ uart.line # <<>>
          /\ uart' = [uart EXCEPT !.line = Tail(@), !.held = <<Head(uart.line)>>]
  /\ UNCHANGED <<site, up, mailbox, published, local, reason, vm, job, task, signals, probe, diagnostics>>

\* try_load_uart_policy_image.
DriverUartLoad ==
  /\ Task(0, "wait") /\ uart.ready /\ uart.held = <<>>
  /\ Become(0, "uartLoading")
  /\ job' = [job EXCEPT ![0].at = "load", ![0].then = "idle", ![0].image = Whole(PolicyImage),
                        ![0].digest = PolicyImage, ![0].held = Whole(PolicyImage)]
  /\ UNCHANGED <<site, up, mailbox, published, local, reason, vm, signals, probe, diagnostics, uart>>

-----------------------------------------------------------------------------
LoadStep(c) ==
  \/ Prepare(c) \/ Verify(c) \/ Copy(c) \/ LoadVm(c) \/ PutCell(c) \/ PutLen(c) \/ PutDigest(c)
  \/ PutLocal(c) \/ PutLoaded(c) \/ Active(c) \/ CopyActive(c) \/ LoadActive(c)
DiagnosticStep(c) == PollDiagnostic(c) \/ SpoolStep(c) \/ TapStep(c)
Probe == ProbeBegin \/ ProbeCell \/ ProbeLength \/ ProbeCommit
DriverStep == DriverWait \/ DriverDelay \/ DriverRead \/ DriverSend \/ DriverIrq \/ TimerFact(0)
              \/ DriverUartLoad \/ DriverDrain \/ DriverDone \/ DriverSuccess
EngineStep == EngineRecv \/ EnginePolicy \/ EngineArms \/ RouteAlarm \/ EngineIrq
              \/ TimerFact(1) \/ EngineAck
DelayStep(c) == DelayArms(c) \/ DelayEnds(c)

EpfNext ==
  \/ \E c \in Core : LoadStep(c) \/ DiagnosticStep(c) \/ WfeReturns(c) \/ DelayStep(c)
                     \/ Emit(c) \/ Panic(c)
  \/ Probe \/ DriverStep \/ EngineStep \/ DriverGiveUp
  \/ UartHost \/ UartIrq

\* What core c goes on with while it is awake.
Runs(c) ==
  \/ LoadStep(c) \/ DiagnosticStep(c) \/ DelayStep(c)
  \/ owed[c] /\ WfeReturns(c)
  \/ IF c = 0 THEN DriverStep ELSE EngineStep

\* Each core goes on while it is awake; a core in WFE is promised only the events
\* owed to it.  The probe, the host, the driver's patience, a panic and any
\* other event are not promised.
EpfFairness ==
  /\ \A c \in Core : WF_epfVars(Runs(c))
  /\ WF_epfVars(UartIrq)

-----------------------------------------------------------------------------
Images == {site.commits[n].image : n \in DOMAIN site.commits} \cup {PolicyImage}
Held == [Cell -> {None} \cup Images]
Name == {None, Mixed} \cup Images

Label == {"idle", "prepare", "verify", "copy", "load", "cells", "len", "digest", "local",
          "loaded", "active", "copyActive", "loadActive", "spool", "tap", "wfe", "arm", "delay",
          "wfi"}
Part == {"other", "panic", "wait", "read", "send", "sendLoaded", "loading", "uartLoading",
         "recv", "policy", "route", "alarm", "irq", "fact", "response", "ready", "ack", "done",
         "success", "noImage", "refused", "late", "unloaded"}
Job == [at : Label, then : {"idle", "spool", "arm"}, image : Held, digest : Name, k : Nat \ {0},
        held : Held]

WordsTypeOK ==
  /\ site \in Site /\ up \subseteq Core
  /\ state \in {"EMPTY", "COMMIT", "LOADED", "REJECTED"} /\ len \in 0..Cells + 1 /\ hash \in Name
  /\ image \in Held /\ active \in Held /\ message \in Held
  /\ activeLen \in {0, Cells} /\ digest \in Name /\ target \in Name /\ local \in [Core -> Name]
  /\ reason \in {"NONE", "BAD_LEN", "BAD_HASH", "LOAD_ERROR"}
  /\ vm \in [Core -> Held]
  /\ job \in [Core -> Job]
  /\ task \in [Core -> Part]
  /\ probe \in [at : {"ready", "image", "length", "commit"}, k : Cell, commits : Nat]

SpoolTypeOK ==
  /\ spool \in [Core -> [kept : Seq(Nat), read : Nat]]
  /\ tap \in [Core -> [emitted : Nat, taken : Nat, ran : SUBSET Nat]]

Uart == [line : Seq(Nat), held : Seq(Nat), ingress : Seq(Nat), ready : BOOLEAN, uploads : Nat]
UartTypeOK == uart \in Uart

SignalTypeOK == owed \in [Core -> BOOLEAN] /\ irqSeen \in BOOLEAN

TypeOK == WordsTypeOK /\ SpoolTypeOK /\ UartTypeOK /\ SignalTypeOK

\* A core whose digest word names an image runs exactly that image: not an
\* older one, and not one with cells another core or the probe was still
\* writing (the digest is taken before the bytes are read again).
DigestMatches == \A c \in Core : local[c] # None => vm[c] = Whole(local[c])

\* LOADED, the word the probe waits for, is written when the active image, its
\* length and its digest are all in place and of one image.
LoadedIsWhole ==
  state = "LOADED" => digest # None /\ activeLen = Cells /\ active = Whole(digest)

\* An image the probe committed with a wrong length or hash never reaches a VM
\* by the mailbox.
OnlyVerified ==
  \A c \in Core, n \in DOMAIN site.commits :
     site.capsule = "diagnostic" /\ site.commits[n].fault # "none"
       => vm[c] # Whole(site.commits[n].image)

\* A tap event taken from Hibana's ring is in the spool still to be read, or it
\* ran through the VM, or it came when the spool was full: what happened before
\* an image was there is not lost to it.
NoEventMissed ==
  \A c \in Core : \A e \in 1..tap[c].taken :
     \/ e \in tap[c].ran
     \/ \E n \in spool[c].read + 1..Len(spool[c].kept) : spool[c].kept[n] = e
     \/ e > EPF_TAP_SPOOL_EVENTS

\* Both localsides of the policy capsule find the image of their core when the
\* timer fact is run through it.
FactFindsImage == \A c \in Core : task[c] # "unloaded"

-----------------------------------------------------------------------------
(* Why these hold: an invariant that no step breaks.  One image is on its  *)
(* way in a session, from the probe or from UART0.                         *)

OneImage == \A s \in Site : Len(s.commits) <= 1 /\ (s.uart => s.commits = <<>>)

TheImage == IF site.commits = <<>> THEN PolicyImage ELSE site.commits[1].image
Full == Whole(TheImage)

\* What the capsule may run: the diagnostic one only what it can verify.
Loadable ==
  site.capsule = "diagnostic" => site.commits # <<>> /\ site.commits[1].fault = "none"

\* The probe is at the commit it announced, and writes cell after cell.
ProbeInv ==
  /\ probe.commits <= Len(site.commits)
  /\ probe.at # "ready" => probe.commits < Len(site.commits)
  /\ probe.at = "image" => \A j \in 1..probe.k - 1 : image[j] = Commit.image
  /\ probe.at \in {"length", "commit"} => image = Whole(Commit.image)
  /\ probe.at = "commit" => /\ len <= Cells => Commit.fault # "len"
                            /\ hash \in {Mixed, Commit.image}
                            /\ hash # Mixed => Commit.fault # "hash"
  /\ state = "COMMIT" => probe.commits > 0

\* The committed words stay as they are.
CommittedInv ==
  probe.commits = 1 =>
    /\ image = Full
    /\ len <= Cells => site.commits[1].fault # "len"
    /\ hash \in {Mixed, TheImage}
    /\ hash # Mixed => site.commits[1].fault # "hash"

\* Each core's load has in hand what the step before gave it, and what it
\* published is in place; another core only writes the same.
LoadInv(c) ==
  /\ job[c].at \in {"copy", "load", "cells", "len", "digest", "local", "loaded", "copyActive",
                    "loadActive"} => Loadable /\ job[c].digest = TheImage
  /\ job[c].at \in {"verify", "copy"} => probe.commits = 1
  /\ job[c].at \in {"load", "cells", "len", "digest", "local", "loaded", "loadActive"} =>
       job[c].image = Full
  /\ job[c].at = "cells" => job[c].k \in Cell /\ \A j \in 1..job[c].k - 1 : active[j] = TheImage
  /\ job[c].at \in {"cells", "len", "digest", "local", "loaded"} => vm[c] = Full
  /\ job[c].at \in {"len", "copyActive"} => active = Full
  /\ job[c].at \in {"digest", "local", "loaded"} => activeLen = Cells
  /\ job[c].at \in {"local", "loaded", "copyActive", "loadActive"} => digest = TheImage
  /\ job[c].at = "loaded" => local[c] = TheImage

\* The words that name an image are set after it is in its place.
NamedInv ==
  /\ \A k \in Cell : active[k] \in {None, TheImage}
  /\ activeLen = Cells => active = Full /\ Loadable
  /\ digest \in {None, TheImage} /\ (digest # None => activeLen = Cells)
  /\ state = "LOADED" => digest = TheImage
  /\ \A c \in Core : /\ vm[c] \in {Blank, Full} /\ (vm[c] = Full => Loadable)
                     /\ local[c] \in {None, TheImage}
                     /\ local[c] = TheImage => vm[c] = Full /\ digest = TheImage

\* What the localsides hold, and when they may run a fact.
TaskInv ==
  /\ site.capsule = "diagnostic" => \A c \in Core : task[c] \in {"other", "panic"}
  /\ task[0] \in {"send", "uartLoading", "sendLoaded"} => job[0].held = Full
  /\ message \in {Blank, Full}
  /\ \A c \in Core : task[c] \in {"route", "alarm", "irq", "fact"} => LoadedForCore(c)
  /\ task[0] = "sendLoaded" => LoadedForCore(0)
  /\ ~site.uart => uart = NoUart

\* What the spool keeps are the first events, and those read have run.
SpoolInv(c) ==
  /\ tap[c].taken <= tap[c].emitted
  /\ Len(spool[c].kept) = IF tap[c].taken < EPF_TAP_SPOOL_EVENTS THEN tap[c].taken
                          ELSE EPF_TAP_SPOOL_EVENTS
  /\ \A n \in 1..Len(spool[c].kept) : spool[c].kept[n] = n
  /\ spool[c].read <= Len(spool[c].kept) /\ 1..spool[c].read \subseteq tap[c].ran

\* The image words as a whole: well typed, LOADED only for a whole image, no
\* refused image and no missing image in a VM.
ImageInv ==
  /\ TypeOK /\ ProbeInv /\ CommittedInv /\ NamedInv /\ TaskInv
  /\ \A c \in Core : LoadInv(c) /\ SpoolInv(c)
  /\ LoadedIsWhole /\ OnlyVerified /\ FactFindsImage

\* A core that no event wakes any more.
Asleep(c) == At(c, "wfe") \/ At(c, "wfi")

\* A good commit is loaded by every core and a bad one refused, panic or not,
\* unless the core that should look sleeps for good.
CommitAnswered ==
  /\ \A c \in Core :
       [](probe.commits = 1 /\ site.commits[1].fault = "none"
            => <>LoadedForCore(c) \/ <>[]Asleep(c))
  /\ [](probe.commits = 1 /\ site.commits[1].fault # "none" /\ site.capsule = "diagnostic"
         => <>(state = "REJECTED") \/ <>[](\A c \in Core : Asleep(c)))

\* Once the driver has an image from UART0 or has sent one, both localsides
\* come to the end of the choreography and the driver marks success, unless its
\* wait for the timer's interrupt ends first.
PolicySucceeds ==
  message # Blank \/ (uart.ready /\ Task(0, "wait")) ~>
    task[0] = "late" \/ (task[0] = "success" /\ task[1] = "done")
=============================================================================
