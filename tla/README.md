# hibana-pico: TLA+ models, model checking and proofs

hibana-pico runs choreographies on small computers. A program states a global
choreography; Hibana (an external crate) projects it to one local side per role;
hibana-pico attaches each role to a carrier, polls the role tasks on a fixed
scheduler, and drives WASI guests whose imports are messages of the choreography.
This directory models the parts of that system whose correctness depends on order:
shared memory and FIFOs between two cores, a lossy serial line, an unreliable
network, wakeups, deadlines, images loaded into a running board, ownership of a
guest arena.

All paths below are relative to the repository root. `K` is
`src/appkit/internal.rs`, `B` is `examples/baker-firmware/src/lib.rs`, `RP` is
`examples/rp2w-firmware/src/lib.rs`, `SP` is
`examples/rp2w-firmware/src/bin/sensor_panel.rs`, `UQ` is
`examples/uno-q-heterogeneous/src/lib.rs`.

## 1. Inventory

### Components, state and operations

| component | state it keeps | operations |
|---|---|---|
| **appkit run and scheduler** (`K`) | requested and projected roles, task slots (16 on a host, 4 on bare metal), the wake flag of a pass, the rendezvous slab | `run`, projection, resolver and attach visits, `push`, `poll_once`, `poll_until_quiescent`, `poll_forever`, `run_canonical_wasi_engine_forever` |
| **canonical WASI engine** (`K`) | guest arena and its `occupied` flag, the lease, guest storage, the slot of an activation, the kept slot | `lease`, `take_wasi_guest_slot`, `drive_wasi_guest`(`_blocking`), request and completion of each import, `store_wasi_guest_slot`, drops |
| **Baker SIO mailbox** (`B`) | two shared slots, one per direction, with an `occupied` word; `tx.pending` | `publish_mailbox_frame`, `take_mailbox_frame`, `clear_outbound_mailbox` |
| **Baker SIO carrier** (`B`) | one stash frame per role and core, the registry of attached roles and their lanes, `SioTx`, `SioRx` | `poll_send`, `cancel_send`, `poll_recv`, `requeue` |
| **Baker session** (`B` + `K`) | the above together on two cores, and the event register of each | one scheduler per core, WFE and SEV |
| **deadline alarm, timer routes and delays** (`B`, `RP`) | timer registers ALARM0, INTE, INTR, the word `BAKER_TIMER_ALARM0_READY`, NVIC | `baker_timer_route_arm/ready/finish`, `take_mailbox_until_deadline`, `baker_poll_delay`, `baker_timer_route_resolver_ready`, `timer_alarm0_irq_handler` |
| **RP2350 carrier** (`RP`) | FIFO words, an accumulator per core, stash, the word index of a send | the same transport operations, word by word |
| **Uno Q carriers** (`UQ`, the M33 kernel) | UART framing buffer, receive ring, one queue per role | the same, with resynchronisation |
| **heterogeneous split carrier** | frame slots per edge and lane | the same |
| **EPF loading and policy** (`B`, `RP`, `epf_policy_timer.rs`) | image, length, digest and state words shared with a debugger, tap spool, UART0 ingress | commit, check, load per core, publish, activate, tap and spool steps, policy resolver |
| **core 1 launch** (`B`, `RP`) | FIFO handshake, `CORE1_STARTED` | `launch_core1`, `core1_entry` |
| **sensor panel** (`SP`, its guest) | the choreography of kernel, guest and radio role, the radio driver, sample numbers, the budgets of `recv_packet` | imports of the guest, bring-up, `send_packet`, `recv_packet` |
| **Uno Q shell and sensors** (`UQ`, the M33 kernel, its guest) | cell, model, human, sensor and M33 roles, the UDP thread and its channel, LED matrix | the turns of `run_boundary`, `next_command`, `next_sample`, rendering and scanning |
| the rest | scenario capsules, other guests, measurements, QEMU overlay, build scripts | I/O and choreographies without protocol state of their own |

`PROJECT.json` lists every component with its sources and its status.

### How they interact

`appkit::run` projects the requested roles, attaches each through the rendezvous
(which opens a carrier port per lane) and polls. A role task polls Hibana
endpoints; these poll the carrier. On the Baker board the carrier of core 0
and that of core 1 share two mailbox slots and nothing else, and signal each
other with SEV; the scheduler of a core sleeps in WFE. On the Pico 2 W the carrier
pushes words into the hardware FIFO instead. Between the Uno Q's Linux process and its
M33 the carrier is a UART; between the Pico 2 W and the Uno Q there is no carrier but UDP,
driven by two roles at its ends. A receive with an
operational deadline blocks its core inside the carrier until a frame or the
alarm interrupt. A WASI engine is a role task on a host, and on bare metal a loop that
never returns to the scheduler and polls the other tasks itself while it waits. EPF images are written
by a debugger, or come over UART0, while both cores run.

### What is hard

* two cores, interrupts and a debugger share words without locks, compare-and-swap or
  critical sections;
* every wait ends in WFE or WFI, so one missing signal is a hang;
* bounded places everywhere: one frame per mailbox, one per stash slot, four tasks, a FIFO
  shorter than a frame, a ring that drops bytes;
* frames survive in several places (`tx.pending`, mailbox, accumulator, stash, staged) across
  polls, cancellations and requeues, and a cancelled or late send may leave part of one;
* the guest's arena is passed between owners through `ManuallyDrop` and raw
  pointers;
* one timer alarm for several users;
* samples and acknowledgements are lost, late or doubled, and threads beside the roles handle
  them;
* a choreography is fixed while data decides what a guest does next.

`PROJECT.json` "hazards" gives each one with its line and the properties aimed at it.

### What makes each component correct

* mailbox, FIFO: a one-place channel per direction;
* carriers: each accepted frame reaches its role and lane whole, once and in order;
* scheduler: a frame that arrives is served, the host run ends and leaves
  nothing behind, tasks and engine state do not overlap;
* engine: lease and guest released once, each import answered by its own
  completion;
* session: the choreography completes on both cores;
* deadline: every bounded wait comes back, and not before its time;
* loading: a core runs the image its digest names, whole and verified, and no tap event is missed;
* launch: core 0 goes on only when core 1 runs, and it does come to an end;
* panel and shell: what the guest is told to be delivered is; roles stay in step; the
  display shows this turn's face; silence is noticed.

## 2. Modules

| module | models | checked by |
|---|---|---|
| `FrameChannel` | abstract: a one-place channel in each direction | refined by `SioMailbox` and `FifoCarrier` |
| `SioMailbox` | the mailbox, one volatile access per step | `sio_mailbox`, `SioMailboxProofs` |
| `SioCarrier` | the carrier above it, one step per poll outcome or loop round | `sio_carrier`, `lane_rewrite`, `SioCarrierProofs` |
| `FifoCarrier` | the RP2350 carrier, one FIFO word per step | `fifo_carrier`, `FifoCarrierProofs` |
| `UartLink` | Uno Q and split carriers, one byte per step | `uart_link`, `UartLinkProofs` |
| `AppkitRun` | one call of `appkit::run`, host or bare metal | `appkit_run`, `AppkitProofs` |
| `RemoteCall` | abstract: calls answered by a remote driver | refined by `WasiEngine` |
| `WasiEngine` | the engine, its lease and its endpoint | `wasi_engine`, `AppkitProofs` |
| `BakerSession` | scheduler and mailbox of both cores running a choreography | `baker_session`, `BakerProofs` |
| `DeadlineAlarm` | fuse, delay and route on one alarm, one register access per step | `alarm_single_user`, `alarm_delay`, `BakerProofs` |
| `EpfLoad` | image words, both cores, probe, tap spool, UART0, policy capsule | through `BoardBoot` |
| `BoardBoot` | the launch of core 1, composed with `EpfLoad` | `board_boot`, `BoardBootProofs` |
| `SensorAir` | the datagrams between panel and Uno Q | through `SensorLink` |
| `SensorPanel` | guest, kernel and radio role of the panel | through `SensorLink` |
| `UnoQShell` | cell, model, human, sensor, M33 roles and UDP thread | through `SensorLink` |
| `SensorLink` | panel, network and Uno Q together | `sensor_link`, `SensorLinkProofs` |
| `MC*` | the instances | |
| `*Proofs` | theorems and proofs | |

Definitions named `Mut…` are broken variants of the definition after them: what a
plausible slip in that code would be. No specification uses them; each shows that
the property it is paired with in `PROJECT.json` notices the slip.

### Correspondence with the code

**SioMailbox.** `mem[c]` and `occupied[c]` are the `SioMailboxSlot` that core `c`
publishes; `WriteOrder` and `ReadOrder` are the orders in which
`publish_mailbox_frame` and `take_mailbox_frame` touch the fields, and each touch is a
step of its core, so the cores interleave between any two of them.
`occupied` is written last, behind a release compiler fence, and read first, before
an acquire one; the compiler keeps the order of volatile accesses and so does the
in-order Cortex-M0+. Several `SioTx` handles of a
core share its slot (`owner` says whose frame is being published). `CancelSend`
contains the code's clearing of the slot for a frame already published; the model
shows that branch is dead (`PublishedInv`). Payload bytes are one field.

**SioCarrier.** A port is a role and a lane. Publishing and taking are one step here:
that is what `SioMailbox` shows. The three poll_recv paths (frame given
back, stashed frame, take loop) are actions of their own, and each round of the take
loop is a step, so the other core publishes between rounds. A `Capacity` or
`Deadline` error stops the core, as the role task's failure does. `BeginSend` is
Hibana's endpoint; it may cancel or requeue at any time. `site` is chosen in the
initial state: the deployment (roles, lanes, cores, deadline or none). `seen` holds what the
endpoint has: a frame given back leaves it until it is polled again.

**FifoCarrier.** A word is named by its frame and its place in it, and each push or
pop is a step. What the decoder makes of words of two frames (`MAGIC_AS_LANE`, `MAGIC_AS_ROLE`) follows
`decode_meta`. A cancelled send between two words sets `cut`: from then on the receiver may
be out of step, and what the carrier promises is promised until then. No frame fits into the FIFO, so
two cores that send to each other at the same time without reading would wait for ever; the capsules of
this board are sequences and `MaySend` says so.

**UartLink.** A byte is named by its frame and its place. The M33 has a one-byte receive register,
its ring and its parser; the Linux process reads the tty once per poll. The M33's write loop checks its
deadline after every byte, the last one included. `torn` is a history of the bytes that were lost or never sent, so that what
a frame lacks can be said of bytes that are nowhere any more. The checksum is one byte, the exclusive or of the frame's bytes, so it may agree with bytes that are not one frame, and a
byte behind the MAGIC may happen to equal one of MAGIC (`Matches`): then a damaged frame passes. `Verdict` has both outcomes. What the parser makes
of such bytes is a frame of its own in the history, with the sender `Nobody` (`Misread`), whatever its bytes were, and its target, lane and length are any. `IntactFrames` therefore
says of a frame that somebody sent that the role holding it got all its bytes; and `MisreadInv` says when a made-up one can exist: only at a machine that lost bytes on the way. Of the M33's two UARTs one is connected. Sends to the own role and polls of a foreign lane or
session 0, which Hibana does not make, are left out. The split carrier's slots are a queue with at most one frame per lane, and its
`requeue` drops the frame.

**AppkitRun.** `phase` is the place in `run_with_artifact`; attachment goes through the
requested roles in ascending order, as the visitor does. `PollTask` is one
`poll` of one slot; what the future does is external: it takes the frame its role
has, and sends, and then it yields, parks (`appkit::pending`) or waits for a frame (`rest`). `image.spins` says which carrier the image runs over: `poll_recv` of
the two Uno Q carriers wakes its caller whenever it returns Pending (`UQ`:3543, 3879, 3894), so a task that waits sets the wake flag in every pass; the other carriers
do not. `Wake` and the two `EndPass` actions are the end of a pass, the wake flag
and WFE. The embedded engine's first pass, side passes and waits are separate phases.

**WasiEngine.** `place` is who owns the guest's lease; each ownership transfer
in the code is an assignment to it. `boots`, `drops` and `releases` count what the
unsafe code must do once. The endpoint may fail at each send and receive, a host
may drop the task wherever its future is suspended, and the driver may answer
after the engine has given up.

**BakerSession.** `sender` is an arbitrary choreography: message `i` goes from
`sender[i]` to the other role, and both cores walk through the list. Between
publishing (or taking) and SEV there is a step, and between the end of a poll and WFE too.

**DeadlineAlarm.** Every register access of arm and finish is a step; the interrupt
preempts between any two. NVIC state and event register are per core, timer registers
shared. `kind` says what the wait is: a receive with a deadline (fuse, WFE), a delay
(check of READY, then WFI) or a route resolver (polling). Time is abstract: an armed alarm fires at some later moment.

**EpfLoad.** An image is a function of its cells, and a cell is named by the image it belongs to, so an
image copied while another is written is mixed. `job[c]` is where core `c` stands in the load: verify, copy cell by cell,
load, publish length, digest and state, in the order of the code. The probe writes image, length, hash and last the commit word, as the
hardware script does. `spool` and `tap` are the diagnostics of each core. On the Pico 2 W, UART0 is
drained by its interrupt handler and by the driver that waits; both feed one parser. A core looks at the commit word once per
pass and then executes WFE (`job[c].at = "wfe"`); it goes on with an event that is owed to it (`owed[c]`: SEV of the other core, the alarm) or with one from somewhere else, which may come and
need not. `irqSeen` is `BAKER_TIMER_ALARM0_READY`: a delay of the driver arms, and ends or sleeps for good in WFI (finding 2); the route of the engine arms, and the driver's wait of 500 ms for the
same word ends in success or, when it ends first, in the error of `epf_policy_timer.rs`:208-210 (`late`). The policy capsule's driver reads the committed image
without looking at `BYTECODE_HASH`; the engine's VM checks the image's own hash. `Epf::load` is external.

**BoardBoot.** `boot` is core 0 in `launch_core1`, `rom` is core 1: the bootrom (external), the
program of before, or `core1_entry`. Words left in the FIFOs by an earlier program are an initial state.
`CORE1_STARTED` is cleared before core 1 is held in reset, as in the code. After the retries core 0 parks.

**SensorPanel, SensorAir.** Each role of the panel has a cursor in one choreography, and an endpoint refuses a message that is
not next: `fault` is then `endpoint`. A handler that calls
`rp2w_poll_delay` (for the sensor, for the guest's `poll_oneoff`, in the radio's bring-up) may never come back from it: `DelayNeverReturns`, `fault` is `delay`. The radio's bring-up steps may fail except where the code ignores the outcome. The air is a set of
datagrams: a send may be lost, arrive late, or twice. A role's poll holds its core inside `recv_packet`; `polls` are its two budgets.

**UnoQShell.** The five roles follow their choreographies; `io`, `hmsg` and `smsg` are the messages in flight. A turn of the model's role asks the human and the sensor role in
parallel and answers the cell from both. The UDP thread acknowledges a sample, then queues it. The lines of a
server are checked against the phase; those of an external command are not. The M33 draws with interrupts masked, and the scan interrupt
shows what is in the matrix.

**SensorLink.** `site` is the half that moves: with `panel`, the panel against the Uno Q's UDP thread over the unreliable network; with `shell`, the whole
Uno Q against arbitrary samples. Nothing couples panel and shell but the channel of the UDP thread, which both halves contain.

## 3. Runs

| run | checks | result |
|---|---|---|
| `sio_mailbox` | `SlotExclusive`, `MailboxInv`, `NoRetraction`, refinement `ChannelSpec` | hold |
| `sio_carrier` | `CarrierInv`, `ExactlyOnce`, `InOrder` | hold |
| `lane_rewrite` | `LanePreserved` | violated (finding 1) |
| `fifo_carrier` | `ReceiveInv`, `WholeFrames`, `ChannelUntilCut` (refinement of `FrameChannel`), `SendCompletes` | hold |
| `uart_link` | `LinkInv`, `NothingLost`, `Delivered` | hold |
| `board_boot` | `BoardInv`, `DigestMatches`, `NoEventMissed`, `LaunchSound`, `CommitAnswered`, `PolicySucceeds`, `LaunchEnds` | hold |
| `sensor_link` | `SensorInv`, `AckedIsHeld`, `PanelInStep`, `FaceMatchesTurn`, `PanelProgress`, `StaleWhenSilent`, `ShellLives` | hold |
| `appkit_run` | `RunInv`, `ReturnsQuiescent`, `FrameServed`, `HostRunEnds` | hold |
| `wasi_engine` | `EngineInv`, refinement `CallsAreRemote`, `RequestSettled` | hold |
| `baker_session` | `SessionInv`, `NoLostWakeup`, `SessionCompletes` | hold |
| `alarm_single_user` | `AlarmInv`, `FuseBlows` | hold |
| `alarm_delay` | `DelayReturns` | violated (finding 2) |

Each invariant whose name ends in `Inv` is a conjunction of named parts: what the component promises and, where it is
proved, what makes that inductive. Promises among the parts: `RightAddressee` and `NoStrandedFrame` in `CarrierInv`, `InOrder` and
`NothingLost` in `ReceiveInv`, `IntactFrames`, `HeldOnce`, `InOrder` and `MisreadInv` in `LinkInv`, `LaunchSound`, `LoadedIsWhole`, `OnlyVerified` and
`FactFindsImage` in `BoardInv`, `ShellInStep` and `MatrixWhole` in `SensorInv`, `EngineSlotFree` in `RunInv`,
`CutShortByLeftover` in `AlarmInv`, `LeaseOnce` and `GuestOnce` in `EngineInv`. The supporting parts are explained in section 4.

### Bounds, and why they are enough

* `sio_mailbox`: three handles (two on one core, so that handles compete for a slot and
  one may be cancelled while the other's frame is in it), two frames each way: a slot
  is filled, emptied and reused. The proof removes the bound.
* `sio_carrier`: the Baker placement (one role per core, two lanes, with and without
  a deadline) and one with a second role on core 0. Three frames: one in the stash, one
  in the mailbox, one pending. That fills every place of one direction.
* `fifo_carrier`: driver and engine with two lanes; the sensor panel with a boundary role, with and without
  a deadline, both directions. Payloads of no word, one word and one more than fit; the real FIFO depth of four, so that every frame
  with a payload is longer than the FIFO. Two frames: the words of a cut frame meet those of the next.
* `uart_link`: magic of two bytes, header of three, queue depth two, a ring that holds two bytes: each is
  filled and overflows. One lost byte at any place, or the cut frame of an earlier session in its stead: either lets a frame be made of the bytes of two. Leftovers of an earlier session: a banner, a
  frame, a cut frame. Sites: the line, the shell, the loopback proof, the split carrier.
* `board_boot`: two cells (a torn copy is possible), one spool place and two tap events (it overflows), two uploads, two retries
  of the launch; good commits, wrong length, wrong hash, with the diagnostic and the policy capsule. One commit per session, so `DigestMatches` never meets a second image: see section 5.
* `sensor_link`: two samples, so that an old acknowledgement can meet the next sample; an empty-poll budget of one and a frame budget of two, so both end a receive; frame
  numbers that wrap at two; all four sources of lines. A human's line, a sample and an answer of the server come when a turn asks for
  them, which is when they are looked at.
* `appkit_run`: one to three roles with every position of the engine, over a carrier that spins and over one that does not, and images that
  fill or overflow the four embedded slots; three frames.
* `wasi_engine`: three imports, any number of expired budgets, two completion values. The proof removes the bound.
* `baker_session`: all 32 choreographies of five messages, which contain every pattern
  of direction changes within the two-message window the mailboxes allow. The proof
  covers every length.
* `alarm_single_user`: three waits of any kind on the core that has the timer: the alarm of one wait can meet the next wait
  and the one after it. `alarm_delay`: one delay is enough.

Deadlock checking is off where the system may stop: after a completed run, a panic, a
spent bound, or a core that sleeps with nothing to do.

### Fairness

* `FifoCarrier`: `WF` of each core's step inside a poll; `SF` of a core's send polls and of its receive polls: the
  scheduler visits every task in turn, and what a poll can do again and again is done. Nothing obliges Hibana to send or cancel.
* `UartLink`: `WF` of the byte steps of a running poll and of arrival, `SF` of the polls of the Linux process; a frame is requeued finitely often.
* `BoardBoot`: `WF` of the launch's two cores, and then, for each core, `WF` of whatever it goes on with while it is awake (`Runs(c)`: load, diagnostics, delay, its localside), and of the
  UART interrupt. A core in WFE is promised the events that are owed to it and no others: `poll_forever` looks at the commit word only in a pass, and the probe's write sets no event register, so a
  core may sleep through a commit. The probe, the host, the tap events, other events and the driver's patience are not fair.
* `SensorLink`: `WF` of each core of the panel, unless core 0 has stopped or sleeps in a delay, of each role of the shell (they are tasks of one scheduler, or threads), of the M33 and its
  scan interrupt, and of time. Network, samples and human are not fair. That each of the shell's messages arrives is an assumption here: those between cell and M33
  cross the UART of `UartLink`, which may lose a byte and has no retransmission. `ShellLives` says that the roles do not wait for each other, not that the line is sound.
* `AppkitRun`: `WF(Step)`: one core executing one control flow. Frames that
  arrive from outside are not fair. `HostRunEnds` says of a host run: it ends (returns or panics), or its carrier spins and some role waits in `recv` from then on. `FrameServed`
  leaves out a task that has parked, which takes nothing more.
* `WasiEngine`: `WF(Engine)`, `WF(DriverReplies)`: both tasks keep being polled. That the driver replies is an assumption, so `RequestSettled` is about the engine's side: an answer that came
  is not missed or given to another import. Failures
  and drops are not fair.
* `BakerSession`: `WF` of each core's step. A sleeping core has no step until its event
  register is set, so fairness does not hide a lost wakeup.
* `DeadlineAlarm`: `WF` of each core's step and of the alarm (time passes). No frame
  need arrive and no wait need start.

### Findings

1. **Lane of a local send** (`B`:954). The README says the carrier "preserves the
   logical lane carried by Hibana" (README.md:162-163). A send to a role on the same core is
   stored under the lane that role polled last. The shipped placement has one role per core
   and does not take this branch.
2. **A delay that does not return** (`B`:2273). baker.md:122 and 132 say that the guest's `poll_oneoff` completes by way
   of the driver, which calls `baker_poll_delay`. That loop looks at the ready word and then executes WFI with interrupts enabled. If the alarm
   interrupt is served between the two, the word is set, nothing is pending, and the core sleeps until some other
   interrupt. The window is a few cycles, once per delay. `rp2w_poll_delay` has the same loop. `take_mailbox_until_deadline` waits with WFE,
   whose event register an interrupt sets: `FuseBlows` holds.

Seen while modelling, and stated by no run of its own:

* plan_epf.md:594-601 gives the workflow: a probe writes an image into a running device, "runtime detects a commit word". The runtime looks at the word once at the end of each pass, and a pass that woke no
  task executes WFE (`K`:1523). The probe's write (run_baker_link_hardware_pattern.sh:432-436) sets no event register, so with both cores asleep the commit waits until something else happens.
  `CommitAnswered` states what does hold: a commit is loaded or refused by every core that does not sleep for good;
* on the Pico 2 W panel, the error path of a transmission skips the poll that comes next in the choreography, so the next message is refused and core 0
  panics, though the LCD says `retry next cycle` (`SP`:913); `PanelInStep` shows it is the only place. An image built without the radio's firmware takes it in its first cycle;
* a lost, late or doubled acknowledgement gives the panel's guest an errno, and the guest aborts;
* on the Uno Q a late or doubled sample replaces a newer one, its age is counted from the turn that took it, a socket error ends the UDP thread
  for good, and bytes from the human that are not UTF-8 end the session; the classifier admits `echo v`, which the guest refuses;
* the driver of the policy capsule waits 500 ms for the timer's interrupt, and that wait does not begin with the route's, so it may end first: the driver then fails though the timer fires. The
  ready word that an earlier delay left at 1 lets the driver pass before the route's interrupt came;
* `uno_q_hardware_proof.rs`:51 prints its result after `appkit::run`, but over a carrier that wakes its caller on Pending a run in which a role still waits never returns (`HostRunEnds`);
* on the UART a frame that lost a payload byte takes its own check byte for payload and the next frame's first MAGIC byte, 0x48, for its checksum: if 0x48 is what was lost, it passes (`UQ`:3219, 3245);
* `finish` leaves ALARM0 armed, so a wait may be ended by the alarm of an earlier one: `CutShortByLeftover` says exactly when.

## 4. Proofs

Checked by TLAPS for every value of the constants. Assumptions are the named ASSUMEs of the
modules (`MailboxAssumption`, `CarrierAssumption`, `FifoAssumption`, `UartAssumption`, `RunAssumption`, `EngineAssumption`, `SessionAssumption`,
`AlarmAssumption`, `EpfAssumption`, `BootAssumption`, `MaxSamplesAssumption`, `BudgetAssumption`, `ShellAssumption`), and TLC evaluates them on each
run. Each proof has the same form: a lemma that the initial states satisfy the invariant, one lemma or step per action, and the
theorem that joins them. Every inductive invariant is itself an invariant of the run of its component, or the conjunction of such.

**Mailbox** (`SioMailboxProofs`). `MailboxRefinesChannel`: the field-by-field mailbox
implements the atomic channel. Neither that nor `SlotExclusive` is inductive: one must
know what has been written so far. `MailboxInv` adds that a publisher has written
the first fields of its frame in order (`WriteInv`), that a taker has read them
likewise from a slot still occupied (`ReadInv`), that an occupied slot holds exactly
the last frame sent and not yet received (`SlotInv`), that the frame being published
has an owner whose `pending` it is (`OwnerInv`, `SendableInv`), and that a pending
frame is not published (`PublishedInv`). From it: `SlotIsExclusive`, `TakeIsTotal`,
`NothingRetracted`, `TypeCorrect`.

**Session** (`BakerProofs`). `SessionInvariant`: for any choreography the
cores are at most one message apart. A full mailbox holds the message the receiver is
at, both are never full (`OneFull`: each core would be one ahead of the other), and with both
empty the cores are level. A message is therefore never taken in another's place
(`ReceivesInStep`). The wakeup part must be stated before WFE, when the poll has returned
Pending but the core is still awake: a core that waits with its event register clear either
has no message or has a publisher that has not yet signalled. `NoWakeupIsLost`
and `BusySenderPolls` follow.

**Engine** (`AppkitProofs`). `EngineInvariant` says for each point of the loop who
owns the guest (`PlaceInv`) and what is in flight (`CallInv`: a request, or its
completion, or neither). `LeaseReleasedOnce`, `GuestDroppedOnce` and the refinement
`EngineRefinesRemoteCall` follow from it. A late completion for an abandoned import can
exist, and `CallInv` shows why it answers nothing: an endpoint failure ends the engine.

**SIO carrier** (`SioCarrierProofs`). For any roles, lanes, placement and number of frames. `CarrierInvariant`: each place a frame
can be in holds one that was offered and, but for a lane rewritten in a stash, as it was offered (`OfferedInv`,
`SendInv`, `HeldInv`); a requeued frame is undelivered and a delivered one was seen last (`RxInv`); a core in its take loop has no
frame staged and none stashed for that lane (`BusyInv`), which is why a taken frame may be staged. `DeliversInOrder` needs one more idea:
of one sender's frames to one port, those seen, given back, stashed, in the mailbox and about to leave are in this order of their ids (`OrderInv`);
each poll moves a frame from one place to the next. It holds where lanes are kept (`LanesKept`: one role per core, or one lane per role), and finding 1
is what happens otherwise. `CarriesExactlyOnce` counts the places of a frame where each core hosts one role (`OneRolePerCore`, as
shipped); a frame is lost only with a core that stopped with `Capacity`, at most one for each.

**FIFO carrier** (`FifoCarrierProofs`). `FramesAreWhole` and `ChannelImplemented` (refinement of `FrameChannel`) hold until a send is cancelled between two words.
The invariant describes the wire: accumulator, then FIFO, hold words one after the other without a gap, beginning at a first word
(`WireInv`); the sender's word index stands behind the last of them (`PushInv`); at most one frame ends in the FIFO, and it is the one sent and not
yet decoded (`CountInv`); a sender's frames on the wire are newer than its stashed ones, and those than the ones seen (`OrderInv`). `FifoAssumption` has two facts of this board: a FIFO
is no longer than a header (4 words, as many as a header has), so that two ends never lie in it, and of the roles of a core one sends across,
so that two sends do not interleave their words. Any payload sizes, any number of frames, roles and lanes.

**Serial line** (`UartLinkProofs`). For any ports, flows between different roles, payload sizes, header, queue depth and ring, and any number of lost bytes. `LinkInvariant` has two halves.
*Whatever is lost* (`FramesInv`; lemmas `...Keeps`): what a role holds was offered to it and has all its bytes, or nobody sent it; it is held once, and one sender's frames come in order. The parser's buffer and what is
unread (ring, register, wire) are one sequence in the order of sends (`SortedInv`) without the lost bytes (`LostInv`), made of frames for this machine that are sent or being sent
(`SentInv`, `BusyInv`). So when the buffer reaches the length its header names (`NeedInv`) with the header's bytes and a checksum that fits, each place of the frame was
received, and none is in `torn`; only the bytes of MAGIC, which are never looked at again, may be another frame's (`Lost`). A buffer that is accepted without being one frame
becomes a new frame of `Nobody` (`MadeUpIsNew`, `MadeUpHolds`), which leaves what is said of the others as it was (`SameOffered`). A frame that was sent is newer than those its role has and
older than those to come (`NewerInv`, `QueueOrder`). The queue is a circular array: `QueueOK` says that its cells in use are those that hold a frame, and lemmas say what a push and a pop do to `Contents`.
*When nothing is lost* (`StreamInv`, `AcceptedInv`; lemmas `...Carries`): buffer, unread bytes and the writer's place are one unbroken stream, in which each byte is
followed by the next of its frame and each last byte by a first (`Follows`, `Closes`). The parser therefore never starts again in the middle of a frame, whatever banner or old frame came
first, what it takes for a frame is one (`MisreadInv`: a frame of nobody means that bytes were lost), and a frame that was accepted is with its role or its last byte is unread (`Arrived`). `NothingIsLost` follows, since a clear line has no unread byte.
Two assumptions are facts of the deployments: no flow goes from a role to itself, and the split carrier's lanes are fewer than the places of the queue that stands for its slots. A third, that MAGIC has more
than one byte, is why the banner's first letter begins no frame.

**Run** (`AppkitProofs`). For any image and any number of frames. `ReturnsOnlyQuiescent` rests on `WakeInv`: in a host's pass whoever has a
frame is still to be polled in this pass, or the wake flag is set and there will be another; and on `PhaseInv`, which says that polling starts
after the last attachment and that only bare metal has the blocking engine.

**Alarm** (`BakerProofs`, whose two parts share nothing: the alarm's definitions are named `Alarm...` for that). `AlarmTypeCorrect` for any users. `AlarmInvariant` for one core that uses the alarm, as in every placement of the repository, and any number and
order of waits: while no earlier wait was cut short by a frame (`NoLeftover`), the core arms from a clean state (`ArmsClean`), the alarm is its own
or has fired for it (`WaitsForOwn`) and it leaves nothing behind (`EndsClean`). So an early end needs a leftover: `CutShortByLeftover`.

**Board** (`BoardBootProofs`). `LaunchIsSound`, for any number of retries and any FIFO depth: `HandshakeInv` says which words are in the two FIFOs at each index of the
sequence. Core 0 is at most one word ahead of the answers, by the 0 that core 1 sends on waking, and a handshake that is ahead fails at the 1 of the
sequence, never later, since only zeros are answered alike. From the fourth word on, the bootrom has taken exactly what was sent. `EventsAreKept`, for any spool and any number of
events: a spool holds the first events in order, and those read have run (`SpoolInv`).
`ImageIsNamed` and `BoardInvariant` are about an image of any number of cells and assume `OneImage`, one image on its way in a session (TLC evaluates it for
the run; section 5 says what a second image would do). The words that name the image are set after it is in its place (`NamedInv`), a core in a load has in hand what the step before gave
it (`LoadInv`), and another core only writes the same cells and words: every shared word moves from none to the image and stays. This gives one lemma for the core that does not move (`CoreStep`) and one per action for the
core that does. `ProbeInv` and `CommittedInv` relate the mailbox to the probe: before the commit nobody reads it, after it nobody writes it, and what passes the length and hash checks
is whole. `TaskInv` says what the localsides hold, so that no timer fact is run without an image. The alarm's ready word and the events change no shared image word, so their steps are lemmas of their own.

**Panel and shell** (`SensorLinkProofs`). `SensorInvariant`: for any number of samples, polls, source lines and frame numbers and any network. The invariant has three parts.
*Panel*: the cursors of the three roles and the two links between them stand at one place of the choreography (`CursorOK`, `LinkInv`), the kernel
role has served the guest's import or has not (`StepInv`: `Before`, `Behind`), the sample of a write is the one that the guest holds (`WriteInv`), and a transmission that failed leaves no driver (`RadioInv`). `PlaceFacts` lists the 38 places of
the choreography once; that an endpoint accepts a message follows from it. The only step without a next place is the one after a failed
transmission, and `PanelStaysInStep` says so.
*Acknowledgements*: `AckedIsHeld` is not inductive, since an acknowledgement is on its way for many steps. `AckInv` says of each place it may be in (air, receive queue of the
radio, the radio role's answer, the kernel's answer) that its sample is safe. The kernel compares sequence numbers, so an old acknowledgement of a safe sample never answers for a new one.
*Shell*: `SyncInv` places cell, model and M33 in the nine places of their choreography from the cell's place and whether its message has been answered, with
the ordinals and the kind of line each place calls for. It holds for every source but an external command, whose lines nothing checks. `TurnInv` relates what the model's role heard to what the human and the
sensor role said last; with it `FaceInv` carries the turn's line from the model's role to the M33 (`ShownFaceIsTheTurns`). `MatrixInv` is the mask of the scan interrupt.

Only model-checked is all liveness (`SessionCompletes`, `RequestSettled`, `FuseBlows`,
`FrameServed`, `HostRunEnds`, `SendCompletes`, `Delivered`, `CommitAnswered`, `PolicySucceeds`, `LaunchEnds`, `PanelProgress`,
`StaleWhenSilent`, `ShellLives`), since fairness is outside the prover's reach. Every
safety property of a passing run is stated by a theorem.

## 5. Not modelled

Left out for good: Wi-Fi driver internals, LCD, GPIO, I2C (device I/O), scenario local sides of the Baker board
(their choreographies are instances of what `BakerSession` quantifies over), measurement and trace words (nothing reads
them back), other guests (the engine model lets a guest do anything), Hibana and the WASI runtime (external,
modelled as used), QEMU overlay, build scripts. Within modelled components: payload bytes, message
types of individual imports, future sizes (compile-time), timestamps.

What the models keep to, and what happens outside:

* *Alarm on one core.* Every placement of the repository waits with a deadline or a delay on one core at a time. With both cores
  on ALARM0, one core's arm or finish takes the alarm from the other.
* *Time.* An armed alarm fires. That ALARM0 might be written after its time has passed, so that it fires after a wrap of the
  32-bit counter, needs clock values that the model does not have.
* *One commit per session.* The bytes of a committed image are read again after they were verified, so a probe that commits
  a second image while a core copies the first breaks `DigestMatches`; so does one while the other core is still publishing or
  picking up the first, since a core that sees LOADED need not be the last to write the words. The hardware script commits once and waits for the answer. `OneImage`
  states this, and the theorems about images have it as their hypothesis.
* *Bare metal never returns.* `poll_forever` and the engine loop have type `-> !`, so `safe_state` is reached on a host only; roles with
  numbers above the engine's are not attached. `AppkitRun` has both; no property asks for more.
* *After a cut send.* `ReceiveInv`, `WholeFrames` and `ChannelUntilCut` are about the FIFO until a send is cancelled between two words. What the receiver makes of the words after that is in the model, and no
  property speaks of it.
* *A second role on a core.* That a frame may wait in the mailbox of a core which never reads it (`B`:948, two roles on one core, one not polled yet) is a state of the `sio_carrier` run; `NoStrandedFrame` is stated for one role per core,
  the shipped placement, where it cannot arise.
* *A guest that computes for ever* keeps its image's other tasks waiting on a host.
* *Sensors.* A dead DHT20 yields zeros marked fresh; the panel's sample numbers start again after a reboot.

## 6. Plan

Done: all components of the inventory; proofs of mailbox, session, engine, SIO and FIFO carriers,
serial line, run, alarm, board, panel and shell. Next:

1. shorter proofs where lemmas of the three carriers say the same (queues, order of one sender's frames).
