---------------------------- MODULE SensorPanel ----------------------------
(***************************************************************************)
(* The sensor panel of the Pico 2 W: a WASI guest on core 1 reads a sample,*)
(* writes it to the display and to the Uno Q and sleeps, over and over; on *)
(* core 0 the kernel role answers the guest's imports and the CYW43 role   *)
(* owns the radio.  The three roles run one choreography, which the three  *)
(* cursors follow: an endpoint refuses a message that its role does not    *)
(* have next, and the role ends with the error.                            *)
(*                                                                         *)
(*   built    whether the image was built with the radio's firmware        *)
(*   cursor   per role: its place in the choreography                      *)
(*   wasi     the message between guest and kernel                         *)
(*   wifi     the message between kernel and radio role                    *)
(*   kpc, stage          the kernel role and its bring-up or open step     *)
(*   kseq     the number of the sample that the kernel sends               *)
(*   udpSeq   SENSOR_UDP_SEQ: the number of the next sample                *)
(*   gpc, buffer         the guest: its import and the sample it holds     *)
(*   wpc, wstage         the radio role and its bring-up step              *)
(*   radio    UnoQWifiSender::driver                                       *)
(*   polls    the two counters of recv_packet                              *)
(*   rxq      frames that the radio has received                           *)
(*   fault    what stopped core 0: the error of a role, or a delay that    *)
(*            does not return                                              *)
(*   acked    history: samples whose write to the Uno Q succeeded          *)
(***************************************************************************)
EXTENDS SensorAir, Sequences, FiniteSetsExt

CONSTANTS
    EmptyPollBudget,    \* WIFI_RX_EMPTY_POLL_BUDGET
    FrameBudget,        \* WIFI_RX_FRAME_BUDGET
    RxDepth             \* bound on the frames that the radio holds

ASSUME BudgetAssumption ==
    EmptyPollBudget \in Nat \ {0} /\ FrameBudget \in Nat \ {0} /\ RxDepth \in Nat \ {0}

VARIABLES built, cursor, wasi, wifi, kpc, stage, kseq, udpSeq, gpc, buffer,
          wpc, wstage, radio, polls, rxq, fault, acked

core0Vars == <<kpc, stage, kseq, udpSeq, wpc, wstage, radio, polls, fault>>
panelVars == <<built, cursor, wasi, wifi, kpc, stage, kseq, udpSeq, gpc,
               buffer, wpc, wstage, radio, polls, rxq, fault, acked>>

-----------------------------------------------------------------------------
(* The choreography. *)

Kernel == "kernel"
Guest  == "guest"
Wifi   == "wifi"
Roles  == {Kernel, Guest, Wifi}

Req(a, b, op)  == [from |-> a, to |-> b, op |-> op, way |-> "req"]
Ret(a, b, op)  == [from |-> b, to |-> a, op |-> op, way |-> "ret"]

\* A request and its return for each of the operations.
Pairs(a, b, ops) ==
    [i \in 1..(2 * Len(ops)) |-> IF i % 2 = 1 THEN Req(a, b, ops[(i + 1) \div 2])
                                             ELSE Ret(a, b, ops[i \div 2])]

\* The ten steps that bring the radio up and join the network.
BringUp == <<"power", "gspi", "backplane", "firmware", "nvram", "start",
             "clm", "up", "join", "link">>

\* The objects that the guest opens, in order.
Objects == <<"sample", "display", "uno_q">>

\* One cycle of the guest: the second write returns after the exchange with
\* the radio role.
SampleCycle ==
    <<Req(Guest, Kernel, "fd_read"), Ret(Guest, Kernel, "fd_read"),
      Req(Guest, Kernel, "fd_write"), Ret(Guest, Kernel, "fd_write"),
      Req(Guest, Kernel, "fd_write"),
      Req(Kernel, Wifi, "tx"), Ret(Kernel, Wifi, "tx"),
      Req(Kernel, Wifi, "rx"), Ret(Kernel, Wifi, "rx"),
      Ret(Guest, Kernel, "fd_write"),
      Req(Guest, Kernel, "poll_oneoff"), Ret(Guest, Kernel, "poll_oneoff")>>

Prologue ==
    Pairs(Kernel, Wifi, BringUp)
      \o Pairs(Guest, Kernel, [i \in 1..Len(Objects) |-> "path_open"])

choreography == Prologue \o SampleCycle

\* The first place after i that concerns role r; the cycle is rolled.
PlacesOf(r) == {i \in 1..Len(choreography) :
                  r \in {choreography[i].from, choreography[i].to}}
NextPlace ==
    [r \in Roles |-> [i \in 0..Len(choreography) |->
        LET later == {j \in PlacesOf(r) : j > i}
            again == {j \in PlacesOf(r) : j > Len(Prologue)}
        IN Min(IF later # {} THEN later ELSE again)]]

\* Whether the choreography has this message at a place, and whether the
\* endpoint of role r has it next.
Has(place, op, way) ==
    choreography[place].op = op /\ choreography[place].way = way
Admits(r, op, way) == Has(cursor[r], op, way)

Advance(rs) == [r \in Roles |-> IF r \in rs THEN NextPlace[r][cursor[r]] ELSE cursor[r]]

NoMessage == [op |-> "none", way |-> "none", obj |-> "none", seq |-> 0, ok |-> TRUE]
Message(op, way, obj, seq, ok) ==
    [op |-> op, way |-> way, obj |-> obj, seq |-> seq, ok |-> ok]

Carries(link, op, way) == link.op = op /\ link.way = way

-----------------------------------------------------------------------------
NoPolls == [empty |-> 0, frames |-> 0]

PanelInit ==
    /\ built \in BOOLEAN
    /\ cursor = [r \in Roles |-> NextPlace[r][0]]
    /\ wasi = NoMessage
    /\ wifi = NoMessage
    /\ kpc = "boot"
    /\ stage = 1
    /\ kseq = 0
    /\ udpSeq = 0
    /\ gpc = [at |-> "open", n |-> 1, waits |-> FALSE]
    /\ buffer = 0
    /\ wpc = "boot"
    /\ wstage = 1
    /\ radio = "none"
    /\ polls = NoPolls
    /\ rxq = <<>>
    /\ fault = "none"
    /\ acked = {}

-----------------------------------------------------------------------------
(* The guest: std::fs calls, one import each.  An error of a call aborts. *)

\* The object and the import of each place of the guest's program.
GuestImportAt(at) ==
    CASE at = "open"    -> <<"path_open", Objects[gpc.n]>>
      [] at = "read"    -> <<"fd_read", "sample">>
      [] at = "display" -> <<"fd_write", "display">>
      [] at = "uno_q"   -> <<"fd_write", "uno_q">>
      [] at = "sleep"   -> <<"poll_oneoff", "none">>

GuestCall ==
    LET import == GuestImportAt(gpc.at) IN
    /\ gpc.at # "abort"
    /\ ~gpc.waits
    /\ wasi = NoMessage
    /\ gpc.at = "read" => udpSeq < MaxSamples
    /\ Admits(Guest, import[1], "req")
    /\ cursor' = Advance({Guest})
    /\ wasi' = Message(import[1], "req", import[2], buffer, TRUE)
    /\ gpc' = [gpc EXCEPT !.waits = TRUE]
    /\ UNCHANGED <<air, built, wifi, core0Vars, buffer, rxq, acked>>

GuestAfter ==
    CASE gpc.at = "open" /\ gpc.n < Len(Objects) -> [at |-> "open", n |-> gpc.n + 1, waits |-> FALSE]
      [] gpc.at = "open" /\ gpc.n = Len(Objects) -> [at |-> "read", n |-> 0, waits |-> FALSE]
      [] gpc.at = "read"    -> [at |-> "display", n |-> 0, waits |-> FALSE]
      [] gpc.at = "display" -> [at |-> "uno_q", n |-> 0, waits |-> FALSE]
      [] gpc.at = "uno_q"   -> [at |-> "sleep", n |-> 0, waits |-> FALSE]
      [] gpc.at = "sleep"   -> [at |-> "read", n |-> 0, waits |-> FALSE]

GuestReturn ==
    /\ gpc.waits
    /\ Carries(wasi, GuestImportAt(gpc.at)[1], "ret")
    /\ Admits(Guest, wasi.op, "ret")
    /\ cursor' = Advance({Guest})
    /\ wasi' = NoMessage
    /\ buffer' = IF gpc.at = "read" THEN wasi.seq ELSE buffer
    /\ gpc' = IF wasi.ok THEN GuestAfter ELSE [at |-> "abort", n |-> 0, waits |-> FALSE]
    /\ acked' = IF gpc.at = "uno_q" /\ wasi.ok THEN acked \cup {buffer} ELSE acked
    /\ UNCHANGED <<air, built, wifi, core0Vars, rxq>>

-----------------------------------------------------------------------------
(* The kernel role of core 0. *)

\* The role ends with an error: appkit panics and both roles of the core stop.
Fail(cause) ==
    /\ fault' = cause
    /\ UNCHANGED <<air, built, cursor, wasi, wifi, kpc, stage, kseq, udpSeq, gpc,
                   buffer, wpc, wstage, radio, polls, rxq, acked>>

\* The kernel takes the request of a call that it has next ...
Serves(op) ==
    /\ fault = "none"
    /\ Carries(wasi, op, "req")
    /\ Admits(Kernel, op, "req")

\* ... and sends the message after it, which is next.
ServedCursor ==
    [cursor EXCEPT ![Kernel] = NextPlace[Kernel][NextPlace[Kernel][@]]]

\* driver_cyw43_step: the request of a bring-up step.
KernelBoot ==
    /\ kpc = "boot"
    /\ fault = "none"
    /\ Admits(Kernel, BringUp[stage], "req")
    /\ wifi = NoMessage
    /\ wifi' = Message(BringUp[stage], "req", "none", 0, TRUE)
    /\ cursor' = Advance({Kernel})
    /\ kpc' = "booting"
    /\ UNCHANGED <<air, built, wasi, stage, kseq, udpSeq, gpc, buffer, wpc,
                   wstage, radio, polls, rxq, fault, acked>>

KernelBooted ==
    /\ kpc = "booting"
    /\ fault = "none"
    /\ Carries(wifi, BringUp[stage], "ret")
    /\ Admits(Kernel, BringUp[stage], "ret")
    /\ wifi' = NoMessage
    /\ cursor' = Advance({Kernel})
    /\ IF stage = Len(BringUp) THEN kpc' = "open" /\ stage' = 1
                              ELSE kpc' = "boot" /\ stage' = stage + 1
    /\ UNCHANGED <<air, built, wasi, kseq, udpSeq, gpc, buffer, wpc, wstage,
                   radio, polls, rxq, fault, acked>>

\* driver_path_open: the objects are opened in the order of the ledger.
KernelPathOpen ==
    /\ kpc = "open"
    /\ Serves("path_open")
    /\ IF wasi.obj # Objects[stage]
       THEN Fail("object")
       ELSE /\ cursor' = ServedCursor
            /\ wasi' = Message("path_open", "ret", wasi.obj, 0, TRUE)
            /\ IF stage = Len(Objects) THEN kpc' = "read" /\ stage' = 1
                                      ELSE kpc' = "open" /\ stage' = stage + 1
            /\ UNCHANGED <<air, built, wifi, kseq, udpSeq, gpc, buffer, wpc,
                           wstage, radio, polls, rxq, fault, acked>>

\* driver_admit_cycle: the sample takes the next number.  A sensor that does
\* not answer gives a sample with temperature and humidity 0, not an error; one
\* that does is waited for, and this is the answer when the delay returns.
KernelFdRead ==
    /\ kpc = "read"
    /\ Serves("fd_read")
    /\ IF wasi.obj # "sample"
       THEN Fail("object")
       ELSE /\ cursor' = ServedCursor
            /\ wasi' = Message("fd_read", "ret", "sample", udpSeq, TRUE)
            /\ udpSeq' = udpSeq + 1
            /\ kpc' = "display"
            /\ UNCHANGED <<air, built, wifi, stage, kseq, gpc, buffer, wpc, wstage,
                           radio, polls, rxq, fault, acked>>

\* driver_fd_write_display: the write succeeds whatever the LCD does.
KernelFdWriteDisplay ==
    /\ kpc = "display"
    /\ Serves("fd_write")
    /\ IF wasi.obj # "display"
       THEN Fail("object")
       ELSE /\ cursor' = ServedCursor
            /\ wasi' = Message("fd_write", "ret", "display", wasi.seq, TRUE)
            /\ kpc' = "uno_q"
            /\ UNCHANGED <<air, built, wifi, stage, kseq, udpSeq, gpc, buffer, wpc,
                           wstage, radio, polls, rxq, fault, acked>>

\* driver_fd_write_uno_q: the datagram goes to the radio role.
KernelFdWriteUnoQ ==
    /\ kpc = "uno_q"
    /\ Serves("fd_write")
    /\ wifi = NoMessage
    /\ IF wasi.obj # "uno_q"
       THEN Fail("object")
       ELSE /\ cursor' = ServedCursor
            /\ wasi' = NoMessage
            /\ wifi' = Message("tx", "req", "uno_q", wasi.seq, TRUE)
            /\ kseq' = wasi.seq
            /\ kpc' = "sending"
            /\ UNCHANGED <<air, built, stage, udpSeq, gpc, buffer, wpc, wstage,
                           radio, polls, rxq, fault, acked>>

\* The kernel took a message of the radio role and answers the guest's write
\* from the place after it: with an errno unless ok.
AnswerWrite(place, ok) ==
    IF ~Has(place, "fd_write", "ret")
    THEN Fail("endpoint")
    ELSE /\ cursor' = [cursor EXCEPT ![Kernel] = NextPlace[Kernel][place]]
         /\ wasi' = Message("fd_write", "ret", "uno_q", kseq, ok)
         /\ wifi' = NoMessage
         /\ kpc' = "poll"
         /\ UNCHANGED <<air, built, stage, kseq, udpSeq, gpc, buffer, wpc, wstage,
                        radio, polls, rxq, fault, acked>>

\* The bug of a kernel that does not wait for the acknowledgement.
MutKernelTxResult ==
    LET place == NextPlace[Kernel][cursor[Kernel]] IN
    /\ kpc = "sending"
    /\ fault = "none"
    /\ Carries(wifi, "tx", "ret")
    /\ Admits(Kernel, "tx", "ret")
    /\ AnswerWrite(place, wifi.ok)

\* The result of the transmission.  After an error the kernel does not poll
\* for the acknowledgement but answers the write at once: the choreography
\* has the poll next.
KernelTxResult ==
    LET place == NextPlace[Kernel][cursor[Kernel]] IN
    /\ kpc = "sending"
    /\ fault = "none"
    /\ Carries(wifi, "tx", "ret")
    /\ Admits(Kernel, "tx", "ret")
    /\ IF wifi.ok
       THEN /\ Has(place, "rx", "req")
            /\ cursor' = [cursor EXCEPT ![Kernel] = NextPlace[Kernel][place]]
            /\ wifi' = Message("rx", "req", "none", 0, TRUE)
            /\ kpc' = "polling"
            /\ UNCHANGED <<air, built, wasi, stage, kseq, udpSeq, gpc, buffer, wpc,
                           wstage, radio, polls, rxq, fault, acked>>
       ELSE AnswerWrite(place, FALSE)

\* The bug of taking any acknowledgement for this one's.
MutAcknowledges(result) == result.ok

\* poll_wifi_udp_ack: only the acknowledgement of this sample will do.
Acknowledges(result) == result.ok /\ result.seq = kseq

KernelRxResult ==
    LET place == NextPlace[Kernel][cursor[Kernel]] IN
    /\ kpc = "polling"
    /\ fault = "none"
    /\ Carries(wifi, "rx", "ret")
    /\ Admits(Kernel, "rx", "ret")
    /\ AnswerWrite(place, Acknowledges(wifi))

\* driver_poll_oneoff: the kernel sleeps for the guest; the delay returns, and it
\* answers.
KernelPollOneoff ==
    /\ kpc = "poll"
    /\ Serves("poll_oneoff")
    /\ cursor' = ServedCursor
    /\ wasi' = Message("poll_oneoff", "ret", "none", 0, TRUE)
    /\ kpc' = "read"
    /\ UNCHANGED <<air, built, wifi, stage, kseq, udpSeq, gpc, buffer, wpc, wstage,
                   radio, polls, rxq, fault, acked>>

-----------------------------------------------------------------------------
(* The radio role of core 0. *)

\* The radio role takes the request that it has next and answers it.
WifiAnswers(op, seq, ok) ==
    /\ cursor' = [cursor EXCEPT ![Wifi] = NextPlace[Wifi][NextPlace[Wifi][@]]]
    /\ wifi' = Message(op, "ret", "none", seq, ok)

WifiTakes(op) ==
    /\ fault = "none"
    /\ Carries(wifi, op, "req")
    /\ Admits(Wifi, op, "req")

\* cyw43_boundary_bootstrap: a step of the chip may fail, but for the two that
\* do not wait for it; without the firmware in the image the steps are
\* answered and the chip left alone.
WifiBoot ==
    /\ wpc = "boot"
    /\ WifiTakes(BringUp[wstage])
    /\ \/ /\ built
          /\ BringUp[wstage] \notin {"power", "nvram"}
          /\ Fail("bootstrap")
       \/ /\ WifiAnswers(BringUp[wstage], 0, TRUE)
          /\ IF wstage = Len(BringUp)
             THEN /\ wpc' = "tx"
                  /\ radio' = IF built THEN "ready" ELSE "none"
                  /\ UNCHANGED wstage
             ELSE wstage' = wstage + 1 /\ UNCHANGED <<wpc, radio>>
          /\ UNCHANGED <<air, built, wasi, kpc, stage, kseq, udpSeq, gpc, buffer,
                         polls, rxq, fault, acked>>

\* send_datagram: an error drops the driver for good.
SendDatagram(seq, ok) ==
    \/ ok /\ radio = "ready" /\ air' = air \cup {Sample(seq)} /\ UNCHANGED radio
    \/ ~ok /\ radio' = "none" /\ UNCHANGED air

\* cyw43_boundary_tx_udp.
WifiTx ==
    /\ wpc = "tx"
    /\ WifiTakes("tx")
    /\ wpc' = "rx"
    /\ \E ok \in BOOLEAN : SendDatagram(wifi.seq, ok) /\ WifiAnswers("tx", wifi.seq, ok)
    /\ UNCHANGED <<built, wasi, kpc, stage, kseq, udpSeq, gpc, buffer, wstage,
                   polls, rxq, fault, acked>>

\* cyw43_boundary_rx_udp: the role starts to look at the frames it has.
WifiRxPoll ==
    /\ wpc = "rx"
    /\ WifiTakes("rx")
    /\ wpc' = "recv"
    /\ polls' = NoPolls
    /\ UNCHANGED <<air, built, cursor, wasi, wifi, kpc, stage, kseq, udpSeq, gpc,
                   buffer, wstage, radio, rxq, fault, acked>>

\* recv_packet returns: a packet, or nothing.
RxReturns(seq, ok) ==
    /\ WifiAnswers("rx", seq, ok)
    /\ wpc' = "tx"
    /\ UNCHANGED <<air, built, wasi, kpc, stage, kseq, udpSeq, gpc, buffer, wstage,
                   radio, fault, acked>>

\* service_arp_ipv4_request answers at most: the loop goes on.
RxContinues ==
    UNCHANGED <<air, built, cursor, wasi, wifi, kpc, stage, kseq, udpSeq, gpc,
                buffer, wpc, wstage, radio, fault, acked>>

\* The loop goes on while the driver is there and both budgets last.
WithinBudget ==
    radio = "ready" /\ polls.empty < EmptyPollBudget /\ polls.frames < FrameBudget

\* The bug of not counting the frames of others.
MutOtherFrame == [polls EXCEPT !.empty = 0]

\* A frame for others spends the frame budget and renews the other one.
OtherFrame == [empty |-> 0, frames |-> polls.frames + 1]

\* One turn of the loop of recv_packet: no frame, the first datagram for this
\* port, whatever it says, or another frame, which is served if it is an ARP
\* request.  An error of the chip ends the loop and keeps the driver.
WifiRecvFrame ==
    /\ wpc = "recv"
    /\ fault = "none"
    /\ WithinBudget
    /\ \/ /\ rxq = <<>>
          /\ polls' = [polls EXCEPT !.empty = @ + 1]
          /\ RxContinues /\ UNCHANGED rxq
       \/ /\ rxq # <<>>
          /\ rxq' = Tail(rxq)
          /\ UNCHANGED polls
          /\ Head(rxq).kind = "ack"
          /\ RxReturns(Head(rxq).seq, TRUE)
       \/ /\ rxq # <<>>
          /\ rxq' = Tail(rxq)
          /\ Head(rxq).kind = "other"
          /\ polls' = OtherFrame
          /\ RxContinues
       \/ /\ rxq' \in {rxq} \cup (IF rxq = <<>> THEN {} ELSE {Tail(rxq)})
          /\ UNCHANGED polls
          /\ RxReturns(0, FALSE)

\* There is no driver or a budget is spent: RX_PENDING.
WifiRecvNothing ==
    /\ wpc = "recv"
    /\ fault = "none"
    /\ ~WithinBudget
    /\ UNCHANGED <<polls, rxq>>
    /\ RxReturns(0, FALSE)

-----------------------------------------------------------------------------
(* The chip, while it is joined: an acknowledgement or another frame. *)

Listening == wpc # "boot" /\ radio = "ready" /\ Len(rxq) < RxDepth

AckArrives ==
    \E n \in Seqs :
        /\ Listening
        /\ Arrives(Ack(n))
        /\ rxq' = Append(rxq, Ack(n))
        /\ UNCHANGED <<built, cursor, wasi, wifi, core0Vars, gpc, buffer, acked>>

OtherArrives ==
    /\ Listening
    /\ rxq' = Append(rxq, [kind |-> "other", seq |-> 0])
    /\ UNCHANGED <<air, built, cursor, wasi, wifi, core0Vars, gpc, buffer, acked>>

\* A handler of core 0 calls rp2w_poll_delay: for the sensor (dht20_read), for
\* the guest (driver_poll_oneoff), or for the chip, whose driver is handed the
\* delay and is taken to use it in the bring-up.
Delays ==
    \/ kpc = "read" /\ Serves("fd_read") /\ wasi.obj = "sample"
    \/ kpc = "poll" /\ Serves("poll_oneoff")
    \/ built /\ wpc = "boot" /\ WifiTakes(BringUp[wstage])

\* The interrupt of the alarm comes between the look at READY and the WFI, and
\* core 0 sleeps for good (DeadlineAlarm has the steps).
DelayNeverReturns == Delays /\ Fail("delay")

CoreZero ==
    \/ KernelBoot \/ KernelBooted \/ KernelPathOpen \/ KernelFdRead
    \/ KernelFdWriteDisplay \/ KernelFdWriteUnoQ \/ KernelTxResult
    \/ KernelRxResult \/ KernelPollOneoff
    \/ WifiBoot \/ WifiTx \/ WifiRxPoll \/ WifiRecvFrame \/ WifiRecvNothing
    \/ DelayNeverReturns

CoreOne == GuestCall \/ GuestReturn

PanelNext == CoreZero \/ CoreOne \/ AckArrives \/ OtherArrives

-----------------------------------------------------------------------------
(* What holds of the panel at all times. *)

WasiOps == {"path_open", "fd_read", "fd_write", "poll_oneoff"}
GuestPlaces == {"open", "read", "display", "uno_q", "sleep"}
KernelPlaces == {"boot", "booting", "open", "read", "display", "uno_q",
                 "sending", "polling", "poll"}

Messages == [op : {"none", "tx", "rx"} \cup WasiOps \cup {BringUp[i] : i \in 1..Len(BringUp)},
             way : {"none", "req", "ret"},
             obj : {"none", "sample", "display", "uno_q"}, seq : Seqs, ok : BOOLEAN]
Received == [kind : {"ack", "other"}, seq : Seqs]

CursorOK == DOMAIN cursor = Roles /\ \A r \in Roles : cursor[r] \in PlacesOf(r)
MessagesOK == wasi \in Messages /\ wifi \in Messages

PanelTypeOK ==
    /\ CursorOK /\ MessagesOK
    /\ built \in BOOLEAN
    /\ kpc \in KernelPlaces
    /\ stage \in 1..Len(BringUp) /\ wstage \in 1..Len(BringUp)
    /\ udpSeq \in 0..MaxSamples
    /\ kseq \in Seqs /\ buffer \in Seqs
    /\ gpc \in [at : GuestPlaces \cup {"abort"}, n : 0..Len(Objects), waits : BOOLEAN]
    /\ wpc \in {"boot", "tx", "rx", "recv"}
    /\ radio \in {"none", "ready"}
    /\ polls \in [empty : 0..EmptyPollBudget, frames : 0..FrameBudget]
    /\ rxq \in Seq(Received) /\ Len(rxq) <= RxDepth
    /\ fault \in {"none", "object", "bootstrap", "endpoint", "delay"}
    /\ acked \subseteq Seqs

\* The import that the guest is in is the one on its link, if any is.
LinkInv ==
    /\ wasi # NoMessage =>
          /\ gpc.waits /\ gpc.at # "abort"
          /\ wasi.op = GuestImportAt(gpc.at)[1] /\ wasi.way \in {"req", "ret"}
          /\ wasi.way = "req" => wasi.obj = GuestImportAt(gpc.at)[2]
    /\ gpc.waits /\ wasi = NoMessage => gpc.at = "uno_q" /\ kpc \in {"sending", "polling"}
    /\ gpc.at = "open" => gpc.n \in 1..Len(Objects)

\* The kernel role has not served the import of the guest's place ...
Before ==
    CASE gpc.at = "open"  -> \/ kpc \in {"boot", "booting"} /\ gpc.n = 1
                             \/ kpc = "open" /\ stage = gpc.n
      [] gpc.at = "uno_q" -> kpc = "uno_q" \/ (gpc.waits /\ wasi = NoMessage)
      [] gpc.at = "sleep" -> kpc = "poll"
      [] gpc.at = "abort" -> TRUE
      [] OTHER            -> kpc = gpc.at

\* ... or has served it.
Behind ==
    CASE gpc.at = "open"    -> IF gpc.n = Len(Objects) THEN kpc = "read"
                               ELSE kpc = "open" /\ stage = gpc.n + 1
      [] gpc.at = "read"    -> kpc = "display"
      [] gpc.at = "display" -> kpc = "uno_q"
      [] gpc.at = "uno_q"   -> kpc = "poll"
      [] gpc.at = "sleep"   -> kpc = "read"
      [] OTHER              -> TRUE

\* Guest and kernel role are in step, whatever the radio role does.
StepInv ==
    /\ IF wasi.way = "ret" THEN Behind ELSE Before
    /\ gpc.at = "abort" => kpc = "poll"
    /\ wasi.way = "ret" /\ ~wasi.ok => gpc.at = "uno_q"
    /\ Carries(wasi, "fd_read", "req") => udpSeq < MaxSamples

\* The sample of a write to the Uno Q is the one that the guest holds.
WriteInv ==
    gpc.at = "uno_q" /\ gpc.waits =>
        /\ wasi.way = "req" => wasi.seq = buffer
        /\ kpc \in {"sending", "polling", "poll"} => kseq = buffer

\* A transmission that failed leaves no driver.
RadioInv ==
    Carries(wifi, "tx", "ret") /\ ~wifi.ok => radio = "none"
=============================================================================
