----------------------------- MODULE SensorLink -----------------------------
(***************************************************************************)
(* The sensor panel and the Uno Q, joined by the network.  The two meet    *)
(* only in datagrams, so each is checked against the network and the other *)
(* end of it: at site "panel" the whole panel runs against the Uno Q's UDP *)
(* thread; at site "shell" the whole Uno Q runs against a thread that may  *)
(* put any sample into its channel at any time, which is what the panel    *)
(* and a network that loses, delays and repeats datagrams come to.         *)
(***************************************************************************)
EXTENDS SensorPanel, UnoQShell

VARIABLE site

vars == <<air, site, panelVars, shellVars>>

Init ==
    /\ site \in {"panel", "shell"}
    /\ air = {}
    /\ PanelInit
    /\ ShellInit
    /\ site = "panel" => source = "missing" /\ upc = "recv"
    /\ site = "shell" => built

-----------------------------------------------------------------------------
Panel(A) == site = "panel" /\ A /\ UNCHANGED <<site, shellVars>>
Shell(A) == site = "shell" /\ A /\ UNCHANGED <<air, site, panelVars>>

Udp(A)   == site = "panel" /\ A /\ UNCHANGED <<site, panelVars>>

\* What the human and the panel say matters to the script only: the lines of
\* a server or a command are arbitrary as it is.  Nothing but a turn looks at
\* it, so it comes when the turn has been asked for.
Input(A) == site = "shell" /\ source = "scripted" /\ A /\ UNCHANGED <<site, panelVars>>

Network == Lose /\ UNCHANGED <<site, panelVars, shellVars>>

Next ==
    \/ Panel(CoreZero)
    \/ Panel(CoreOne)
    \/ Panel(AckArrives)
    \/ Panel(OtherArrives)
    \/ Udp(UdpThread)
    \/ Udp(UdpEnd)
    \/ Input(smsg = "req" /\ SampleQueued)
    \/ Input(UdpEnd)
    \/ Input(hmsg.way = "req" /\ HumanTypes /\ UNCHANGED air)
    \/ Network
    \/ Shell(CellRole)
    \/ Shell(LlmRole)
    \/ Shell(HumanRole)
    \/ Shell(SensorRole)
    \/ Shell(Tick)
    \/ Shell(M33Role)
    \/ Shell(Systick)

\* Every core and every thread that can take a step takes one in the end.
\* The network need not deliver, a sample need not come, a human need not type.
Fairness ==
    /\ WF_vars(Panel(CoreZero))
    /\ WF_vars(Panel(CoreOne))
    /\ WF_vars(Shell(CellRole))
    /\ WF_vars(Shell(LlmRole))
    /\ WF_vars(Shell(HumanRole))
    /\ WF_vars(Shell(SensorRole))
    /\ WF_vars(Shell(Tick))
    /\ WF_vars(Shell(M33Role))
    /\ WF_vars(Shell(Systick))

Spec == Init /\ [][Next]_vars /\ Fairness

-----------------------------------------------------------------------------
(* Properties *)

\* The variables hold values of their types.
TypeOK ==
    /\ site \in {"panel", "shell"}
    /\ air \subseteq Datagrams
    /\ PanelTypeOK
    /\ ShellTypeOK
    /\ UdpTypeOK

\* The sample is in the channel of the sensor role, or the thread that has just
\* acknowledged it is about to put it there.
Safe(n) == n \in queued \/ (upc = "queue" /\ held = n)

\* A write of the guest that succeeded means that its sample reached the Uno Q:
\* the sample is in the channel of the sensor role, or the thread that has just
\* acknowledged it is about to put it there.  Acknowledgements that are late,
\* doubled or of another sample do not count (driver_fd_write_uno_q,
\* poll_wifi_udp_ack, spawn_pico2w_sensor_udp).
AckedIsHeld ==
    \A n \in acked : Safe(n)

\* Every acknowledgement under way is of a sample that is safe: in the air, in
\* the radio, between the roles of core 0, and in the answer to the guest.
AirAcks    == \A n \in Seqs : Ack(n) \in air => Safe(n)
RxAcks     == \A i \in DOMAIN rxq : rxq[i].kind = "ack" => Safe(rxq[i].seq)
WifiAcks   == Carries(wifi, "rx", "ret") /\ wifi.ok => Safe(wifi.seq)
AnswerAcks == gpc.at = "uno_q" /\ wasi.way = "ret" /\ wasi.ok => Safe(buffer)
AckInv     == AirAcks /\ RxAcks /\ WifiAcks /\ AnswerAcks

\* The roles of the panel leave the choreography in one place only: after a
\* transmission that failed, when the driver of the radio is gone.  Nothing
\* that the network does, and no acknowledgement that is missing, late or
\* wrong, brings an endpoint error (driver_fd_write_uno_q).
PanelInStep ==
    fault \in {"endpoint", "object"} => fault = "endpoint" /\ radio = "none" /\ kpc = "sending"

\* The guest's import returns, or core 0 has stopped, by an error of a role or in
\* a delay that does not return: however many frames of others the radio hears,
\* recv_packet gives up within its budgets.
PanelProgress ==
    gpc.waits ~> (~gpc.waits \/ fault # "none")

\* The face that the M33 shows is the one that the human and the sensor asked
\* for in the turn of this very line, although their roles run on meanwhile
\* and lines and samples keep coming (LocalLlmShellSource::next_command).
FaceMatchesTurn ==
    source = "scripted" /\ m33.pc = "shown" =>
        m33.face = ScriptedFace(human.latest, sensor.given, m33.ord)

\* Cell, model and M33 stay in step for ever with the script, and with a
\* server as long as it does not ask for the face "v": no role meets a file or
\* a number that it does not expect (run_boundary, drive_face_frame_loop).
ShellInStep ==
    sfault \in {"fd", "ordinal", "endpoint"} =>
        source = "external" \/ (source = "server" /\ cell.line = LineOf("v"))

\* The LEDs never show a matrix that is half drawn: the scan interrupt does not
\* run between clearing and drawing (with_renderer, systick_handler).
MatrixWhole ==
    lit # "partial"

\* The panel and the shell as a whole: the roles of either are in step, every
\* acknowledgement is of a sample that is safe, every turn is the one that was
\* asked for, and the display is whole.
SensorInv ==
    /\ TypeOK
    /\ LinkInv /\ StepInv /\ WriteInv /\ RadioInv
    /\ AckInv /\ AckedIsHeld /\ PanelInStep
    /\ CallInv /\ SyncInv /\ TurnInv /\ FaceInv /\ MatrixInv
    /\ ShellInStep /\ MatrixWhole

\* Once the UDP thread has ended no sample counts as fresh for ever: the model
\* is told that the last one is stale, or the session has ended
\* (Pico2wSensorSource::next_sample).
StaleWhenSilent ==
    <>[](upc = "ended") => <>[](sensor.given.status # "fresh" \/ sfault # "none")

\* With the script the faces go on for ever, unless bytes that are no text
\* come from the human: the model's role never waits for an answer that
\* another role has given or will not give (the turns of run_boundary).
ShellLives ==
    site = "shell" /\ source = "scripted" => []<>(m33.pc = "shown" \/ sfault = "human")
=============================================================================
