----------------------------- MODULE UnoQShell -----------------------------
(***************************************************************************)
(* The Uno Q: a WASI cell runs a small shell whose standard input is       *)
(* written by a language model and whose /face/frame object is the LED     *)
(* matrix of the M33.  Before each line the boundary role of the model     *)
(* asks the human role and the sensor role for what they have.             *)
(*                                                                         *)
(*   source   where the lines come from: the built-in script, a model      *)
(*            server, an external command, or nothing                      *)
(*   cell     the guest: what it does next, its place in the choreography, *)
(*            the number of its next frame, the command it read            *)
(*   io       the message between the cell and the role that serves it     *)
(*   llm      the model's role: state, phase of the cycle (0: list, 1:     *)
(*            face), number of the face, what it heard of the human and of *)
(*            the sensor, attempts at a line                               *)
(*   human, hmsg, typed  the human role, its message, the line typed last  *)
(*   sensor, smsg        the sensor role and its message                   *)
(*   upc, held, inbox    the UDP thread, the sample it holds, the last     *)
(*            sample in its channel that the sensor role has not taken     *)
(*   m33, matrix, masked the M33's role, the matrix, interrupts disabled   *)
(*   lit      what the scan interrupt showed last                          *)
(*   queued   history: samples put into the channel                        *)
(*   sfault   the error that ended a role                                  *)
(***************************************************************************)
EXTENDS SensorAir, Sequences, Integers

CONSTANTS
    Sources,            \* the sources of lines that a run covers
    ModelLines,         \* lines that a model server or a command may write
    LightRaw,           \* LightRaw[n]: the light of sample n
    WeakRaw, StrongRaw, \* PICO2W_LIGHT_WEAK_RAW, PICO2W_LIGHT_STRONG_RAW
    StaleAfter,         \* ticks after which the last sample is stale
    OrdinalModulus      \* the numbers of the frames are words that wrap here

\* The faces that the guest knows (the frames of a speaking mouth are more of
\* the same); the model's side also takes "v" for one.
GuestFaces == {"h", "a", "s", "u"}
LocalFaces == GuestFaces \cup {"v"}

\* What a line starts with, and the face that an echo names.
Lines == [verb : {"none", "ls", "echo", "long", "other"}, face : LocalFaces \cup {"none"}]

\* LocalLlmCommandSource: chosen once, from the environment.
LocalLlmCommandSource == {"scripted", "server", "external", "missing"}

ASSUME ShellAssumption ==
    /\ Sources \subseteq LocalLlmCommandSource
    /\ ModelLines \subseteq Lines
    /\ LightRaw \in [Seqs -> Nat]
    /\ StaleAfter \in Nat \ {0} /\ OrdinalModulus \in Nat \ {0}

VARIABLES source, cell, io, llm, human, hmsg, typed, sensor, smsg,
          upc, held, inbox, m33, matrix, masked, lit, queued, sfault

udpVars   == <<upc, held, inbox, queued>>
m33Vars   == <<m33, matrix, masked, lit>>
restVars  == <<source, cell, io, llm, human, hmsg, typed, sensor, smsg, m33Vars, sfault>>
shellVars == <<source, cell, io, llm, human, hmsg, typed, sensor, smsg,
               udpVars, m33Vars, sfault>>

NoSample == -1
Attempts == 3           \* of the server at one line

\* A line: what it starts with, the face that an echo names.  A long line
\* does not fit the buffer of the guest, an empty one is no line at all.
Line(verb, face) == [verb |-> verb, face |-> face]
NoLine == Line("none", "none")
LineOf(face) == Line("echo", face)

\* The faces that the script shows in turn when nothing else is asked for.
FaceCycle == <<"h", "a", "s", "u">>

-----------------------------------------------------------------------------
(* The choreography of the cell: three opens and the prompt, then rolled    *)
(* cycles of read, write, read, face, write.                                *)

Choreo == <<"open", "open", "open_face", "stdout",
            "read", "stdout", "read", "face", "stdout">>
RollStart == 5

NextOf(place) == IF place = Len(Choreo) THEN RollStart ELSE place + 1

\* The role that has the other end of a place of the choreography.
PeerOf(place) == IF Choreo[place] \in {"open_face", "face"} THEN "m33" ELSE "llm"
OpOf(place) ==
    CASE Choreo[place] \in {"open", "open_face"} -> "path_open"
      [] Choreo[place] = "read" -> "fd_read"
      [] OTHER -> "fd_write"

NoIo == [to |-> "none", op |-> "none", fd |-> "none", line |-> NoLine, ord |-> 0]
Io(to, op, fd, line, ord) == [to |-> to, op |-> op, fd |-> fd, line |-> line, ord |-> ord]
NoTurn == [way |-> "none", val |-> "none"]

\* A text that asks for a face in the words of the shell, any other text, or
\* the empty one, which asks for nothing.
HumanTexts == {"empty", "echo_a", "chat"}

Pending == [status |-> "pending", seq |-> NoSample]

-----------------------------------------------------------------------------
ShellInit ==
    /\ source \in Sources
    /\ cell = [at |-> "open", waits |-> FALSE, place |-> 1, ord |-> 0, line |-> NoLine]
    /\ io = NoIo
    /\ llm = [pc |-> "open", phase |-> 0, ord |-> 0, human |-> "empty",
              given |-> Pending, tries |-> 0]
    /\ human = [pc |-> "idle", latest |-> "empty"]
    /\ hmsg = NoTurn
    /\ typed = "none"
    /\ sensor = [pc |-> "idle", latest |-> NoSample, age |-> 0, given |-> Pending]
    /\ smsg = "none"
    /\ upc \in {"recv", "ended"}
    /\ held = NoSample
    /\ inbox = NoSample
    /\ m33 = [pc |-> "open", ord |-> 0, face |-> "none"]
    /\ matrix = "neutral"
    /\ masked = FALSE
    /\ lit = "neutral"
    /\ queued = {}
    /\ sfault = "none"

\* A role ends with an error and takes the session with it.
ShellFail(cause) ==
    /\ sfault' = cause
    /\ UNCHANGED <<source, cell, io, llm, human, hmsg, typed, sensor, smsg, udpVars, m33Vars>>

-----------------------------------------------------------------------------
(* The UDP thread of the Uno Q. *)

\* parse_pico2w_sensor_udp_frame: a datagram for this port that decodes as a
\* sample; any other frame is passed over.
SampleFrame(n) == Arrives(Sample(n))

\* build_pico2w_sensor_udp_ack_frame: back to the sender.
AckFrame(n) == air' = air \cup {Ack(n)}

UdpRecv ==
    \E n \in Seqs :
        /\ upc = "recv"
        /\ SampleFrame(n)
        /\ held' = n
        /\ upc' = "ack"
        /\ UNCHANGED <<inbox, queued, restVars>>

\* The acknowledgement goes out first; a socket that refuses it leaves the
\* sample unused.
UdpAck ==
    /\ upc = "ack"
    /\ \/ AckFrame(held) /\ upc' = "queue" /\ UNCHANGED held
       \/ upc' = "recv" /\ held' = NoSample /\ UNCHANGED air
    /\ UNCHANGED <<inbox, queued, restVars>>

\* The channel is unbounded and the sensor role empties it for its last
\* sample: only that one is kept.
UdpQueue ==
    /\ upc = "queue"
    /\ inbox' = held
    /\ queued' = queued \cup {held}
    /\ upc' = "recv"
    /\ held' = NoSample
    /\ UNCHANGED <<air, restVars>>

\* An error of the socket ends the thread; nobody starts it again.
UdpEnd ==
    /\ upc = "recv"
    /\ upc' = "ended"
    /\ UNCHANGED <<air, held, inbox, queued, restVars>>

\* A whole round of the thread, for a sample that the network delivers.
SampleQueued ==
    \E n \in Seqs :
        /\ upc = "recv"
        /\ inbox' = n
        /\ UNCHANGED <<air, upc, held, queued, restVars>>

UdpThread == UdpRecv \/ UdpAck \/ UdpQueue

-----------------------------------------------------------------------------
(* The cell: the guest and the WASI engine under it. *)

CellImport ==
    CASE cell.at = "open"   -> [op |-> "path_open", fd |-> "none"]
      [] cell.at = "read"   -> [op |-> "fd_read", fd |-> "stdin"]
      [] cell.at = "face"   -> [op |-> "fd_write", fd |-> "face"]
      [] cell.at = "prompt" -> [op |-> "fd_write", fd |-> "stdout"]

\* The message goes to the role that the choreography has at this place,
\* whatever file the guest writes to.
CellCall ==
    /\ sfault = "none"
    /\ ~cell.waits
    /\ io = NoIo
    /\ IF OpOf(cell.place) # CellImport.op
       THEN ShellFail("endpoint")
       ELSE /\ io' = Io(PeerOf(cell.place), CellImport.op, CellImport.fd, cell.line, cell.ord)
            /\ cell' = [cell EXCEPT !.waits = TRUE]
            /\ UNCHANGED <<source, llm, human, hmsg, typed, sensor, smsg, udpVars, m33Vars, sfault>>

\* What the guest does with the line it read.
GuestRuns(line) ==
    IF line.verb = "echo" /\ line.face \in GuestFaces THEN "face" ELSE "prompt"

CellReturn ==
    /\ sfault = "none"
    /\ cell.waits
    /\ io.to = "cell"
    /\ io' = NoIo
    /\ cell' = [cell EXCEPT
         !.waits = FALSE,
         !.place = NextOf(@),
         !.line  = CASE cell.at = "read" -> io.line [] cell.at = "prompt" -> NoLine [] OTHER -> @,
         !.ord   = IF cell.at = "face" THEN (@ + 1) % OrdinalModulus ELSE @,
         !.at    = CASE cell.at = "open" -> IF cell.place < 3 THEN "open" ELSE "prompt"
                     [] cell.at = "read" -> GuestRuns(io.line)
                     [] cell.at = "face" -> "prompt"
                     [] cell.at = "prompt" -> "read"]
    /\ UNCHANGED <<source, llm, human, hmsg, typed, sensor, smsg, udpVars, m33Vars, sfault>>

-----------------------------------------------------------------------------
(* The human role: the reader thread and the turn. *)

\* Lines wait in a channel that the turn empties: the last one counts, and a
\* line that is no text counts wherever it stands.
HumanTypes ==
    \E line \in HumanTexts \cup {"not_utf8"} :
        /\ typed # "not_utf8"
        /\ typed' = line
        /\ UNCHANGED <<source, cell, io, llm, human, hmsg, sensor, smsg, udpVars, m33Vars, sfault>>

\* next_input keeps the last line; bytes that are not UTF-8 end the role.
HumanTurn ==
    LET latest == IF typed = "none" THEN human.latest ELSE typed IN
    /\ sfault = "none"
    /\ human.pc = "idle"
    /\ hmsg.way = "req"
    /\ IF latest = "not_utf8"
       THEN ShellFail("human")
       ELSE /\ human' = [pc |-> "sent", latest |-> latest]
            /\ typed' = "none"
            /\ hmsg' = [way |-> "text", val |-> latest]
            /\ UNCHANGED <<source, cell, io, llm, sensor, smsg, udpVars, m33Vars, sfault>>

HumanAcked ==
    /\ sfault = "none"
    /\ human.pc = "sent"
    /\ hmsg.way = "ack"
    /\ human' = [human EXCEPT !.pc = "idle"]
    /\ hmsg' = NoTurn
    /\ UNCHANGED <<source, cell, io, llm, typed, sensor, smsg, udpVars, m33Vars, sfault>>

-----------------------------------------------------------------------------
(* The sensor role: a sample counts as new from the turn that takes it. *)

NextSample(latest, age) ==
    IF latest = NoSample THEN Pending
    ELSE [status |-> IF age > StaleAfter THEN "stale" ELSE "fresh", seq |-> latest]

\* The bug of setting latest_at at every turn.
MutSampleAge == 0

SampleAge == IF inbox = NoSample THEN sensor.age ELSE 0

SensorTurn ==
    LET latest == IF inbox = NoSample THEN sensor.latest ELSE inbox IN
    /\ sfault = "none"
    /\ sensor.pc = "idle"
    /\ smsg = "req"
    /\ sensor' = [pc |-> "sent", latest |-> latest, age |-> SampleAge,
                   given |-> NextSample(latest, SampleAge)]
    /\ inbox' = NoSample
    /\ smsg' = "sample"
    /\ UNCHANGED <<source, cell, io, llm, human, hmsg, typed, upc, held, queued, m33Vars, sfault>>

SensorAcked ==
    /\ sfault = "none"
    /\ sensor.pc = "sent"
    /\ smsg = "ack"
    /\ sensor' = [sensor EXCEPT !.pc = "idle"]
    /\ smsg' = "none"
    /\ UNCHANGED <<source, cell, io, llm, human, hmsg, typed, udpVars, m33Vars, sfault>>

\* Time passes for the last sample.
Tick ==
    /\ sensor.latest # NoSample
    /\ sensor.age <= StaleAfter
    /\ sensor' = [sensor EXCEPT !.age = @ + 1]
    /\ UNCHANGED <<source, cell, io, llm, human, hmsg, typed, smsg, udpVars, m33Vars, sfault>>

-----------------------------------------------------------------------------
(* The role of the language model. *)

\* The role takes the cell's message ...
LlmTakes(op) ==
    /\ sfault = "none"
    /\ io.to = "llm"
    /\ io.op = op

\* ... and answers it.
Answer(line) == io' = [io EXCEPT !.to = "cell", !.line = line]

\* complete_boundary_path_open: standard input, then standard output.
LlmPathOpen ==
    /\ LlmTakes("path_open")
    /\ llm.pc \in {"open", "open_stdout"}
    /\ Answer(NoLine)
    /\ llm' = [llm EXCEPT !.pc = IF @ = "open" THEN "open_stdout" ELSE "write"]
    /\ UNCHANGED <<source, cell, human, hmsg, typed, sensor, smsg, udpVars, m33Vars, sfault>>

\* complete_local_llm_stdout_write.
LlmStdoutWrite ==
    /\ LlmTakes("fd_write")
    /\ llm.pc = "write"
    /\ IF io.fd # "stdout"
       THEN ShellFail("fd")
       ELSE /\ Answer(NoLine)
            /\ llm' = [llm EXCEPT !.pc = "read"]
            /\ UNCHANGED <<source, cell, human, hmsg, typed, sensor, smsg, udpVars,
                           m33Vars, sfault>>

\* complete_local_llm_stdin_read_with_input_context_read: both roles are
\* asked, in parallel ...
LlmStdinRead ==
    /\ LlmTakes("fd_read")
    /\ llm.pc = "read"
    /\ hmsg = NoTurn /\ smsg = "none"
    /\ hmsg' = [way |-> "req", val |-> "none"]
    /\ smsg' = "req"
    /\ llm' = [llm EXCEPT !.pc = "hear"]
    /\ UNCHANGED <<source, cell, io, human, typed, sensor, udpVars, m33Vars, sfault>>

\* The bug of not taking over the sample.
MutLlmObserve ==
    /\ sfault = "none"
    /\ llm.pc = "hear"
    /\ hmsg.way = "text"
    /\ smsg = "sample"
    /\ llm' = [llm EXCEPT !.pc = "think", !.tries = 0, !.human = hmsg.val]
    /\ hmsg' = [way |-> "ack", val |-> "none"]
    /\ smsg' = "ack"
    /\ UNCHANGED <<source, cell, io, human, typed, sensor, udpVars, m33Vars, sfault>>

\* The bug of not acknowledging it.
MutLlmObserveNoAck ==
    /\ sfault = "none"
    /\ llm.pc = "hear"
    /\ hmsg.way = "text"
    /\ smsg = "sample"
    /\ llm' = [llm EXCEPT !.pc = "think", !.tries = 0, !.human = hmsg.val, !.given = sensor.given]
    /\ hmsg' = [way |-> "ack", val |-> "none"]
    /\ UNCHANGED <<source, cell, io, human, typed, sensor, smsg, udpVars, m33Vars, sfault>>

\* ... and when both have answered what they said is kept.
LlmObserve ==
    /\ sfault = "none"
    /\ llm.pc = "hear"
    /\ hmsg.way = "text"
    /\ smsg = "sample"
    /\ llm' = [llm EXCEPT !.pc = "think", !.tries = 0, !.human = hmsg.val, !.given = sensor.given]
    /\ hmsg' = [way |-> "ack", val |-> "none"]
    /\ smsg' = "ack"
    /\ UNCHANGED <<source, cell, io, human, typed, sensor, udpVars, m33Vars, sfault>>

\* pico2w_light_face_label.
LightFace(light) ==
    IF light <= WeakRaw THEN "s" ELSE IF light >= StrongRaw THEN "u" ELSE "h"

\* The face that the script shows for a human text, a sample and the number
\* of the face: scripted_human_request_shell_command, then
\* scripted_pico2w_sensor_shell_command, then the turn of the cycle.
ScriptedFace(text, given, ord) ==
    CASE text = "echo_a" -> "a"
      [] text # "echo_a" /\ given.status = "fresh" -> LightFace(LightRaw[given.seq])
      [] text = "empty" /\ given.status = "stale" -> "s"
      [] OTHER -> FaceCycle[(ord % Len(FaceCycle)) + 1]

\* The bug of taking any line in any phase.
MutAdmittedForPhase(line, phase) == TRUE

\* local_llm_terminal_command_admitted_for_phase.
AdmittedForPhase(line, phase) ==
    IF line.verb = "echo" /\ line.face \in LocalFaces THEN phase = 1 ELSE phase = 0

\* LocalLlmShellSource::next_command has a line: it goes to the cell if it
\* fits, and the phase of the cycle turns.
LineTaken(line) ==
    IF line.verb = "long"
    THEN ShellFail("line")
    ELSE /\ Answer(line)
         /\ llm' = [llm EXCEPT !.pc = "write",
                               !.phase = 1 - @,
                               !.ord = IF llm.phase = 1 THEN (@ + 1) % OrdinalModulus ELSE @]
         /\ UNCHANGED <<source, cell, human, hmsg, typed, sensor, smsg, udpVars,
                        m33Vars, sfault>>

LlmThinks == sfault = "none" /\ llm.pc = "think"

\* The built-in script lists the objects and then names a face.
LlmScripted ==
    /\ LlmThinks
    /\ source = "scripted"
    /\ LineTaken(IF llm.phase = 0
                 THEN Line("ls", "none")
                 ELSE LineOf(ScriptedFace(llm.human, llm.given, llm.ord)))

\* LocalLlmServer::next_command: a line that the phase does not admit is shown
\* to the model as an error, twice at most.  A model that says nothing, or a
\* server that does not answer, ends the role.
LlmServer ==
    /\ LlmThinks
    /\ source = "server"
    /\ \/ \E line \in ModelLines :
            \/ AdmittedForPhase(line, llm.phase) /\ LineTaken(line)
            \/ /\ ~AdmittedForPhase(line, llm.phase)
               /\ llm.tries + 1 < Attempts
               /\ llm' = [llm EXCEPT !.tries = @ + 1]
               /\ UNCHANGED <<source, cell, io, human, hmsg, typed, sensor, smsg,
                              udpVars, m33Vars, sfault>>
            \/ /\ ~AdmittedForPhase(line, llm.phase)
               /\ llm.tries + 1 = Attempts
               /\ ShellFail("llm")
       \/ ShellFail("llm")

\* LocalLlmExternalCommand::next_command: whatever line the command prints.
LlmExternal ==
    /\ LlmThinks
    /\ source = "external"
    /\ (\E line \in ModelLines : LineTaken(line)) \/ ShellFail("llm")

\* There is neither a server nor a command nor leave to use the script.
LlmMissing ==
    /\ LlmThinks
    /\ source = "missing"
    /\ ShellFail("llm")

LlmRole ==
    \/ LlmPathOpen \/ LlmStdoutWrite \/ LlmStdinRead \/ LlmObserve
    \/ LlmScripted \/ LlmServer \/ LlmExternal \/ LlmMissing

-----------------------------------------------------------------------------
(* The role of the M33 and its scan interrupt. *)

M33Takes(op) ==
    /\ sfault = "none"
    /\ io.to = "m33"
    /\ io.op = op

M33PathOpen ==
    /\ M33Takes("path_open")
    /\ m33.pc = "open"
    /\ Answer(NoLine)
    /\ m33' = [m33 EXCEPT !.pc = "offer"]
    /\ UNCHANGED <<source, cell, llm, human, hmsg, typed, sensor, smsg, udpVars,
                   matrix, masked, lit, sfault>>

\* drive_face_frame_loop: the frame must be for the face object and carry the
\* number that the role counts.
M33Frame ==
    /\ M33Takes("fd_write")
    /\ m33.pc = "offer"
    /\ IF io.fd # "face" THEN ShellFail("fd")
       ELSE IF io.ord # m33.ord THEN ShellFail("ordinal")
       ELSE /\ m33' = [m33 EXCEPT !.pc = "mask", !.face = io.line.face]
            /\ UNCHANGED <<source, cell, io, llm, human, hmsg, typed, sensor, smsg,
                           udpVars, matrix, masked, lit, sfault>>

\* with_renderer: interrupts off, the matrix cleared and drawn, interrupts on.
M33Mask ==
    /\ m33.pc = "mask"
    /\ masked' = TRUE
    /\ m33' = [m33 EXCEPT !.pc = "clear"]
    /\ UNCHANGED <<source, cell, io, llm, human, hmsg, typed, sensor, smsg, udpVars,
                   matrix, lit, sfault>>

M33Clear ==
    /\ m33.pc = "clear"
    /\ matrix' = "partial"
    /\ m33' = [m33 EXCEPT !.pc = "draw"]
    /\ UNCHANGED <<source, cell, io, llm, human, hmsg, typed, sensor, smsg, udpVars,
                   masked, lit, sfault>>

M33Draw ==
    /\ m33.pc = "draw"
    /\ matrix' = m33.face
    /\ masked' = FALSE
    /\ m33' = [m33 EXCEPT !.pc = "shown"]
    /\ UNCHANGED <<source, cell, io, llm, human, hmsg, typed, sensor, smsg, udpVars,
                   lit, sfault>>

\* send_fd_write_done.
M33Done ==
    /\ sfault = "none"
    /\ m33.pc = "shown"
    /\ Answer(NoLine)
    /\ m33' = [pc |-> "offer", ord |-> (m33.ord + 1) % OrdinalModulus, face |-> "none"]
    /\ UNCHANGED <<source, cell, llm, human, hmsg, typed, sensor, smsg, udpVars,
                   matrix, masked, lit, sfault>>

\* systick_handler: the scan reads the matrix.
Systick ==
    /\ ~masked
    /\ lit # matrix
    /\ lit' = matrix
    /\ UNCHANGED <<source, cell, io, llm, human, hmsg, typed, sensor, smsg, udpVars,
                   m33, matrix, masked, sfault>>

M33Role == M33PathOpen \/ M33Frame \/ M33Mask \/ M33Clear \/ M33Draw \/ M33Done

CellRole   == CellCall \/ CellReturn
HumanRole  == HumanTurn \/ HumanAcked
SensorRole == SensorTurn \/ SensorAcked

-----------------------------------------------------------------------------
(* What holds of the shell at all times. *)

Ordinals == 0..(OrdinalModulus - 1)
Givens == [status : {"pending", "fresh", "stale"}, seq : Seqs \cup {NoSample}]

Cells == [at : {"open", "read", "face", "prompt"}, waits : BOOLEAN,
          place : 1..Len(Choreo), ord : Ordinals, line : Lines]
Ios == [to : {"none", "cell", "llm", "m33"}, op : {"none", "path_open", "fd_read", "fd_write"},
        fd : {"none", "stdin", "stdout", "face"}, line : Lines, ord : Ordinals]
Llms == [pc : {"open", "open_stdout", "write", "read", "hear", "think"}, phase : {0, 1},
         ord : Ordinals, human : HumanTexts, given : Givens, tries : 0..(Attempts - 1)]
Sensors == [pc : {"idle", "sent"}, latest : Seqs \cup {NoSample},
            age : 0..(StaleAfter + 1), given : Givens]
M33s == [pc : {"open", "offer", "mask", "clear", "draw", "shown"}, ord : Ordinals,
         face : GuestFaces \cup {"none"}]
Matrices == GuestFaces \cup {"neutral", "partial"}

ShellTypeOK ==
    /\ source \in Sources
    /\ cell \in Cells /\ io \in Ios /\ llm \in Llms
    /\ human \in [pc : {"idle", "sent"}, latest : HumanTexts]
    /\ hmsg \in [way : {"none", "req", "text", "ack"}, val : HumanTexts \cup {"none"}]
    /\ typed \in HumanTexts \cup {"none", "not_utf8"}
    /\ sensor \in Sensors
    /\ smsg \in {"none", "req", "sample", "ack"}
    /\ m33 \in M33s /\ matrix \in Matrices /\ lit \in Matrices
    /\ masked \in BOOLEAN
    /\ sfault \in {"none", "endpoint", "human", "fd", "line", "llm", "ordinal"}

\* The UDP thread holds a sample from its arrival until it is in the channel.
UdpTypeOK ==
    /\ upc \in {"recv", "ack", "queue", "ended"}
    /\ held \in Seqs \cup {NoSample} /\ (upc \in {"ack", "queue"} => held \in Seqs)
    /\ inbox \in Seqs \cup {NoSample}
    /\ queued \subseteq Seqs

\* The M33 draws a frame.
Drawing == m33.pc \in {"mask", "clear", "draw", "shown"}

\* The cell's message is the import it waits for, or the answer; a role that
\* works on the answer has the message.
CallInv ==
    /\ ~cell.waits => io = NoIo
    /\ cell.waits => io.to \in {PeerOf(cell.place), "cell"}
    /\ io.to \in {"llm", "m33"} =>
          /\ io.op = OpOf(cell.place) /\ io.op = CellImport.op /\ io.fd = CellImport.fd
          /\ io.line = cell.line /\ io.ord = cell.ord
    /\ cell.at = "face" => cell.line.face \in GuestFaces
    /\ llm.pc \in {"hear", "think"} => io.to = "llm" /\ io.op = "fd_read"
    /\ Drawing => io.to = "m33" /\ cell.place = 8 /\ cell.at = "face" /\ m33.face = cell.line.face

\* The model's role has answered the cell at its place, the M33 has.
LlmAhead == io.to = "cell" /\ PeerOf(cell.place) = "llm"
M33Ahead == io.to = "cell" /\ PeerOf(cell.place) = "m33"

\* The place of the choreography that a role stands at.
LlmPlace == IF LlmAhead THEN NextOf(cell.place) ELSE cell.place
M33Place == IF M33Ahead THEN NextOf(cell.place) ELSE cell.place

\* What the guest does at a place, after the face "v" excepted.
CellStep ==
    /\ cell.place <= 3 => cell.at = "open"
    /\ cell.place \in {4, 6, 9} => cell.at = "prompt"
    /\ cell.place \in {5, 7} => cell.at = "read"
    /\ cell.place = 8 => \/ cell.at = "face"
                         \/ /\ cell.at = "prompt" /\ io.to # "cell"
                            /\ cell.line = LineOf("v") /\ source = "server"

LlmStep ==
    /\ LlmPlace = 1 => llm.pc = "open" /\ llm.phase = 0
    /\ LlmPlace = 2 => llm.pc = "open_stdout" /\ llm.phase = 0
    /\ LlmPlace \in {5, 7} => /\ llm.pc \in {"read", "hear", "think"}
                              /\ llm.phase = IF LlmPlace = 5 THEN 0 ELSE 1
    /\ LlmPlace \in {3, 4, 6, 8, 9} => /\ llm.pc = "write"
                                      /\ llm.phase = IF LlmPlace = 6 THEN 1 ELSE 0

M33Step == m33.pc = "open" <=> M33Place <= 3

\* The three count the same faces.
OrdinalStep ==
    LET next == (cell.ord + 1) % OrdinalModulus
    IN  /\ m33.ord = IF cell.place = 8 /\ M33Ahead THEN next ELSE cell.ord
        /\ llm.ord = IF cell.place = 8 \/ (cell.place = 7 /\ LlmAhead) THEN next ELSE cell.ord

\* A line goes to the cell in the phase that it belongs to.
LineStep ==
    LlmAhead =>
        /\ cell.place = 5 => GuestRuns(io.line) = "prompt"
        /\ cell.place = 7 => GuestRuns(io.line) = "face" \/ (source = "server" /\ io.line = LineOf("v"))

\* Cell, model and M33 stand at one place of the choreography.
SyncInv ==
    source # "external" => CellStep /\ LlmStep /\ M33Step /\ OrdinalStep /\ LineStep

\* Human and sensor role answer once for each time they are asked, and what
\* the model's role heard last is what they said last.
TurnInv ==
    IF llm.pc = "hear"
    THEN /\ hmsg.way \in {"req", "text"} /\ smsg \in {"req", "sample"}
         /\ hmsg.way = "text" => hmsg.val = human.latest
    ELSE /\ hmsg.way \in {"none", "ack"} /\ smsg \in {"none", "ack"}
         /\ llm.human = human.latest /\ llm.given = sensor.given

\* The line of a scripted turn, from the model's role to the matrix.
TurnLine == LineOf(ScriptedFace(human.latest, sensor.given, cell.ord))
FaceInv ==
    source = "scripted" =>
        /\ cell.place = 7 /\ LlmAhead => io.line = TurnLine
        /\ cell.place = 8 => cell.line = TurnLine

\* The matrix is half drawn only while the interrupts are off.
MatrixInv ==
    /\ masked <=> m33.pc \in {"clear", "draw"}
    /\ matrix = "partial" => m33.pc = "draw"
=============================================================================
