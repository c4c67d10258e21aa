--------------------------- MODULE DeadlineAlarm ----------------------------
(***************************************************************************)
(* The three uses of the alarm of a Baker or Pico 2 W board: the fuse of a *)
(* receive with an operational deadline (take_mailbox_until_deadline), the *)
(* delay of a poll_oneoff (baker_poll_delay) and the timer route resolver. *)
(* There is one timer block for both cores: ALARM0, INTE and INTR are      *)
(* shared registers, BAKER_TIMER_ALARM0_READY and BAKER_TIMER_ROUTE_ARMED  *)
(* shared words, while NVIC and event register belong to each core.  Every *)
(* register access is a step.  Time is abstract: an armed alarm fires      *)
(* sooner or later.                                                        *)
(*                                                                         *)
(* place[c]    the wait of core c: its place in baker_timer_route_arm, in  *)
(*             the loop, or in baker_timer_route_finish                    *)
(* kind[c]     what core c waits for: "fuse", "delay" or "route"           *)
(* armed       BAKER_TIMER_ROUTE_ARMED                                     *)
(* frame[c]    the inbound mailbox of core c is occupied                   *)
(* eventReg[c] the event register;  enabled[c], pend[c]: the NVIC          *)
(* isr[c]      core c is inside timer_alarm0_irq_handler                   *)
(* alarm       the wait whose time ALARM0 holds, or 0 when it is disarmed  *)
(* intr, inte  the alarm's bits in INTR and INTE                           *)
(* ready       BAKER_TIMER_ALARM0_READY                                    *)
(* wait[c]     number of the current wait of core c; waits: all so far     *)
(* fired       the wait whose alarm fired last                             *)
(* outcome[c]  how the last wait of core c ended, and for which alarm      *)
(* cut         the waits that a frame ended                                *)
(***************************************************************************)
EXTENDS Naturals

CONSTANTS
  Users,      \* the cores that use the alarm
  Kinds,      \* what they use it for
  MaxWaits    \* bound: waits in a behaviour

Cores == {0, 1}

ASSUME AlarmAssumption ==
  Users \subseteq Cores /\ Kinds \subseteq {"fuse", "delay", "route"} /\ MaxWaits \in Nat

VARIABLES place, kind, frame, eventReg, enabled, pend, isr, alarm, intr, inte, ready, armed,
          wait, waits, fired, outcome, cut

nvic == <<enabled, pend, isr>>
timer == <<alarm, intr, inte>>
use == <<kind, armed>>
hist == <<wait, waits, fired, outcome, cut>>
alarmVars == <<place, use, frame, eventReg, nvic, timer, ready, hist>>

All(b) == [c \in Cores |-> b]

AlarmInit ==
  /\ place = All("idle") /\ kind = All("fuse") /\ armed = FALSE
  /\ frame = All(FALSE)
  /\ eventReg = All(FALSE)
  /\ enabled = All(FALSE) /\ pend = All(FALSE) /\ isr = All(FALSE)
  /\ alarm = 0 /\ intr = FALSE /\ inte = FALSE
  /\ ready = FALSE
  /\ wait = All(0) /\ waits = 0 /\ fired = 0 /\ cut = {}
  /\ outcome = All([end |-> "none", early |-> FALSE])

-----------------------------------------------------------------------------
(* The timer block and the interrupt.                                      *)

\* The counter reaches ALARM0: the alarm disarms itself and latches INTR; with
\* INTE set the interrupt line of both cores is raised.
AlarmFires ==
  /\ alarm # 0
  /\ alarm' = 0
  /\ intr' = TRUE
  /\ fired' = alarm
  /\ pend' = [c \in Cores |-> pend[c] \/ inte]
  /\ UNCHANGED <<place, use, frame, eventReg, enabled, isr, inte, ready, wait, waits, outcome, cut>>

\* An enabled pending interrupt preempts the core before its next instruction.
Preempted(c) == isr[c] \/ (enabled[c] /\ pend[c])

\* timer_alarm0_irq_handler acknowledges the alarm; a core in WFI goes on after
\* it ...
IsrEnter(c) ==
  /\ ~isr[c] /\ Preempted(c)
  /\ place' = [place EXCEPT ![c] = IF @ = "wfi" THEN "check" ELSE @]
  /\ isr' = [isr EXCEPT ![c] = TRUE]
  /\ pend' = [pend EXCEPT ![c] = FALSE]
  /\ intr' = FALSE
  /\ UNCHANGED <<use, frame, eventReg, enabled, alarm, inte, ready, hist>>

MutIsrReady(c) ==
  /\ isr[c]
  /\ isr' = [isr EXCEPT ![c] = FALSE]
  /\ ready' = TRUE
  /\ UNCHANGED <<place, use, frame, eventReg, enabled, pend, timer, hist>>

\* ... raises the ready word and wakes both cores.
IsrReady(c) ==
  /\ isr[c]
  /\ isr' = [isr EXCEPT ![c] = FALSE]
  /\ ready' = TRUE
  /\ eventReg' = All(TRUE)
  /\ UNCHANGED <<place, use, frame, enabled, pend, timer, hist>>

-----------------------------------------------------------------------------
(* baker_timer_route_arm, called by each of the three.                     *)

At(c, label) == ~Preempted(c) /\ place[c] = label
Goto(c, label) == place' = [place EXCEPT ![c] = label]

\* The core arms and the ready word is lowered.  A fuse is armed by a receive
\* that found the mailbox empty, and one that ended in Deadline was the last of
\* its session; the first call of the route resolver sets ROUTE_ARMED.
ArmReady(c, k) ==
  /\ At(c, "idle")
  /\ c \in Users /\ outcome[c].end # "deadline"
  /\ waits < MaxWaits
  /\ k = "route" => ~armed
  /\ armed' = (armed \/ k = "route")
  /\ kind' = [kind EXCEPT ![c] = k]
  /\ waits' = waits + 1
  /\ wait' = [wait EXCEPT ![c] = waits + 1]
  /\ ready' = FALSE
  /\ Goto(c, "arm_intr")
  /\ UNCHANGED <<frame, eventReg, nvic, timer, fired, outcome, cut>>

ArmIntr(c) ==
  /\ At(c, "arm_intr")
  /\ intr' = FALSE
  /\ Goto(c, "arm_pend")
  /\ UNCHANGED <<use, frame, eventReg, nvic, alarm, inte, ready, hist>>

\* nvic_clear_pending; a line that is still up stays pending.
ArmPend(c) ==
  /\ At(c, "arm_pend")
  /\ pend' = [pend EXCEPT ![c] = intr /\ inte]
  /\ Goto(c, "arm_inte")
  /\ UNCHANGED <<use, frame, eventReg, enabled, isr, timer, ready, hist>>

\* The read and the write of TIMER_INTE are one step: no other bit of the
\* register is ever set, so the value read decides nothing.
ArmInte(c) ==
  /\ At(c, "arm_inte")
  /\ inte' = TRUE
  /\ pend' = [d \in Cores |-> pend[d] \/ intr]
  /\ Goto(c, "arm_nvic")
  /\ UNCHANGED <<use, frame, eventReg, enabled, isr, alarm, intr, ready, hist>>

ArmNvic(c) ==
  /\ At(c, "arm_nvic")
  /\ enabled' = [enabled EXCEPT ![c] = TRUE]
  /\ Goto(c, "arm_alarm")
  /\ UNCHANGED <<use, frame, eventReg, pend, isr, timer, ready, hist>>

ArmAlarm(c) ==
  /\ At(c, "arm_alarm")
  /\ alarm' = wait[c]
  /\ Goto(c, IF kind[c] = "fuse" THEN "look" ELSE "check")
  /\ UNCHANGED <<use, frame, eventReg, nvic, intr, inte, ready, hist>>

-----------------------------------------------------------------------------
(* The loops: a fuse looks for a frame and waits for an event, a delay     *)
(* waits for an interrupt, a route resolver is called again.               *)

\* take_mailbox_frame: a frame ends the wait (and signals the peer) ...
LookFrame(c) ==
  /\ At(c, "look") /\ frame[c]
  /\ frame' = [frame EXCEPT ![c] = FALSE]
  /\ eventReg' = All(TRUE)
  /\ outcome' = [outcome EXCEPT ![c] = [end |-> "frame", early |-> FALSE]]
  /\ cut' = cut \cup {wait[c]}
  /\ Goto(c, "fin_inte")
  /\ UNCHANGED <<use, nvic, timer, ready, wait, waits, fired>>

LookEmpty(c) ==
  /\ At(c, "look") /\ ~frame[c]
  /\ Goto(c, "check")
  /\ UNCHANGED <<use, frame, eventReg, nvic, timer, ready, hist>>

MutCheckReady(c) ==
  /\ At(c, "check")
  /\ outcome' = [outcome EXCEPT ![c] = [end |-> "deadline", early |-> fired # wait[c]]]
  /\ Goto(c, "fin_inte")
  /\ UNCHANGED <<use, frame, eventReg, nvic, timer, ready, wait, waits, fired, cut>>

\* ... and so does the ready word: the receive returns None, a Deadline error,
\* the delay is over, the route is taken and may be armed again.  It is early
\* if the alarm of this wait has not fired.
CheckReady(c) ==
  /\ At(c, "check") /\ ready
  /\ outcome' = [outcome EXCEPT ![c] =
       [end |-> IF kind[c] = "fuse" THEN "deadline" ELSE "time", early |-> fired # wait[c]]]
  /\ Goto(c, "fin_inte")
  /\ UNCHANGED <<use, frame, eventReg, nvic, timer, ready, wait, waits, fired, cut>>

\* WFE returns at once if the event register is set; WFI sleeps unless an
\* interrupt is pending, and one that was served before it does not count.
CheckWait(c) ==
  /\ At(c, "check") /\ ~ready
  /\ Goto(c, CASE kind[c] = "fuse" -> "wfe" [] kind[c] = "delay" -> "sleep" [] OTHER -> "check")
  /\ UNCHANGED <<use, frame, eventReg, nvic, timer, ready, hist>>

Wfi(c) ==
  /\ At(c, "sleep")
  /\ Goto(c, "wfi")
  /\ UNCHANGED <<use, frame, eventReg, nvic, timer, ready, hist>>

WfeWakes(c) ==
  /\ At(c, "wfe") /\ eventReg[c]
  /\ eventReg' = [eventReg EXCEPT ![c] = FALSE]
  /\ Goto(c, "look")
  /\ UNCHANGED <<use, frame, nvic, timer, ready, hist>>

\* baker_timer_route_finish: ALARM0 stays armed.
FinishInte(c) ==
  /\ At(c, "fin_inte")
  /\ inte' = FALSE
  /\ Goto(c, "fin_intr")
  /\ UNCHANGED <<use, frame, eventReg, nvic, alarm, intr, ready, hist>>

FinishIntr(c) ==
  /\ At(c, "fin_intr")
  /\ intr' = FALSE
  /\ Goto(c, "idle")
  /\ armed' = (armed /\ kind[c] # "route")
  /\ UNCHANGED <<kind, frame, eventReg, nvic, alarm, inte, ready, hist>>

-----------------------------------------------------------------------------
\* The peer publishes a frame and signals.
FrameArrives(c) ==
  /\ ~frame[c]
  /\ frame' = [frame EXCEPT ![c] = TRUE]
  /\ eventReg' = All(TRUE)
  /\ UNCHANGED <<place, use, nvic, timer, ready, hist>>

AlarmStep(c) ==
  \/ IsrEnter(c) \/ IsrReady(c)
  \/ ArmIntr(c) \/ ArmPend(c) \/ ArmInte(c) \/ ArmNvic(c) \/ ArmAlarm(c)
  \/ LookFrame(c) \/ LookEmpty(c)
  \/ CheckReady(c) \/ CheckWait(c)
  \/ WfeWakes(c) \/ Wfi(c)
  \/ FinishInte(c) \/ FinishIntr(c)

AlarmNext ==
  \/ AlarmFires
  \/ \E c \in Cores : FrameArrives(c) \/ AlarmStep(c) \/ \E k \in Kinds : ArmReady(c, k)

\* Both cores keep executing and time passes.  Nothing makes a core wait again
\* and nothing makes a frame arrive.
AlarmSpec ==
  /\ AlarmInit /\ [][AlarmNext]_alarmVars
  /\ WF_alarmVars(AlarmFires)
  /\ \A c \in Cores : WF_alarmVars(AlarmStep(c))

-----------------------------------------------------------------------------
AlarmTypeOK ==
  /\ place \in [Cores -> {"idle", "arm_intr", "arm_pend", "arm_inte", "arm_nvic",
                      "arm_alarm", "look", "check", "wfe", "sleep", "wfi", "fin_inte", "fin_intr"}]
  /\ kind \in [Cores -> {"fuse", "delay", "route"}] /\ armed \in BOOLEAN
  /\ frame \in [Cores -> BOOLEAN] /\ eventReg \in [Cores -> BOOLEAN]
  /\ enabled \in [Cores -> BOOLEAN] /\ pend \in [Cores -> BOOLEAN] /\ isr \in [Cores -> BOOLEAN]
  /\ intr \in BOOLEAN /\ inte \in BOOLEAN /\ ready \in BOOLEAN
  /\ waits \in 0..MaxWaits
  /\ alarm \in 0..waits /\ fired \in 0..waits
  /\ wait \in [Cores -> 0..waits] /\ cut \subseteq 1..waits
  /\ outcome \in [Cores -> [end : {"none", "frame", "deadline", "time"}, early : BOOLEAN]]

\* A receive with a deadline comes back, with a frame or, when none arrives, with
\* the Deadline error, and a route resolver comes to its answer.
FuseBlows == \A c \in Cores : place[c] # "idle" /\ kind[c] # "delay" ~> place[c] = "idle"

\* baker_poll_delay, and with it the guest's poll_oneoff, returns.
DelayReturns == \A c \in Cores : place[c] # "idle" /\ kind[c] = "delay" ~> place[c] = "idle"

\* A fuse or a route ends before its own time only if an earlier wait was ended
\* by a frame and left its alarm armed in ALARM0: the first wait, and every wait
\* before the first that a frame ended, is never cut short.
CutShortByLeftover ==
  \A c \in Cores : outcome[c].early => \E n \in cut : n < wait[c]

-----------------------------------------------------------------------------
(* Why: no wait that a frame ended came before the current one, so that    *)
(* the timer and the NVIC hold nothing of an earlier wait.                 *)

NoLeftover(c) == \A n \in cut : ~(n < wait[c])

\* While the core arms, nothing is armed, latched, pending or ready.
ArmsClean(c) ==
  /\ place[c] \in {"arm_intr", "arm_pend", "arm_inte", "arm_nvic", "arm_alarm"} =>
       alarm = 0 /\ ~intr /\ ~pend[c] /\ ~isr[c] /\ ~ready
  /\ place[c] \in {"arm_nvic", "arm_alarm"} => inte
  /\ place[c] = "arm_alarm" => enabled[c]

InWait(c) == place[c] \in {"look", "check", "wfe", "sleep", "wfi"}

\* While it waits, ALARM0 holds its own time or has fired for it, and only then
\* is anything latched, pending, in service or ready.
WaitsForOwn(c) ==
  InWait(c) =>
    /\ inte /\ enabled[c]
    /\ alarm \in {0, wait[c]}
    /\ alarm = 0 => fired = wait[c]
    /\ ready \/ isr[c] \/ pend[c] \/ intr => alarm = 0
    /\ intr => pend[c]

\* A wait that ended by time leaves nothing behind.
EndsClean(c) ==
  place[c] \in {"fin_inte", "fin_intr", "idle"} /\ wait[c] \notin cut =>
    alarm = 0 /\ ~intr /\ ~pend[c] /\ ~isr[c]

\* The core that uses the alarm alone, and the other one, which never does.
AloneInv(u) ==
  /\ NoLeftover(u) => ArmsClean(u) /\ WaitsForOwn(u) /\ EndsClean(u)
  /\ \A c \in Cores \ {u} : place[c] = "idle" /\ ~enabled[c] /\ ~isr[c] /\ ~outcome[c].early

\* Well typed, and a core that waits has a wait.
WaitTypeOK == AlarmTypeOK /\ \A c \in Cores : place[c] # "idle" => wait[c] > 0

\* The alarm as a whole: well typed, and no wait ended by another's alarm except
\* by a leftover one.
AlarmInv ==
  /\ WaitTypeOK
  /\ CutShortByLeftover
  /\ \A u \in Cores : Users = {u} => AloneInv(u)
=============================================================================
