---------------------------- MODULE BakerSession ----------------------------
(***************************************************************************)
(* A session of the Baker firmware: each core runs one role task under     *)
(* EmbeddedScheduledTasks::poll_forever, over the SIO carrier.  The module *)
(* is about waiting: a core with nothing to do sleeps in WFE, and only the *)
(* SEV of signal_peer wakes it.                                            *)
(*                                                                         *)
(* The choreography is a sequence of messages between role 0 (core 0) and  *)
(* role 1 (core 1); Hibana projects it to a send or a receive of each core *)
(* for each message.                                                       *)
(*                                                                         *)
(* sender[i]    the role that sends message i                              *)
(* pos[c]       the message core c is at; N + 1 when its part is over      *)
(* pc[c]        "poll": inside the role task; "busy", "published" and      *)
(*              "taken": before a signal_peer of the carrier; "pending":   *)
(*              the poll returned Pending; "wfe": executing WFE            *)
(* slot[c]      the message in the mailbox that core c publishes, or 0     *)
(* got[c]       the message core c has just taken                          *)
(* event[c]     the event register of core c                               *)
(***************************************************************************)
EXTENDS Naturals

CONSTANT N        \* number of messages in the choreography

ASSUME SessionAssumption == N \in Nat

Core == {0, 1}
Peer(c) == 1 - c

VARIABLES sender, pos, pc, slot, got, event
vars == <<sender, pos, pc, slot, got, event>>

Init ==
  /\ sender \in [1..N -> Core]
  /\ pos = [c \in Core |-> 1]
  /\ pc = [c \in Core |-> "poll"]
  /\ slot = [c \in Core |-> 0]
  /\ got = [c \in Core |-> 0]
  /\ event = [c \in Core |-> FALSE]

-----------------------------------------------------------------------------
\* signal_peer: SEV sets the event register of both cores.
Sev == event' = [c \in Core |-> TRUE]

Sending(c) == pos[c] <= N /\ sender[pos[c]] = c
Receiving(c) == pos[c] <= N /\ sender[pos[c]] # c

\* The localside is through: its future stays pending.
PollDone(c) ==
  /\ pc[c] = "poll" /\ pos[c] > N
  /\ pc' = [pc EXCEPT ![c] = "pending"]
  /\ UNCHANGED <<sender, pos, slot, got, event>>

\* poll_send finds the mailbox occupied: Pending, after a signal_peer.
SendBusy(c) ==
  /\ pc[c] = "poll" /\ Sending(c)
  /\ slot[c] # 0
  /\ pc' = [pc EXCEPT ![c] = "busy"]
  /\ UNCHANGED <<sender, pos, slot, got, event>>

SignalBusy(c) ==
  /\ pc[c] = "busy"
  /\ Sev
  /\ pc' = [pc EXCEPT ![c] = "pending"]
  /\ UNCHANGED <<sender, pos, slot, got>>

MutPublish(c) ==
  /\ pc[c] = "poll" /\ Sending(c)
  /\ slot' = [slot EXCEPT ![c] = pos[c]]
  /\ pc' = [pc EXCEPT ![c] = "published"]
  /\ UNCHANGED <<sender, pos, got, event>>

\* poll_send publishes the message ...
Publish(c) ==
  /\ pc[c] = "poll" /\ Sending(c)
  /\ slot[c] = 0
  /\ slot' = [slot EXCEPT ![c] = pos[c]]
  /\ pc' = [pc EXCEPT ![c] = "published"]
  /\ UNCHANGED <<sender, pos, got, event>>

MutSignalPublished(c) ==
  /\ pc[c] = "published"
  /\ pos' = [pos EXCEPT ![c] = @ + 1]
  /\ pc' = [pc EXCEPT ![c] = "poll"]
  /\ UNCHANGED <<sender, slot, got, event>>

\* ... signals the peer and returns Ready: the role task goes on.
SignalPublished(c) ==
  /\ pc[c] = "published"
  /\ Sev
  /\ pos' = [pos EXCEPT ![c] = @ + 1]
  /\ pc' = [pc EXCEPT ![c] = "poll"]
  /\ UNCHANGED <<sender, slot, got>>

\* poll_recv finds the mailbox empty: Pending.
RecvEmpty(c) ==
  /\ pc[c] = "poll" /\ Receiving(c)
  /\ slot[Peer(c)] = 0
  /\ pc' = [pc EXCEPT ![c] = "pending"]
  /\ UNCHANGED <<sender, pos, slot, got, event>>

\* poll_recv takes the message and frees the mailbox ...
Take(c) ==
  /\ pc[c] = "poll" /\ Receiving(c)
  /\ slot[Peer(c)] # 0
  /\ got' = [got EXCEPT ![c] = slot[Peer(c)]]
  /\ slot' = [slot EXCEPT ![Peer(c)] = 0]
  /\ pc' = [pc EXCEPT ![c] = "taken"]
  /\ UNCHANGED <<sender, pos, event>>

\* ... signals the peer, which may wait for the mailbox, and returns Ready.
SignalTaken(c) ==
  /\ pc[c] = "taken"
  /\ Sev
  /\ pos' = [pos EXCEPT ![c] = @ + 1]
  /\ pc' = [pc EXCEPT ![c] = "poll"]
  /\ UNCHANGED <<sender, slot, got>>

\* poll_forever: the wake flag is down (no wake_by_ref on this path), so the
\* core goes to WFE.
EnterWfe(c) ==
  /\ pc[c] = "pending"
  /\ pc' = [pc EXCEPT ![c] = "wfe"]
  /\ UNCHANGED <<sender, pos, slot, got, event>>

\* WFE returns when the event register is set and clears it.
WfeReturns(c) ==
  /\ pc[c] = "wfe" /\ event[c]
  /\ event' = [event EXCEPT ![c] = FALSE]
  /\ pc' = [pc EXCEPT ![c] = "poll"]
  /\ UNCHANGED <<sender, pos, slot, got>>

-----------------------------------------------------------------------------
Step(c) ==
  \/ PollDone(c)
  \/ SendBusy(c) \/ SignalBusy(c)
  \/ Publish(c) \/ SignalPublished(c)
  \/ RecvEmpty(c)
  \/ Take(c) \/ SignalTaken(c)
  \/ EnterWfe(c) \/ WfeReturns(c)

Next == \E c \in Core : Step(c)

\* Both processors keep executing.
Spec == Init /\ [][Next]_vars /\ \A c \in Core : WF_vars(Step(c))

-----------------------------------------------------------------------------
PC == {"poll", "busy", "published", "taken", "pending", "wfe"}

TypeOK ==
  /\ sender \in [1..N -> Core]
  /\ pos \in [Core -> 1..(N + 1)]
  /\ pc \in [Core -> PC]
  /\ slot \in [Core -> 0..N]
  /\ got \in [Core -> 0..N]
  /\ event \in [Core -> BOOLEAN]

-----------------------------------------------------------------------------
(* Why the properties hold: an invariant that no step breaks.              *)

\* The message core c has reached, counting a send or receive that only waits
\* for its signal as done.
Reached(c) == IF pc[c] \in {"published", "taken"} THEN pos[c] + 1 ELSE pos[c]

\* A message in a mailbox was put there by its sender, which is one message
\* ahead of the receiver.
SlotInv ==
  \A c \in Core : slot[c] # 0 => /\ sender[slot[c]] = c
                                /\ Reached(c) = slot[c] + 1
                                /\ Reached(Peer(c)) = slot[c]

\* With both mailboxes empty the cores are at the same message.
EvenInv == slot[0] = 0 /\ slot[1] = 0 => Reached(0) = Reached(1)

\* What a core is doing is what its place in the choreography says.
RoleInv ==
  \A c \in Core : /\ pc[c] \in {"busy", "published"} => Sending(c)
                  /\ pc[c] = "taken" => Receiving(c) /\ got[c] = pos[c]

Waiting(c) == pc[c] \in {"pending", "wfe"}

\* The two sleepers' invariants hold already before the core executes WFE.
WakeInv ==
  \A c \in Core :
    /\ Waiting(c) /\ ~event[c] /\ Receiving(c) /\ slot[Peer(c)] # 0
         => pc[Peer(c)] = "published"
    /\ Waiting(c) /\ Sending(c) => event[c]

\* All of it together: the cores are never more than one message apart, a
\* mailbox holds the message the other core is at, and whoever waits is owed a
\* signal or has one.
SessionInv == TypeOK /\ SlotInv /\ EvenInv /\ RoleInv /\ WakeInv

-----------------------------------------------------------------------------
\* No wakeup is lost: a core asleep in WFE has no message waiting for it,
\* unless its publisher is just about to signal.
NoLostWakeup ==
  \A c \in Core :
    pc[c] = "wfe" /\ ~event[c] /\ Receiving(c) /\ slot[Peer(c)] # 0
      => pc[Peer(c)] = "published"

\* A core that waits for its mailbox to be freed does not sleep at all: its own
\* signal_peer keeps its event register set.
SenderNeverSleeps ==
  \A c \in Core : pc[c] = "wfe" /\ Sending(c) => event[c]

\* Each receive yields the message of its place in the choreography.
InStep == \A c \in Core : pc[c] = "taken" => got[c] = pos[c]

\* The choreography comes to its end on both cores, whatever its shape.
SessionCompletes == <>[](\A c \in Core : pos[c] = N + 1)
=============================================================================
