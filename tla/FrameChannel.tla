---------------------------- MODULE FrameChannel ----------------------------
(***************************************************************************)
(* What the core-to-core carrier promises: in each direction a channel     *)
(* with room for one frame.  A frame is handed over whole, once, in the    *)
(* order of the sends, and a sender waits while the previous frame has     *)
(* not been taken.  sent[c] is the history of the frames core c sent,      *)
(* got[c] of the frames core c took.                                       *)
(***************************************************************************)
EXTENDS Naturals, Sequences

CONSTANT Frame

VARIABLES sent, got

chanVars == <<sent, got>>

Core == {0, 1}
Peer(c) == 1 - c

ChanInit ==
  /\ sent = [c \in Core |-> <<>>]
  /\ got = [c \in Core |-> <<>>]

Send(c, f) ==
  /\ Len(sent[c]) = Len(got[Peer(c)])
  /\ sent' = [sent EXCEPT ![c] = Append(@, f)]
  /\ UNCHANGED got

Receive(c) ==
  /\ Len(got[c]) < Len(sent[Peer(c)])
  /\ got' = [got EXCEPT ![c] = Append(@, sent[Peer(c)][Len(@) + 1])]
  /\ UNCHANGED sent

ChanNext == \E c \in Core : Receive(c) \/ \E f \in Frame : Send(c, f)

ChanSpec == ChanInit /\ [][ChanNext]_chanVars
=============================================================================
