----------------------------- MODULE SensorAir -----------------------------
(***************************************************************************)
(* The network between the Pico 2 W sensor panel and the Uno Q: UDP        *)
(* datagrams over Wi-Fi.  A datagram carries a sample towards the Uno Q or *)
(* its acknowledgement back, either known by the sequence number of the    *)
(* sample.                                                                 *)
(*                                                                         *)
(* A datagram in the air may be lost, may arrive any time later, in any    *)
(* order, and more than once.                                              *)
(*                                                                         *)
(*   air    the datagrams in flight                                        *)
(***************************************************************************)
EXTENDS Naturals

CONSTANT
    MaxSamples          \* bound on the samples a panel takes

ASSUME MaxSamplesAssumption == MaxSamples \in Nat \ {0}

VARIABLE air

\* The sequence numbers.  They are u16 words that wrap; a panel that takes a
\* sample a second needs 18 hours for that, so the bound keeps them apart.
Seqs == 0..(MaxSamples - 1)

Sample(n) == [kind |-> "sample", seq |-> n]
Ack(n)    == [kind |-> "ack", seq |-> n]
Datagrams == {Sample(n) : n \in Seqs} \cup {Ack(n) : n \in Seqs}

\* The datagram p reaches its receiver: the network may deliver it again.
Arrives(p) ==
    /\ p \in air
    /\ air' \in {air, air \ {p}}

\* The network loses a datagram.
Lose ==
    \E p \in air : air' = air \ {p}
=============================================================================
