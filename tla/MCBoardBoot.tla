---------------------------- MODULE MCBoardBoot ----------------------------
(* Launch and EPF loading, for a good and a bad commit by a probe with the *)
(* diagnostic and with the policy capsule, and for an upload on UART0.     *)
EXTENDS BoardBoot

Mailbox(capsule, name, fault) ==
  [capsule |-> capsule, uart |-> FALSE, commits |-> <<[image |-> name, fault |-> fault]>>]

MCSite ==
  {Mailbox("diagnostic", "observe", fault) : fault \in {"none", "hash", "len"}}
  \cup {Mailbox("policy", "timer", fault) : fault \in {"none", "hash", "len"}}
  \cup {[capsule |-> "policy", uart |-> TRUE, commits |-> <<>>]}

\* The sessions of this run are ones the theorems of BoardBootProofs are about.
ASSUME OneImageAssumption == OneImage
=============================================================================
