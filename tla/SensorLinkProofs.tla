-------------------------- MODULE SensorLinkProofs --------------------------
(***************************************************************************)
(* What holds of the sensor panel and of the Uno Q for any number of       *)
(* samples, polls, lines and frame numbers, whatever the network loses,    *)
(* delays or repeats and whatever a model answers.  One lemma per action   *)
(* and per part of SensorInv that the action can disturb: first the panel  *)
(* and its choreography, then the acknowledgements on their way to it,     *)
(* then the roles of the shell; the theorems are at the end.               *)
(***************************************************************************)
EXTENDS SensorLink, WellFoundedInduction, TLAPS

\* A set of numbers has a least one.
LEMMA MinExists ==
  ASSUME NEW S, S \subseteq Nat, S # {}
  PROVE  Min(S) \in S /\ \A y \in S : Min(S) <= y
<1> DEFINE R == OpToRel(<, Nat)
<1>1. IsWellFoundedOn(R, Nat)
  BY NatLessThanWellFounded
<1>2. \A x, y \in Nat : y < x => <<y, x>> \in R
  BY DEF OpToRel
<1> HIDE DEF R
<1>3. PICK x \in S : \A y \in S : ~(<<y, x>> \in R)
  BY <1>1, WFMin
<1>4. \A y \in S : ~(y < x)
  BY <1>2, <1>3, Zenon
<1>5. \A y \in S : x <= y
  BY <1>4
<1> QED
  BY <1>5 DEF Min

\* The choreography, place by place.
LEMMA Places ==
  /\ Len(Prologue) = 26 /\ Len(choreography) = 38
  /\ \A i \in 1..20 : choreography[i].op \in {BringUp[j] : j \in 1..10}
  /\ \A i \in 21..26 : choreography[i].op = "path_open"
  /\ \A i \in 1..12 : choreography[26 + i] = SampleCycle[i]
<1> DEFINE Ops == {BringUp[j] : j \in 1..10} \cup WasiOps \cup {"tx", "rx"}
           M == [from : Roles, to : Roles, op : Ops, way : {"req", "ret"}]
           Q == [i \in 1..Len(Objects) |-> "path_open"]
           P == Pairs(Kernel, Wifi, BringUp)
           O == Pairs(Guest, Kernel, Q)
<1>1. Len(BringUp) = 10 /\ Len(Objects) = 3 /\ Len(SampleCycle) = 12
  BY DEF BringUp, Objects, SampleCycle
<1>2. WasiOps \subseteq Ops /\ {"tx", "rx"} \subseteq Ops /\ \A i \in 1..10 : BringUp[i] \in Ops
  OBVIOUS
<1>3. \A a, b \in Roles, op \in Ops : Req(a, b, op) \in M /\ Ret(a, b, op) \in M
  BY DEF Req, Ret
<1>4. Kernel \in Roles /\ Guest \in Roles /\ Wifi \in Roles
  BY DEF Roles
<1>5. Len(Q) = 3 /\ \A i \in 1..3 : Q[i] = "path_open"
  BY <1>1
<1> HIDE DEF M, Q, Ops
<1>6. P \in Seq(M) /\ Len(P) = 20
  BY <1>1, <1>2, <1>3, <1>4 DEF Pairs
<1>7. O \in Seq(M) /\ Len(O) = 6
  BY <1>5, <1>2, <1>3, <1>4 DEF Pairs, WasiOps
<1>8. \A i \in 1..20 : P[i].op \in {BringUp[j] : j \in 1..10}
  BY <1>1 DEF Pairs, Req, Ret
<1>9. \A i \in 1..6 : O[i].op = "path_open"
  BY <1>5 DEF Pairs, Req, Ret
<1>10. SampleCycle \in Seq(M)
  BY <1>2, <1>3, <1>4 DEF SampleCycle, WasiOps
<1>11. Prologue = P \o O
  BY DEF Prologue, Q
<1> HIDE DEF P, O
<1>11a. P \in Seq(M) /\ O \in Seq(M)
  BY <1>6, <1>7
<1>12. P \o O \in Seq(M) /\ Len(P \o O) = Len(P) + Len(O)
  BY <1>11a
<1>12a. \A i \in 1..Len(P) : (P \o O)[i] = P[i]
  BY <1>11a
<1>12b. \A i \in 1..Len(O) : (P \o O)[Len(P) + i] = O[i]
  BY <1>11a
<1>13. Prologue \in Seq(M) /\ Len(Prologue) = 26
  BY <1>6, <1>7, <1>11, <1>12
<1>14. \A i \in 1..20 : Prologue[i] = P[i]
  BY <1>6, <1>11, <1>12a
<1>15. \A i \in 1..6 : Prologue[20 + i] = O[i]
  BY <1>6, <1>7, <1>11, <1>12b
<1>15a. Prologue \in Seq(M)
  BY <1>13
<1>16. Len(Prologue \o SampleCycle) = Len(Prologue) + Len(SampleCycle)
  BY <1>10, <1>15a
<1>16a. \A i \in 1..Len(Prologue) : (Prologue \o SampleCycle)[i] = Prologue[i]
  BY <1>10, <1>15a
<1>16b. \A i \in 1..Len(SampleCycle) : (Prologue \o SampleCycle)[Len(Prologue) + i] = SampleCycle[i]
  BY <1>10, <1>15a
<1>17. Len(choreography) = 38
  BY <1>1, <1>13, <1>16 DEF choreography
<1>18. \A i \in 1..26 : choreography[i] = Prologue[i]
  BY <1>13, <1>16a DEF choreography
<1>19. \A i \in 1..12 : choreography[26 + i] = SampleCycle[i]
  BY <1>1, <1>13, <1>16b DEF choreography
<1>20. \A i \in 1..20 : choreography[i] = P[i]
  BY <1>14, <1>18
<1>21. \A i \in 1..20 : choreography[i].op \in {BringUp[j] : j \in 1..10}
  BY <1>8, <1>20
<1>22. \A i \in 21..26 : choreography[i].op = "path_open"
  <2> TAKE i \in 21..26
  <2> DEFINE k == i - 20
  <2>1. k \in 1..6 /\ i = 20 + k /\ i \in 1..26
    OBVIOUS
  <2> HIDE DEF k
  <2> QED
    BY <1>9, <1>15, <1>18, <2>1
<1> QED
  BY <1>13, <1>17, <1>19, <1>21, <1>22

\* The cycle, place by place.
LEMMA CyclePlaces ==
  /\ SampleCycle[1] = Req(Guest, Kernel, "fd_read")
  /\ SampleCycle[6] = Req(Kernel, Wifi, "tx")
  /\ SampleCycle[9] = Ret(Kernel, Wifi, "rx")
  /\ SampleCycle[10] = Ret(Guest, Kernel, "fd_write")
  /\ \A i \in 1..12 : SampleCycle[i].op = "rx" /\ SampleCycle[i].way = "ret" => i = 9
BY DEF SampleCycle, Req, Ret, Kernel, Guest, Wifi

\* Every role has a place in the cycle, so the next place is one of its own.
LEMMA NextPlaceIn ==
  ASSUME NEW r \in Roles, NEW i \in 0..38
  PROVE  NextPlace[r][i] \in PlacesOf(r)
<1> DEFINE later == {j \in PlacesOf(r) : j > i}
           again == {j \in PlacesOf(r) : j > Len(Prologue)}
<1>1. PlacesOf(r) \subseteq Nat
  BY Places DEF PlacesOf
<1>2. 27 \in again \/ 32 \in again
  BY Places, CyclePlaces DEF PlacesOf, Roles, Req
<1>3. NextPlace[r][i] = Min(IF later # {} THEN later ELSE again)
  BY Places DEF NextPlace
<1> QED
  BY <1>1, <1>2, <1>3, MinExists

\* After the poll for the acknowledgement the kernel role answers the guest.
LEMMA AnswerIsNext ==
  ASSUME NEW i \in PlacesOf(Kernel), Has(i, "rx", "ret")
  PROVE  Has(NextPlace[Kernel][i], "fd_write", "ret")
<1> DEFINE later == {j \in PlacesOf(Kernel) : j > i}
<1>1. i \in 1..38
  BY Places DEF PlacesOf
<1>2. \A j \in 1..10 : BringUp[j] # "rx"
  BY DEF BringUp
<1>3. i = 35
  <2>1. i \notin 1..20
    <3> SUFFICES ASSUME i \in 1..20 PROVE FALSE
      OBVIOUS
    <3>1. choreography[i].op \in {BringUp[j] : j \in 1..10}
      BY Places
    <3>2. choreography[i].op = "rx"
      BY DEF Has
    <3> QED
      BY <1>2, <3>1, <3>2
  <2>2. i \notin 21..26
    BY Places DEF Has
  <2>3. i \in 27..38 /\ i - 26 \in 1..12
    BY <1>1, <2>1, <2>2
  <2>4. SampleCycle[i - 26].op = "rx" /\ SampleCycle[i - 26].way = "ret"
    BY <2>3, Places DEF Has
  <2> QED
    BY <2>3, <2>4, CyclePlaces
<1>4. 36 \in later /\ later \subseteq 36..38
  BY <1>3, Places, CyclePlaces DEF PlacesOf, Ret
<1>5. Min(later) = 36
  BY <1>4, MinExists
<1>6. NextPlace[Kernel][i] = 36
  BY <1>1, <1>4, <1>5, Places DEF NextPlace, Roles
<1> QED
  BY <1>6, Places, CyclePlaces DEF Has, Ret


-----------------------------------------------------------------------------
(* The panel. *)

PanelInv ==
  /\ air \subseteq Datagrams
  /\ PanelTypeOK
  /\ LinkInv /\ StepInv /\ WriteInv /\ RadioInv
  /\ PanelInStep

\* The places of a role are places.
LEMMA PlaceRange ==
  ASSUME NEW r \in Roles, NEW i \in PlacesOf(r)
  PROVE  i \in 0..38
BY Places DEF PlacesOf

\* The endpoints stay at places of their roles.
LEMMA AdvanceOK ==
  ASSUME CursorOK, NEW rs, cursor' = Advance(rs)
  PROVE  CursorOK'
<1>1. \A r \in Roles : NextPlace[r][cursor[r]] \in PlacesOf(r)
  BY PlaceRange, NextPlaceIn DEF CursorOK
<1> QED
  BY <1>1 DEF CursorOK, Advance, PlacesOf

LEMMA ServedOK ==
  ASSUME CursorOK, cursor' = ServedCursor
  PROVE  CursorOK'
<1>1. Kernel \in Roles
  BY DEF Roles
<1>2. NextPlace[Kernel][cursor[Kernel]] \in PlacesOf(Kernel)
  BY <1>1, PlaceRange, NextPlaceIn DEF CursorOK
<1>3. NextPlace[Kernel][NextPlace[Kernel][cursor[Kernel]]] \in PlacesOf(Kernel)
  BY <1>1, <1>2, PlaceRange, NextPlaceIn
<1> QED
  BY <1>1, <1>3 DEF CursorOK, ServedCursor, PlacesOf

LEMMA PlaceOK ==
  ASSUME CursorOK,
         cursor' = [cursor EXCEPT ![Kernel] =
                      NextPlace[Kernel][NextPlace[Kernel][cursor[Kernel]]]]
  PROVE  CursorOK'
<1>1. cursor' = ServedCursor
  BY DEF ServedCursor
<1> QED
  BY <1>1, ServedOK

LEMMA WifiOK ==
  ASSUME CursorOK, cursor' = [cursor EXCEPT ![Wifi] = NextPlace[Wifi][NextPlace[Wifi][@]]]
  PROVE  CursorOK'
<1>1. Wifi \in Roles
  BY DEF Roles
<1>2. NextPlace[Wifi][cursor[Wifi]] \in PlacesOf(Wifi)
  BY <1>1, PlaceRange, NextPlaceIn DEF CursorOK
<1>3. NextPlace[Wifi][NextPlace[Wifi][cursor[Wifi]]] \in PlacesOf(Wifi)
  BY <1>1, <1>2, PlaceRange, NextPlaceIn
<1> QED
  BY <1>1, <1>3 DEF CursorOK, PlacesOf

\* The lengths of the tables.
LEMMA Lengths == Len(BringUp) = 10 /\ Len(Objects) = 3
BY DEF BringUp, Objects

LEMMA Tables ==
  /\ Objects[1] = "sample" /\ Objects[2] = "display" /\ Objects[3] = "uno_q"
  /\ \A i \in 1..3 : Objects[i] \in {"sample", "display", "uno_q"}
BY DEF Objects

\* What a message is made of.
MessageOps == {"none", "tx", "rx"} \cup WasiOps \cup {BringUp[i] : i \in 1..Len(BringUp)}
MessageObjects == {"none", "sample", "display", "uno_q"}

LEMMA MessageOK ==
  ASSUME NEW op \in MessageOps, NEW way \in {"none", "req", "ret"},
         NEW obj \in MessageObjects, NEW seq \in Seqs, NEW ok \in BOOLEAN
  PROVE  Message(op, way, obj, seq, ok) \in Messages
BY DEF Message, Messages, MessageOps, MessageObjects

LEMMA NoMessageOK ==
  /\ NoMessage \in Messages
  /\ NoMessage.op = "none" /\ NoMessage.way = "none" /\ NoMessage.ok = TRUE
BY MaxSamplesAssumption DEF NoMessage, Messages, Seqs

LEMMA OpsOK ==
  /\ {"none", "tx", "rx", "path_open", "fd_read", "fd_write", "poll_oneoff"} \subseteq MessageOps
  /\ \A i \in 1..10 : BringUp[i] \in MessageOps
  /\ 0 \in Seqs
BY Lengths, MaxSamplesAssumption DEF MessageOps, WasiOps, Seqs

\* The fields of a message in the link.
LEMMA FieldsOK ==
  ASSUME NEW m \in Messages
  PROVE  /\ m.op \in MessageOps /\ m.way \in {"none", "req", "ret"}
         /\ m.obj \in MessageObjects /\ m.seq \in Seqs /\ m.ok \in BOOLEAN
BY DEF Messages, MessageOps, MessageObjects


\* While the radio is brought up the guest is at its first import.
LEMMA BootFacts ==
  ASSUME PanelInv, kpc \in {"boot", "booting"}
  PROVE  wasi.way # "ret" /\ gpc.at = "open" /\ gpc.n = 1
<1>1. gpc.at \in GuestPlaces
  BY DEF PanelInv, PanelTypeOK, StepInv
<1>2. ~Behind
  BY <1>1 DEF Behind, GuestPlaces
<1>3. Before
  BY <1>2 DEF PanelInv, StepInv
<1> QED
  BY <1>1, <1>2, <1>3 DEF PanelInv, LinkInv, StepInv, Before, GuestPlaces


LEMMA GuestCallPanel ==
  ASSUME PanelInv, GuestCall
  PROVE  PanelInv'
<1> USE DEF PanelInv
<1>0. UNCHANGED <<air, built, wifi, kpc, stage, kseq, udpSeq, buffer, wpc, wstage, radio, polls, rxq, fault, acked>>
  BY DEF GuestCall, core0Vars
<1>1. CursorOK'
  BY AdvanceOK DEF PanelTypeOK, CursorOK, GuestCall, GuestImportAt, Message, core0Vars
<1>2. MessagesOK'
  <2>1. GuestImportAt(gpc.at)[1] \in MessageOps /\ GuestImportAt(gpc.at)[2] \in MessageObjects
    BY OpsOK, Tables, Lengths DEF PanelTypeOK, GuestPlaces, GuestCall, GuestImportAt,
       LinkInv, MessageObjects
  <2>2. wasi' = Message(GuestImportAt(gpc.at)[1], "req", GuestImportAt(gpc.at)[2], buffer, TRUE)
    BY DEF GuestCall
  <2>3. wasi' \in Messages
    BY <2>1, <2>2, MessageOK DEF PanelTypeOK
  <2> QED
    BY <2>3 DEF MessagesOK, PanelTypeOK, GuestCall
<1>3. PanelTypeOK'
  BY <1>1, <1>2, Lengths, MaxSamplesAssumption, BudgetAssumption DEF NoPolls,
     PanelTypeOK, Received, GuestPlaces, KernelPlaces, Seqs, GuestCall, GuestImportAt,
     Message, core0Vars
<1>4. LinkInv'
  BY Lengths, Tables DEF MessagesOK, PanelTypeOK, LinkInv, StepInv, Before, Behind,
     NoMessage, GuestImportAt, GuestCall, Message, core0Vars
<1>5. StepInv'
  <2>1. wasi.way = "none" /\ wasi'.way = "req" /\ kpc' = kpc /\ stage' = stage /\ udpSeq' = udpSeq
    BY DEF GuestCall, Message, NoMessage, core0Vars
  <2>2. gpc' = [gpc EXCEPT !.waits = TRUE] /\ ~gpc.waits /\ gpc.at # "abort"
    BY DEF GuestCall
  <2>3. gpc'.at = gpc.at /\ gpc'.n = gpc.n
    BY <2>2 DEF PanelTypeOK
  <2>4. Before'
    BY <2>1, <2>2, <2>3 DEF StepInv, Before
  <2>5. wasi'.op = "fd_read" => gpc.at = "read" /\ udpSeq < MaxSamples
    BY <2>2 DEF GuestCall, GuestImportAt, Message, PanelTypeOK, GuestPlaces
  <2> QED
    BY <2>1, <2>2, <2>3, <2>4, <2>5 DEF StepInv, Carries
<1>6. WriteInv'
  BY DEF StepInv, Before, NoMessage, WriteInv, GuestCall, Message, core0Vars
<1>7. RadioInv'
  BY <1>0 DEF RadioInv, Carries
<1>8. PanelInStep'
  BY <1>0 DEF PanelInStep
<1>9. (air \subseteq Datagrams)'
  BY <1>0 DEF Datagrams, Sample, Ack
<1> QED
  BY <1>1, <1>2, <1>3, <1>4, <1>5, <1>6, <1>7, <1>8, <1>9

LEMMA GuestReturnPanel ==
  ASSUME PanelInv, GuestReturn
  PROVE  PanelInv'
<1> USE DEF PanelInv
<1>0. UNCHANGED <<air, built, wifi, kpc, stage, kseq, udpSeq, wpc, wstage, radio, polls, rxq, fault>>
  BY DEF GuestReturn, core0Vars
<1>a. wasi.way = "ret" /\ gpc.waits /\ gpc.at # "abort" /\ wasi' = NoMessage
  BY NoMessageOK DEF GuestReturn, Carries, LinkInv, NoMessage
<1>b. NoMessage.way = "none" /\ NoMessage.op = "none"
  BY DEF NoMessage
<1>c. UNCHANGED <<kpc, stage, kseq, udpSeq>>
  BY DEF GuestReturn, core0Vars
<1>d. \/ gpc' = [at |-> "abort", n |-> 0, waits |-> FALSE] /\ gpc.at = "uno_q"
      \/ gpc' = GuestAfter
  BY <1>a DEF GuestReturn, StepInv
<1>e. gpc.at \in GuestPlaces /\ (gpc.at = "open" => gpc.n \in 1..3)
  BY <1>a, Lengths DEF PanelTypeOK, LinkInv
<1>f. gpc'.waits = FALSE
  BY <1>d, <1>e, Lengths DEF GuestAfter, GuestPlaces
<1>g. gpc'.at = "open" => gpc.at = "open" /\ gpc.n < 3 /\ gpc'.n = gpc.n + 1
  BY <1>d, <1>e, Lengths DEF GuestAfter, GuestPlaces
<1>1. CursorOK'
  BY AdvanceOK DEF PanelTypeOK, CursorOK, GuestReturn, GuestImportAt, GuestAfter,
     Carries, core0Vars
<1>2. MessagesOK'
  BY NoMessageOK DEF MessagesOK, PanelTypeOK, GuestReturn
<1>3. PanelTypeOK'
  BY <1>1, <1>2, FieldsOK DEF MessagesOK, LinkInv, PanelTypeOK, GuestPlaces,
     GuestReturn, GuestAfter, core0Vars
<1>4. LinkInv'
  BY <1>a, <1>e, <1>f, <1>g, Lengths DEF LinkInv
<1>5. StepInv'
  <2>1. Before'
    BY <1>a, <1>b, <1>c, <1>d, <1>e, Lengths DEF StepInv, Before, Behind, GuestAfter,
       GuestPlaces
  <2>2. gpc'.at = "abort" => kpc' = "poll"
    BY <1>a, <1>c, <1>d, <1>e, Lengths DEF StepInv, Behind, GuestAfter, GuestPlaces
  <2> QED
    BY <1>a, <1>b, <2>1, <2>2 DEF StepInv, Carries
<1>6. WriteInv'
  BY <1>f DEF WriteInv
<1>7. RadioInv'
  BY <1>0 DEF RadioInv, Carries
<1>8. PanelInStep'
  BY <1>0 DEF PanelInStep
<1>9. (air \subseteq Datagrams)'
  BY <1>0 DEF Datagrams, Sample, Ack
<1> QED
  BY <1>1, <1>2, <1>3, <1>4, <1>5, <1>6, <1>7, <1>8, <1>9

LEMMA KernelBootPanel ==
  ASSUME PanelInv, KernelBoot
  PROVE  PanelInv'
<1> USE DEF PanelInv
<1>0. UNCHANGED <<air, built, wasi, stage, kseq, udpSeq, gpc, buffer, wpc, wstage, radio, polls, rxq, fault, acked>>
  BY DEF KernelBoot
<1>1. CursorOK'
  BY AdvanceOK DEF PanelTypeOK, CursorOK, KernelBoot, Message
<1>2. MessagesOK'
  BY Lengths, Tables, MessageOK, NoMessageOK, OpsOK, FieldsOK DEF MessagesOK,
     PanelTypeOK, StepInv, LinkInv, MessageObjects, KernelBoot
<1>3. PanelTypeOK'
  BY <1>1, <1>2 DEF PanelTypeOK, KernelPlaces, KernelBoot
<1>4. LinkInv'
  BY Lengths, Tables DEF MessagesOK, PanelTypeOK, LinkInv, StepInv, Before, Behind,
     NoMessage, GuestImportAt, KernelBoot, Message
<1>5. StepInv'
  <2>1. kpc = "boot" /\ kpc' = "booting" /\ UNCHANGED <<wasi, gpc, stage, udpSeq>>
    BY DEF KernelBoot
  <2>2. wasi.way # "ret" /\ gpc.at = "open"
    BY <2>1, BootFacts
  <2> QED
    BY <2>1, <2>2 DEF StepInv, Before, Carries
<1>6. WriteInv'
  BY DEF WriteInv, KernelBoot
<1>7. RadioInv'
  BY DEF RadioInv, KernelBoot, Message
<1>8. PanelInStep'
  BY DEF PanelInStep, KernelBoot
<1>9. (air \subseteq Datagrams)'
  BY <1>0 DEF Datagrams, Sample, Ack
<1> QED
  BY <1>1, <1>2, <1>3, <1>4, <1>5, <1>6, <1>7, <1>8, <1>9

LEMMA KernelBootedPanel ==
  ASSUME PanelInv, KernelBooted
  PROVE  PanelInv'
<1> USE DEF PanelInv
<1>0. UNCHANGED <<air, built, wasi, kseq, udpSeq, gpc, buffer, wpc, wstage, radio, polls, rxq, fault, acked>>
  BY DEF KernelBooted
<1>a. kpc = "booting" /\ UNCHANGED <<wasi, gpc, udpSeq>>
  BY DEF KernelBooted
<1>b. (kpc' = "open" /\ stage' = 1) \/ (kpc' = "boot" /\ stage # 10 /\ stage' = stage + 1)
  BY Lengths DEF KernelBooted
<1>c. wasi.way # "ret" /\ gpc.at = "open" /\ gpc.n = 1
  BY <1>a, BootFacts
<1>1. CursorOK'
  BY AdvanceOK DEF PanelTypeOK, CursorOK, KernelBooted
<1>2. MessagesOK'
  BY NoMessageOK DEF MessagesOK, PanelTypeOK, KernelBooted
<1>3. PanelTypeOK'
  <2>1. stage' \in 1..10 /\ kpc' \in KernelPlaces
    BY <1>b, Lengths DEF PanelTypeOK, KernelPlaces
  <2> QED
    BY <1>1, <1>2, <2>1, Lengths DEF PanelTypeOK, KernelBooted
<1>4. LinkInv'
  BY Lengths, Tables DEF MessagesOK, PanelTypeOK, LinkInv, StepInv, Before, Behind,
     NoMessage, GuestImportAt, KernelBooted
<1>5. StepInv'
  BY <1>a, <1>b, <1>c DEF StepInv, Before, Carries
<1>6. WriteInv'
  BY DEF WriteInv, KernelBooted
<1>7. RadioInv'
  BY DEF MessagesOK, PanelTypeOK, RadioInv, NoMessage, Carries, KernelBooted
<1>8. PanelInStep'
  BY DEF PanelInStep, KernelBooted
<1>9. (air \subseteq Datagrams)'
  BY <1>0 DEF Datagrams, Sample, Ack
<1> QED
  BY <1>1, <1>2, <1>3, <1>4, <1>5, <1>6, <1>7, <1>8, <1>9

LEMMA KernelPathOpenPanel ==
  ASSUME PanelInv, KernelPathOpen
  PROVE  PanelInv'
<1> USE DEF PanelInv
<1>0. UNCHANGED <<air, built, wifi, kseq, udpSeq, gpc, buffer, wpc, wstage, radio, polls, rxq, acked>>
  BY DEF KernelPathOpen, Fail
<1>a. kpc = "open" /\ wasi.op = "path_open" /\ wasi.way = "req" /\ stage \in 1..10
  BY Lengths DEF KernelPathOpen, Serves, Carries, PanelTypeOK
<1>b. wasi # NoMessage
  BY <1>a DEF NoMessage
<1>c. gpc.at = "open" /\ gpc.n = stage /\ gpc.n \in 1..3 /\ gpc.waits /\ wasi.obj = Objects[stage]
  BY <1>a, <1>b, Lengths DEF StepInv, LinkInv, Before, GuestImportAt
<1>d. /\ cursor' = ServedCursor
      /\ wasi' = Message("path_open", "ret", wasi.obj, 0, TRUE)
      /\ UNCHANGED <<air, built, wifi, kseq, udpSeq, gpc, buffer, wpc, wstage, radio, polls, rxq, fault, acked>>
  BY <1>c DEF KernelPathOpen
<1>e. (stage = 3 /\ kpc' = "read" /\ stage' = 1) \/ (stage # 3 /\ kpc' = "open" /\ stage' = stage + 1)
  BY <1>c, Lengths DEF KernelPathOpen
<1>1. CursorOK'
  BY ServedOK DEF PanelTypeOK, CursorOK, KernelPathOpen, Fail, Message
<1>2. MessagesOK'
  <2>1. wasi' \in Messages
    BY <1>c, <1>d, MessageOK, OpsOK, FieldsOK DEF PanelTypeOK, MessagesOK
  <2> QED
    BY <1>d, <2>1 DEF PanelTypeOK, MessagesOK
<1>3. PanelTypeOK'
  <2>1. stage' \in 1..10 /\ kpc' \in KernelPlaces
    BY <1>c, <1>e DEF KernelPlaces
  <2> QED
    BY <1>1, <1>2, <1>d, <2>1, Lengths DEF PanelTypeOK
<1>4. LinkInv'
  BY DEF LinkInv, StepInv, Before, NoMessage, GuestImportAt, KernelPathOpen, Serves,
     Carries, Message
<1>5. StepInv'
  BY DEF LinkInv, StepInv, Before, Behind, NoMessage, Carries, GuestImportAt,
     KernelPathOpen, Serves, Message
<1>6. WriteInv'
  BY DEF LinkInv, StepInv, Before, NoMessage, WriteInv, GuestImportAt, KernelPathOpen,
     Serves, Carries, Message
<1>7. RadioInv'
  BY <1>0 DEF RadioInv, Carries
<1>8. PanelInStep'
  BY DEF PanelInStep, LinkInv, StepInv, Before, NoMessage, Carries, GuestImportAt,
     KernelPathOpen, Serves, Message
<1>9. (air \subseteq Datagrams)'
  BY <1>0 DEF Datagrams, Sample, Ack
<1> QED
  BY <1>1, <1>2, <1>3, <1>4, <1>5, <1>6, <1>7, <1>8, <1>9

LEMMA KernelFdReadPanel ==
  ASSUME PanelInv, KernelFdRead
  PROVE  PanelInv'
<1> USE DEF PanelInv
<1>0. UNCHANGED <<air, built, wifi, stage, kseq, gpc, buffer, wpc, wstage, radio, polls, rxq, acked>>
  BY DEF KernelFdRead, Fail
<1>a. kpc = "read" /\ wasi.op = "fd_read" /\ wasi.way = "req"
  BY DEF KernelFdRead, Serves, Carries
<1>b. wasi # NoMessage
  BY <1>a DEF NoMessage
<1>c. gpc.at = "read" /\ wasi.obj = "sample" /\ udpSeq < MaxSamples
  BY <1>a, <1>b DEF StepInv, LinkInv, Before, GuestImportAt, Carries
<1>d. /\ cursor' = ServedCursor /\ kpc' = "display" /\ udpSeq' = udpSeq + 1
      /\ wasi' = Message("fd_read", "ret", "sample", udpSeq, TRUE)
      /\ UNCHANGED <<air, built, wifi, stage, kseq, gpc, buffer, wpc, wstage, radio, polls, rxq, fault, acked>>
  BY <1>c DEF KernelFdRead
<1>1. CursorOK'
  BY ServedOK DEF PanelTypeOK, CursorOK, KernelFdRead, Fail, Message
<1>2. MessagesOK'
  <2>1. udpSeq \in Seqs
    BY <1>c, MaxSamplesAssumption DEF PanelTypeOK, Seqs
  <2>2. wasi' \in Messages
    BY <1>d, <2>1, MessageOK, OpsOK DEF MessageObjects
  <2> QED
    BY <1>d, <2>2 DEF PanelTypeOK, MessagesOK
<1>3. PanelTypeOK'
  <2>1. udpSeq' \in 0..MaxSamples /\ kpc' \in KernelPlaces
    BY <1>c, <1>d, MaxSamplesAssumption DEF PanelTypeOK, KernelPlaces
  <2> QED
    BY <1>1, <1>2, <1>d, <2>1 DEF PanelTypeOK
<1>4. LinkInv'
  BY DEF LinkInv, StepInv, Before, NoMessage, GuestImportAt, KernelFdRead, Serves,
     Carries, Message
<1>5. StepInv'
  BY DEF LinkInv, StepInv, Before, Behind, NoMessage, Carries, GuestImportAt,
     KernelFdRead, Serves, Message
<1>6. WriteInv'
  BY DEF LinkInv, StepInv, Before, NoMessage, WriteInv, GuestImportAt, KernelFdRead,
     Serves, Carries, Message
<1>7. RadioInv'
  BY <1>0 DEF RadioInv, Carries
<1>8. PanelInStep'
  BY DEF PanelInStep, LinkInv, StepInv, Before, NoMessage, Carries, GuestImportAt,
     KernelFdRead, Serves, Message
<1>9. (air \subseteq Datagrams)'
  BY <1>0 DEF Datagrams, Sample, Ack
<1> QED
  BY <1>1, <1>2, <1>3, <1>4, <1>5, <1>6, <1>7, <1>8, <1>9

LEMMA KernelFdWriteDisplayPanel ==
  ASSUME PanelInv, KernelFdWriteDisplay
  PROVE  PanelInv'
<1> USE DEF PanelInv
<1>0. UNCHANGED <<air, built, wifi, stage, kseq, udpSeq, gpc, buffer, wpc, wstage, radio, polls, rxq, acked>>
  BY DEF KernelFdWriteDisplay, Fail
<1>a. kpc = "display" /\ wasi.op = "fd_write" /\ wasi.way = "req"
  BY DEF KernelFdWriteDisplay, Serves, Carries
<1>b. wasi # NoMessage
  BY <1>a DEF NoMessage
<1>c. gpc.at = "display" /\ wasi.obj = "display"
  BY <1>a, <1>b DEF StepInv, LinkInv, Before, GuestImportAt
<1>d. /\ wasi' = Message("fd_write", "ret", "display", wasi.seq, TRUE)
      /\ wifi' = wifi
  BY <1>c DEF KernelFdWriteDisplay
<1>1. CursorOK'
  BY ServedOK DEF PanelTypeOK, CursorOK, KernelFdWriteDisplay, Fail, Message
<1>2. MessagesOK'
  <2>1. wasi' \in Messages
    BY <1>d, MessageOK, OpsOK, FieldsOK DEF PanelTypeOK, MessagesOK, MessageObjects
  <2> QED
    BY <1>d, <2>1 DEF PanelTypeOK, MessagesOK
<1>3. PanelTypeOK'
  BY <1>1, <1>2, Lengths, MaxSamplesAssumption, BudgetAssumption DEF NoPolls,
     PanelTypeOK, Received, GuestPlaces, KernelPlaces, Seqs, KernelFdWriteDisplay,
     Serves, Carries, Fail, Message, GuestImportAt
<1>4. LinkInv'
  BY DEF LinkInv, StepInv, Before, NoMessage, GuestImportAt, KernelFdWriteDisplay,
     Serves, Carries, Message
<1>5. StepInv'
  BY DEF LinkInv, StepInv, Before, Behind, NoMessage, Carries, GuestImportAt,
     KernelFdWriteDisplay, Serves, Message
<1>6. WriteInv'
  BY DEF LinkInv, StepInv, Before, NoMessage, WriteInv, GuestImportAt,
     KernelFdWriteDisplay, Serves, Carries, Message
<1>7. RadioInv'
  BY <1>0 DEF RadioInv, Carries
<1>8. PanelInStep'
  BY DEF PanelInStep, LinkInv, StepInv, Before, NoMessage, Carries, GuestImportAt,
     KernelFdWriteDisplay, Serves, Message
<1>9. (air \subseteq Datagrams)'
  BY <1>0 DEF Datagrams, Sample, Ack
<1> QED
  BY <1>1, <1>2, <1>3, <1>4, <1>5, <1>6, <1>7, <1>8, <1>9

LEMMA KernelFdWriteUnoQPanel ==
  ASSUME PanelInv, KernelFdWriteUnoQ
  PROVE  PanelInv'
<1> USE DEF PanelInv
<1>0. UNCHANGED <<air, built, stage, udpSeq, gpc, buffer, wpc, wstage, radio, polls, rxq, acked>>
  BY DEF KernelFdWriteUnoQ, Fail
<1>a. kpc = "uno_q" /\ wasi.op = "fd_write" /\ wasi.way = "req"
  BY DEF KernelFdWriteUnoQ, Serves, Carries
<1>b. wasi # NoMessage
  BY <1>a DEF NoMessage
<1>c. gpc.at = "uno_q" /\ gpc.waits /\ wasi.obj = "uno_q"
  BY <1>a, <1>b DEF StepInv, LinkInv, Before, GuestImportAt
<1>d. wasi' = NoMessage /\ wifi' = Message("tx", "req", "uno_q", wasi.seq, TRUE)
  BY <1>c DEF KernelFdWriteUnoQ
<1>1. CursorOK'
  BY ServedOK DEF PanelTypeOK, CursorOK, KernelFdWriteUnoQ, Fail, Message
<1>2. MessagesOK'
  <2>1. wifi' \in Messages
    BY <1>d, MessageOK, OpsOK, FieldsOK DEF PanelTypeOK, MessagesOK, MessageObjects
  <2> QED
    BY <1>d, <2>1, NoMessageOK DEF MessagesOK
<1>3. PanelTypeOK'
  BY <1>1, <1>2, Lengths, MaxSamplesAssumption, BudgetAssumption, FieldsOK DEF NoPolls,
     MessagesOK, PanelTypeOK, Received, GuestPlaces, KernelPlaces, Seqs,
     KernelFdWriteUnoQ, Serves, Carries, Fail, Message, GuestImportAt
<1>4. LinkInv'
  BY DEF LinkInv, StepInv, Before, NoMessage, GuestImportAt, KernelFdWriteUnoQ, Serves,
     Carries, Message
<1>5. StepInv'
  BY DEF LinkInv, StepInv, Before, NoMessage, Carries, GuestImportAt, KernelFdWriteUnoQ,
     Serves, Message
<1>6. WriteInv'
  BY DEF LinkInv, StepInv, Before, NoMessage, WriteInv, GuestImportAt,
     KernelFdWriteUnoQ, Serves, Carries, Message
<1>7. RadioInv'
  BY DEF RadioInv, KernelFdWriteUnoQ, Fail, Message
<1>8. PanelInStep'
  BY DEF PanelInStep, LinkInv, StepInv, Before, NoMessage, Carries, GuestImportAt,
     KernelFdWriteUnoQ, Serves, Message
<1>9. (air \subseteq Datagrams)'
  BY <1>0 DEF Datagrams, Sample, Ack
<1> QED
  BY <1>1, <1>2, <1>3, <1>4, <1>5, <1>6, <1>7, <1>8, <1>9

LEMMA KernelTxResultPanel ==
  ASSUME PanelInv, KernelTxResult
  PROVE  PanelInv'
<1> USE DEF PanelInv
<1>0. UNCHANGED <<air, built, stage, kseq, udpSeq, gpc, buffer, wpc, wstage, radio, polls, rxq, acked>>
  BY DEF KernelTxResult, AnswerWrite, Fail
<1>a. kpc = "sending" /\ fault = "none"
  BY DEF KernelTxResult
<1>b. gpc.at = "uno_q" /\ gpc.waits /\ wasi = NoMessage /\ wasi.way = "none"
  BY <1>a DEF StepInv, Before, Behind, PanelTypeOK, GuestPlaces, NoMessage
<1>c. \/ Fail("endpoint") /\ ~wifi.ok
      \/ /\ wifi.ok
         /\ cursor' = [cursor EXCEPT ![Kernel] = NextPlace[Kernel][NextPlace[Kernel][cursor[Kernel]]]]
         /\ wifi' = Message("rx", "req", "none", 0, TRUE) /\ kpc' = "polling"
         /\ UNCHANGED <<air, built, wasi, stage, kseq, udpSeq, gpc, buffer, wpc, wstage, radio, polls,
                        rxq, fault, acked>>
      \/ /\ ~wifi.ok
         /\ cursor' = [cursor EXCEPT ![Kernel] = NextPlace[Kernel][NextPlace[Kernel][cursor[Kernel]]]]
         /\ wasi' = Message("fd_write", "ret", "uno_q", kseq, FALSE)
         /\ wifi' = NoMessage /\ kpc' = "poll"
         /\ UNCHANGED <<air, built, stage, kseq, udpSeq, gpc, buffer, wpc, wstage, radio, polls, rxq,
                        fault, acked>>
  BY DEF KernelTxResult, AnswerWrite
<1>1. CursorOK'
  BY <1>c, PlaceOK DEF PanelTypeOK, CursorOK, Fail
<1>2. MessagesOK'
  <2>1. /\ Message("rx", "req", "none", 0, TRUE) \in Messages
        /\ Message("fd_write", "ret", "uno_q", kseq, FALSE) \in Messages
    BY MessageOK, OpsOK DEF PanelTypeOK, MessageObjects
  <2> QED
    BY <1>c, <2>1, NoMessageOK DEF PanelTypeOK, MessagesOK, Fail
<1>3. PanelTypeOK'
  BY <1>1, <1>2, Lengths, MaxSamplesAssumption, BudgetAssumption DEF NoPolls,
     PanelTypeOK, Received, GuestPlaces, KernelPlaces, Seqs, KernelTxResult,
     AnswerWrite, Fail, Message, Carries
<1>4. LinkInv'
  BY <1>b, <1>c DEF LinkInv, Fail, Message, GuestImportAt
<1>5. StepInv'
  BY <1>b, <1>c DEF StepInv, Before, Behind, Fail, Message, Carries
<1>6. WriteInv'
  BY DEF WriteInv, KernelTxResult, AnswerWrite, Fail, Message
<1>7. RadioInv'
  BY DEF RadioInv, KernelTxResult, AnswerWrite, Fail, Message
<1>8. PanelInStep'
  BY DEF PanelInStep, RadioInv, KernelTxResult, AnswerWrite, Fail, Message
<1>9. (air \subseteq Datagrams)'
  BY <1>0 DEF Datagrams, Sample, Ack
<1> QED
  BY <1>1, <1>2, <1>3, <1>4, <1>5, <1>6, <1>7, <1>8, <1>9

LEMMA KernelRxResultPanel ==
  ASSUME PanelInv, KernelRxResult
  PROVE  PanelInv'
<1> USE DEF PanelInv
<1>0. UNCHANGED <<air, built, stage, kseq, udpSeq, gpc, buffer, wpc, wstage, radio, polls, rxq, acked>>
  BY DEF KernelRxResult, AnswerWrite, Fail
<1>a. kpc = "polling" /\ fault = "none"
  BY DEF KernelRxResult
<1>b. gpc.at = "uno_q" /\ gpc.waits /\ wasi = NoMessage /\ wasi.way = "none"
  BY <1>a DEF StepInv, Before, Behind, PanelTypeOK, GuestPlaces, NoMessage
<1>c. Has(NextPlace[Kernel][cursor[Kernel]], "fd_write", "ret")
  BY AnswerIsNext DEF KernelRxResult, Admits, PanelTypeOK, CursorOK, Roles
<1>d. /\ cursor' = [cursor EXCEPT ![Kernel] = NextPlace[Kernel][NextPlace[Kernel][cursor[Kernel]]]]
      /\ wasi' = Message("fd_write", "ret", "uno_q", kseq, Acknowledges(wifi))
      /\ wifi' = NoMessage /\ kpc' = "poll"
      /\ UNCHANGED <<air, built, stage, kseq, udpSeq, gpc, buffer, wpc, wstage, radio, polls, rxq, fault,
                     acked>>
  BY <1>c DEF KernelRxResult, AnswerWrite
<1>1. CursorOK'
  BY <1>d, PlaceOK DEF PanelTypeOK
<1>2. MessagesOK'
  <2>1. Acknowledges(wifi) \in BOOLEAN
    BY Zenon DEF Acknowledges
  <2>2. wasi' \in Messages
    BY <1>d, <2>1, MessageOK, OpsOK DEF PanelTypeOK, MessageObjects
  <2> QED
    BY <1>d, <2>2, NoMessageOK DEF MessagesOK
<1>3. PanelTypeOK'
  BY <1>1, <1>2, Lengths, MaxSamplesAssumption, BudgetAssumption DEF NoPolls,
     PanelTypeOK, Received, GuestPlaces, KernelPlaces, Seqs, KernelRxResult,
     AnswerWrite, Fail, Message, Carries
<1>4. LinkInv'
  BY <1>b, <1>d DEF LinkInv, Message, NoMessage, GuestImportAt
<1>5. StepInv'
  <2>1. wasi'.way = "ret" /\ kpc' = "poll" /\ gpc' = gpc /\ wasi'.op = "fd_write"
    BY <1>d DEF Message
  <2> QED
    BY <1>b, <2>1 DEF StepInv, Behind, Carries
<1>6. WriteInv'
  BY DEF WriteInv, KernelRxResult, AnswerWrite, Fail, Message
<1>7. RadioInv'
  BY DEF RadioInv, NoMessage, KernelRxResult, AnswerWrite, Fail
<1>8. PanelInStep'
  BY <1>a, <1>d DEF PanelInStep
<1>9. (air \subseteq Datagrams)'
  BY <1>0 DEF Datagrams, Sample, Ack
<1> QED
  BY <1>1, <1>2, <1>3, <1>4, <1>5, <1>6, <1>7, <1>8, <1>9

LEMMA KernelPollOneoffPanel ==
  ASSUME PanelInv, KernelPollOneoff
  PROVE  PanelInv'
<1> USE DEF PanelInv
<1>0. UNCHANGED <<air, built, wifi, stage, kseq, udpSeq, gpc, buffer, wpc, wstage, radio, polls, rxq, fault, acked>>
  BY DEF KernelPollOneoff
<1>1. CursorOK'
  BY ServedOK DEF PanelTypeOK, KernelPollOneoff
<1>2. MessagesOK'
  BY Lengths, Tables, MessageOK, NoMessageOK, OpsOK, FieldsOK DEF MessagesOK,
     PanelTypeOK, StepInv, LinkInv, MessageObjects, KernelPollOneoff, Serves, Carries
<1>3. PanelTypeOK'
  BY <1>1, <1>2 DEF PanelTypeOK, KernelPlaces, KernelPollOneoff
<1>4. LinkInv'
  <2>1. wasi.op = "poll_oneoff" /\ wasi.way = "req" /\ gpc' = gpc
    BY DEF KernelPollOneoff, Serves, Carries
  <2>2. wasi # NoMessage
    BY <2>1 DEF NoMessage
  <2>3. wasi' = Message("poll_oneoff", "ret", "none", 0, TRUE)
    BY DEF KernelPollOneoff
  <2> QED
    BY <2>1, <2>2, <2>3 DEF LinkInv, Message, NoMessage, GuestImportAt
<1>5. StepInv'
  BY DEF LinkInv, StepInv, Before, Behind, NoMessage, Carries, KernelPollOneoff, Serves,
     Message
<1>6. WriteInv'
  BY DEF LinkInv, StepInv, Before, WriteInv, KernelPollOneoff, Serves, Carries
<1>7. RadioInv'
  BY <1>0 DEF RadioInv, Carries
<1>8. PanelInStep'
  BY DEF PanelInStep, KernelPollOneoff
<1>9. (air \subseteq Datagrams)'
  BY <1>0 DEF Datagrams, Sample, Ack
<1> QED
  BY <1>1, <1>2, <1>3, <1>4, <1>5, <1>6, <1>7, <1>8, <1>9

LEMMA WifiBootPanel ==
  ASSUME PanelInv, WifiBoot
  PROVE  PanelInv'
<1> USE DEF PanelInv
<1>0. UNCHANGED <<air, built, wasi, kpc, stage, kseq, udpSeq, gpc, buffer, polls, rxq, acked>>
  BY DEF WifiBoot, Fail, WifiAnswers
<1>a. wstage \in 1..10
  BY Lengths DEF PanelTypeOK
<1>b. \/ Fail("bootstrap")
      \/ /\ cursor' = [cursor EXCEPT ![Wifi] = NextPlace[Wifi][NextPlace[Wifi][@]]]
         /\ wifi' = Message(BringUp[wstage], "ret", "none", 0, TRUE)
         /\ UNCHANGED <<air, built, wasi, kpc, stage, kseq, udpSeq, gpc, buffer, polls, rxq, fault, acked>>
         /\ \/ wstage = 10 /\ wpc' = "tx" /\ radio' \in {"ready", "none"} /\ UNCHANGED wstage
            \/ wstage # 10 /\ wstage' = wstage + 1 /\ UNCHANGED <<wpc, radio>>
  BY Lengths DEF WifiBoot, WifiAnswers
<1>1. CursorOK'
  BY WifiOK DEF PanelTypeOK, CursorOK, WifiBoot, WifiAnswers, Fail, Message
<1>2. MessagesOK'
  <2>1. Message(BringUp[wstage], "ret", "none", 0, TRUE) \in Messages
    BY <1>a, MessageOK, OpsOK DEF MessageObjects
  <2> QED
    BY <1>b, <2>1 DEF PanelTypeOK, MessagesOK, Fail
<1>3. PanelTypeOK'
  <2>1. CASE Fail("bootstrap")
    BY <1>1, <1>2, <2>1 DEF PanelTypeOK, Fail
  <2>2. CASE ~Fail("bootstrap")
    <3>a. \/ wstage = 10 /\ wpc' = "tx" /\ radio' \in {"ready", "none"} /\ wstage' = wstage
          \/ wstage # 10 /\ wstage' = wstage + 1 /\ wpc' = wpc /\ radio' = radio
      BY <1>b, <2>2
    <3>1. wstage' \in 1..Len(BringUp) /\ wpc' \in {"boot", "tx", "rx", "recv"} /\ radio' \in {"none", "ready"}
      BY <1>a, <3>a, Lengths DEF PanelTypeOK
    <3>2. UNCHANGED <<built, kpc, stage, kseq, udpSeq, gpc, buffer, polls, rxq, fault, acked>>
      BY <1>b, <2>2
    <3> QED
      BY <1>1, <1>2, <3>1, <3>2 DEF PanelTypeOK
  <2> QED
    BY <2>1, <2>2
<1>4. LinkInv'
  BY <1>0 DEF LinkInv, GuestImportAt
<1>5. StepInv'
  BY <1>0 DEF StepInv, Before, Behind, Carries
<1>6. WriteInv'
  BY <1>0 DEF WriteInv
<1>7. RadioInv'
  BY DEF RadioInv, WifiBoot, WifiAnswers, Fail, Message
<1>8. PanelInStep'
  BY DEF PanelInStep, WifiBoot, WifiTakes, WifiAnswers, Fail, Message
<1>9. (air \subseteq Datagrams)'
  BY <1>0 DEF Datagrams, Sample, Ack
<1> QED
  BY <1>1, <1>2, <1>3, <1>4, <1>5, <1>6, <1>7, <1>8, <1>9

LEMMA WifiTxPanel ==
  ASSUME PanelInv, WifiTx
  PROVE  PanelInv'
<1> USE DEF PanelInv
<1>0. UNCHANGED <<built, wasi, kpc, stage, kseq, udpSeq, gpc, buffer, wstage, polls, rxq, fault, acked>>
  BY DEF WifiTx, WifiAnswers
<1>1. CursorOK'
  BY WifiOK DEF PanelTypeOK, WifiTx, WifiAnswers
<1>2. MessagesOK'
  <2>1. \A ok \in BOOLEAN : Message("tx", "ret", "none", wifi.seq, ok) \in Messages
    BY MessageOK, OpsOK, FieldsOK DEF PanelTypeOK, MessagesOK, MessageObjects
  <2> QED
    BY <2>1 DEF WifiTx, WifiAnswers, PanelTypeOK, MessagesOK
<1>3. PanelTypeOK'
  BY <1>1, <1>2 DEF PanelTypeOK, WifiTx, SendDatagram
<1>4. LinkInv'
  BY <1>0 DEF LinkInv, GuestImportAt
<1>5. StepInv'
  BY <1>0 DEF StepInv, Before, Behind, Carries
<1>6. WriteInv'
  BY <1>0 DEF WriteInv
<1>7. RadioInv'
  BY DEF RadioInv, WifiTx, WifiAnswers, Message, SendDatagram
<1>8. PanelInStep'
  BY DEF PanelInStep, WifiTx, WifiTakes
<1>9. (air \subseteq Datagrams)'
  BY DEF MessagesOK, PanelTypeOK, Messages, Datagrams, WifiTx, SendDatagram
<1> QED
  BY <1>1, <1>2, <1>3, <1>4, <1>5, <1>6, <1>7, <1>8, <1>9

LEMMA WifiRxPollPanel ==
  ASSUME PanelInv, WifiRxPoll
  PROVE  PanelInv'
<1> USE DEF PanelInv
<1>0. UNCHANGED <<air, built, cursor, wasi, wifi, kpc, stage, kseq, udpSeq, gpc, buffer, wstage, radio, rxq, fault, acked>>
  BY DEF WifiRxPoll
<1>1. CursorOK'
  BY <1>0 DEF PanelTypeOK, CursorOK, PlacesOf
<1>2. MessagesOK'
  BY <1>0 DEF PanelTypeOK, MessagesOK
<1>3. PanelTypeOK'
  BY <1>1, <1>2, BudgetAssumption DEF NoPolls, PanelTypeOK, WifiRxPoll
<1>4. LinkInv'
  BY <1>0 DEF LinkInv, GuestImportAt
<1>5. StepInv'
  BY <1>0 DEF StepInv, Before, Behind, Carries
<1>6. WriteInv'
  BY <1>0 DEF WriteInv
<1>7. RadioInv'
  BY <1>0 DEF RadioInv, Carries
<1>8. PanelInStep'
  BY <1>0 DEF PanelInStep
<1>9. (air \subseteq Datagrams)'
  BY <1>0 DEF Datagrams, Sample, Ack
<1> QED
  BY <1>1, <1>2, <1>3, <1>4, <1>5, <1>6, <1>7, <1>8, <1>9

LEMMA WifiRecvFramePanel ==
  ASSUME PanelInv, WifiRecvFrame
  PROVE  PanelInv'
<1> USE DEF PanelInv
<1>0. UNCHANGED <<air, built, wasi, kpc, stage, kseq, udpSeq, gpc, buffer, wstage, radio, fault, acked>>
  BY DEF WifiRecvFrame, RxReturns, RxContinues
<1>a. rxq # <<>> => Head(rxq) \in Received /\ Tail(rxq) \in Seq(Received) /\ Len(Tail(rxq)) = Len(rxq) - 1
  BY DEF PanelTypeOK
<1>b. Len(rxq) \in Nat
  BY DEF PanelTypeOK
<1>1. CursorOK'
  BY WifiOK DEF PanelTypeOK, CursorOK, WifiRecvFrame, RxReturns, RxContinues,
     WifiAnswers, Message
<1>2. MessagesOK'
  <2>1. \A seq \in Seqs, ok \in BOOLEAN : Message("rx", "ret", "none", seq, ok) \in Messages
    BY MessageOK, OpsOK DEF MessageObjects
  <2>2. rxq # <<>> => Head(rxq).seq \in Seqs
    BY <1>a DEF Received
  <2> QED
    BY <2>1, <2>2, OpsOK DEF WifiRecvFrame, RxReturns, RxContinues, WifiAnswers,
       PanelTypeOK, MessagesOK
<1>3. PanelTypeOK'
  <2>1. rxq' = rxq \/ (rxq # <<>> /\ rxq' = Tail(rxq))
    BY DEF WifiRecvFrame
  <2>2. rxq' \in Seq(Received) /\ Len(rxq') <= RxDepth
    <3>1. CASE rxq' = rxq
      BY <3>1 DEF PanelTypeOK
    <3>2. CASE rxq # <<>> /\ rxq' = Tail(rxq)
      <4>1. rxq' \in Seq(Received)
        BY <1>a, <3>2
      <4>2. Len(rxq') = Len(rxq) - 1 /\ Len(rxq) <= RxDepth
        BY <1>a, <3>2 DEF PanelTypeOK
      <4> QED
        BY <4>1, <4>2, <1>b, BudgetAssumption
    <3> QED
      BY <2>1, <3>1, <3>2
  <2>3. \/ polls' = polls
        \/ polls.empty < EmptyPollBudget /\ polls' = [polls EXCEPT !.empty = @ + 1]
        \/ polls.frames < FrameBudget /\ polls' = [empty |-> 0, frames |-> polls.frames + 1]
    BY DEF WifiRecvFrame, WithinBudget, OtherFrame
  <2>4. polls.empty \in 0..EmptyPollBudget /\ polls.frames \in 0..FrameBudget
    BY DEF PanelTypeOK
  <2>5. polls' \in [empty : 0..EmptyPollBudget, frames : 0..FrameBudget]
    BY <2>3, <2>4, BudgetAssumption DEF PanelTypeOK
  <2>6. wpc' \in {"boot", "tx", "rx", "recv"}
    BY DEF WifiRecvFrame, RxReturns, RxContinues, PanelTypeOK
  <2>7. UNCHANGED <<built, kpc, stage, wstage, udpSeq, kseq, buffer, gpc, radio, fault, acked>>
    BY DEF WifiRecvFrame, RxReturns, RxContinues
  <2> QED
    BY <1>1, <1>2, <2>2, <2>5, <2>6, <2>7 DEF PanelTypeOK
<1>4. LinkInv'
  BY <1>0 DEF LinkInv, GuestImportAt
<1>5. StepInv'
  BY <1>0 DEF StepInv, Before, Behind, Carries
<1>6. WriteInv'
  BY <1>0 DEF WriteInv
<1>7. RadioInv'
  BY DEF RadioInv, Carries, WifiRecvFrame, RxReturns, RxContinues, WifiAnswers, Message
<1>8. PanelInStep'
  BY <1>0 DEF PanelInStep
<1>9. (air \subseteq Datagrams)'
  BY <1>0 DEF Datagrams, Sample, Ack
<1> QED
  BY <1>1, <1>2, <1>3, <1>4, <1>5, <1>6, <1>7, <1>8, <1>9

LEMMA WifiRecvNothingPanel ==
  ASSUME PanelInv, WifiRecvNothing
  PROVE  PanelInv'
<1> USE DEF PanelInv
<1>0. UNCHANGED <<air, built, wasi, kpc, stage, kseq, udpSeq, gpc, buffer, wstage, radio, polls, rxq, fault, acked>>
  BY DEF WifiRecvNothing, RxReturns
<1>1. CursorOK'
  BY WifiOK DEF PanelTypeOK, WifiRecvNothing, RxReturns, WifiAnswers
<1>2. MessagesOK'
  BY Lengths, Tables, MessageOK, NoMessageOK, OpsOK, FieldsOK DEF MessagesOK,
     PanelTypeOK, StepInv, LinkInv, MessageObjects, WifiRecvNothing, RxReturns,
     WifiAnswers
<1>3. PanelTypeOK'
  BY <1>1, <1>2 DEF PanelTypeOK, WifiRecvNothing, RxReturns
<1>4. LinkInv'
  BY <1>0 DEF LinkInv, GuestImportAt
<1>5. StepInv'
  BY <1>0 DEF StepInv, Before, Behind, Carries
<1>6. WriteInv'
  BY <1>0 DEF WriteInv
<1>7. RadioInv'
  BY DEF RadioInv, Carries, WifiRecvNothing, RxReturns, WifiAnswers, Message
<1>8. PanelInStep'
  BY <1>0 DEF PanelInStep
<1>9. (air \subseteq Datagrams)'
  BY <1>0 DEF Datagrams, Sample, Ack
<1> QED
  BY <1>1, <1>2, <1>3, <1>4, <1>5, <1>6, <1>7, <1>8, <1>9

\* A delay that does not return stops core 0 where it is.
LEMMA DelayNeverReturnsPanel ==
  ASSUME PanelInv, DelayNeverReturns
  PROVE  PanelInv'
<1> USE DEF PanelInv
<1>0. /\ fault' = "delay"
      /\ UNCHANGED <<air, built, cursor, wasi, wifi, kpc, stage, kseq, udpSeq, gpc, buffer,
                     wpc, wstage, radio, polls, rxq, acked>>
  BY DEF DelayNeverReturns, Fail
<1>1. CursorOK' /\ MessagesOK'
  BY <1>0 DEF PanelTypeOK, CursorOK, MessagesOK
<1>2. PanelTypeOK'
  BY <1>0, <1>1 DEF PanelTypeOK
<1>3. LinkInv'
  BY <1>0 DEF LinkInv, GuestImportAt
<1>4. StepInv'
  BY <1>0 DEF StepInv, Behind, Before, Carries
<1>5. WriteInv' /\ RadioInv'
  BY <1>0 DEF WriteInv, RadioInv, Carries
<1>6. PanelInStep'
  BY <1>0 DEF PanelInStep
<1>7. (air \subseteq Datagrams)'
  BY <1>0 DEF Datagrams, Sample, Ack
<1> QED
  BY <1>1, <1>2, <1>3, <1>4, <1>5, <1>6, <1>7

LEMMA AckArrivesPanel ==
  ASSUME PanelInv, AckArrives
  PROVE  PanelInv'
<1> USE DEF PanelInv
<1>0. UNCHANGED <<built, cursor, wasi, wifi, kpc, stage, kseq, udpSeq, gpc, buffer, wpc, wstage, radio, polls, fault, acked>>
  BY DEF AckArrives, core0Vars
<1>1. CursorOK'
  BY <1>0 DEF PanelTypeOK, CursorOK, PlacesOf
<1>2. MessagesOK'
  BY <1>0 DEF PanelTypeOK, MessagesOK
<1>3. PanelTypeOK'
  BY <1>1, <1>2, BudgetAssumption DEF PanelTypeOK, Received, AckArrives, Ack, Listening,
     core0Vars
<1>4. LinkInv'
  BY <1>0 DEF LinkInv, GuestImportAt
<1>5. StepInv'
  BY <1>0 DEF StepInv, Before, Behind, Carries
<1>6. WriteInv'
  BY <1>0 DEF WriteInv
<1>7. RadioInv'
  BY <1>0 DEF RadioInv, Carries
<1>8. PanelInStep'
  BY <1>0 DEF PanelInStep
<1>9. (air \subseteq Datagrams)'
  BY DEF Sample, AckArrives, Arrives
<1> QED
  BY <1>1, <1>2, <1>3, <1>4, <1>5, <1>6, <1>7, <1>8, <1>9

LEMMA OtherArrivesPanel ==
  ASSUME PanelInv, OtherArrives
  PROVE  PanelInv'
<1> USE DEF PanelInv
<1>0. UNCHANGED <<air, built, cursor, wasi, wifi, kpc, stage, kseq, udpSeq, gpc, buffer, wpc, wstage, radio, polls, fault, acked>>
  BY DEF OtherArrives, core0Vars
<1>1. CursorOK'
  BY <1>0 DEF PanelTypeOK, CursorOK, PlacesOf
<1>2. MessagesOK'
  BY <1>0 DEF PanelTypeOK, MessagesOK
<1>3. PanelTypeOK'
  BY <1>1, <1>2, MaxSamplesAssumption, BudgetAssumption DEF PanelTypeOK, Received, Seqs,
     OtherArrives, Listening, core0Vars
<1>4. LinkInv'
  BY <1>0 DEF LinkInv, GuestImportAt
<1>5. StepInv'
  BY <1>0 DEF StepInv, Before, Behind, Carries
<1>6. WriteInv'
  BY <1>0 DEF WriteInv
<1>7. RadioInv'
  BY <1>0 DEF RadioInv, Carries
<1>8. PanelInStep'
  BY <1>0 DEF PanelInStep
<1>9. (air \subseteq Datagrams)'
  BY <1>0 DEF Datagrams, Sample, Ack
<1> QED
  BY <1>1, <1>2, <1>3, <1>4, <1>5, <1>6, <1>7, <1>8, <1>9

-----------------------------------------------------------------------------
(* The shell. *)

ShellPart ==
  /\ ShellTypeOK
  /\ CallInv /\ SyncInv /\ TurnInv /\ FaceInv /\ MatrixInv
  /\ ShellInStep /\ MatrixWhole

\* The choreography of the cell, place by place.
LEMMA ChoreoFacts ==
  /\ Len(Choreo) = 9
  /\ \A i \in 1..9 : PeerOf(i) = IF i \in {3, 8} THEN "m33" ELSE "llm"
  /\ \A i \in 1..9 : OpOf(i) = IF i \in {1, 2, 3} THEN "path_open"
                              ELSE IF i \in {5, 7} THEN "fd_read" ELSE "fd_write"
  /\ \A i \in 1..9 : NextOf(i) = IF i = 9 THEN 5 ELSE i + 1
BY DEF Choreo, PeerOf, OpOf, NextOf, RollStart

\* ... at the place of the cell.
LEMMA PlaceFacts ==
  ASSUME ShellTypeOK
  PROVE  /\ cell.place \in 1..9
         /\ PeerOf(cell.place) = IF cell.place \in {3, 8} THEN "m33" ELSE "llm"
         /\ OpOf(cell.place) = IF cell.place \in {1, 2, 3} THEN "path_open"
                               ELSE IF cell.place \in {5, 7} THEN "fd_read" ELSE "fd_write"
         /\ NextOf(cell.place) = IF cell.place = 9 THEN 5 ELSE cell.place + 1
<1>1. cell.place \in 1..9
  BY ChoreoFacts DEF ShellTypeOK, Cells
<1> QED
  BY <1>1, ChoreoFacts

\* The numbers of the frames wrap.
LEMMA OrdinalFacts ==
  /\ 0 \in Ordinals
  /\ \A o \in Ordinals : o \in Nat /\ (o + 1) % OrdinalModulus \in Ordinals
BY ShellAssumption DEF Ordinals

LEMMA LineFacts ==
  /\ NoLine \in Lines /\ Line("ls", "none") \in Lines /\ ModelLines \subseteq Lines
  /\ \A f \in LocalFaces : LineOf(f) \in Lines /\ LineOf(f).face = f /\ LineOf(f).verb = "echo"
BY ShellAssumption DEF NoLine, Line, LineOf, Lines

\* The script shows faces that the guest knows.
LEMMA ScriptedIsFace ==
  ASSUME NEW text, NEW given, NEW ord \in Nat
  PROVE  ScriptedFace(text, given, ord) \in GuestFaces
<1>1. FaceCycle[(ord % Len(FaceCycle)) + 1] \in GuestFaces
  BY DEF FaceCycle, GuestFaces
<1>2. \A l : LightFace(l) \in GuestFaces
  BY Zenon DEF LightFace, GuestFaces
<1> QED
  BY <1>1, <1>2 DEF ScriptedFace, GuestFaces


\* A role that ends leaves the rest as it was.
LEMMA ShellFailShell ==
  ASSUME ShellPart, NEW cause \in {"endpoint", "human", "fd", "line", "llm", "ordinal"},
         ShellFail(cause),
         cause \in {"fd", "ordinal", "endpoint"} =>
            source = "external" \/ (source = "server" /\ cell.line = LineOf("v"))
  PROVE  ShellPart'
<1> USE DEF ShellPart
<1>0. /\ sfault' = cause
      /\ UNCHANGED <<source, cell, io, llm, human, hmsg, typed, sensor, smsg, m33, matrix, masked, lit>>
  BY DEF ShellFail, m33Vars
<1>1. ShellTypeOK'
  BY <1>0 DEF ShellTypeOK
<1>2. CallInv'
  BY <1>0 DEF CallInv, CellImport, Drawing
<1>3. SyncInv'
  BY <1>0 DEF SyncInv, CellStep, LlmStep, M33Step, OrdinalStep, LineStep, LlmPlace,
     M33Place, LlmAhead, M33Ahead
<1>4. TurnInv'
  BY <1>0 DEF TurnInv
<1>5. FaceInv'
  BY <1>0 DEF FaceInv, TurnLine, LlmAhead
<1>6. MatrixInv'
  BY <1>0 DEF MatrixInv
<1>7. ShellInStep'
  BY <1>0 DEF ShellInStep
<1>8. MatrixWhole'
  BY <1>0 DEF MatrixWhole
<1> QED
  BY <1>1, <1>2, <1>3, <1>4, <1>5, <1>6, <1>7, <1>8


LEMMA CellCallShell ==
  ASSUME ShellPart, CellCall
  PROVE  ShellPart'
<1> USE DEF ShellPart
<1>f1. ASSUME ShellFail("endpoint") PROVE ShellPart'
  <2>1. ~cell.waits /\ OpOf(cell.place) # CellImport.op
    BY <1>f1 DEF CellCall, ShellFail
  <2>2. source # "external" => source = "server" /\ cell.line = LineOf("v")
    <3> SUFFICES ASSUME source # "external" PROVE source = "server" /\ cell.line = LineOf("v")
      OBVIOUS
    <3>1. CellStep
      BY DEF SyncInv
    <3> QED
      BY <3>1, <2>1, PlaceFacts DEF CellStep, CellImport
  <2> QED
    BY <1>f1, <2>2, ShellFailShell
<1> SUFFICES ASSUME ~ShellFail("endpoint") PROVE ShellPart'
  BY <1>f1
<1>0. /\ sfault = "none"
      /\ ~cell.waits
      /\ io = NoIo
      /\ OpOf(cell.place) = CellImport.op
      /\ io' = Io(PeerOf(cell.place), CellImport.op, CellImport.fd, cell.line, cell.ord)
      /\ cell' = [cell EXCEPT !.waits = TRUE]
      /\ UNCHANGED <<source, llm, human, hmsg, typed, sensor, smsg, m33, matrix, masked, lit, sfault>>
  BY DEF CellCall, m33Vars
<1>a. /\ cell'.waits = TRUE /\ cell'.at = cell.at /\ cell'.place = cell.place
      /\ cell'.ord = cell.ord /\ cell'.line = cell.line
  BY <1>0 DEF ShellTypeOK, Cells
<1>b. /\ io'.to = PeerOf(cell.place) /\ io'.op = CellImport.op /\ io'.fd = CellImport.fd
      /\ io'.line = cell.line /\ io'.ord = cell.ord
  BY <1>0 DEF Io
<1>c. CellImport' = CellImport
  BY <1>a DEF CellImport
<1>d. io.to = "none"
  BY <1>0 DEF NoIo
<1>e. io'.to \in {"llm", "m33"}
  BY <1>b, PlaceFacts
<1>f. llm.pc \notin {"hear", "think"} /\ ~Drawing
  BY <1>d DEF CallInv
<1>1. ShellTypeOK'
  <2>1. cell' \in Cells
    BY <1>0, PlaceFacts, ChoreoFacts, OrdinalFacts, LineFacts, ShellAssumption DEF
       ShellTypeOK, Cells, HumanTexts, Givens, Attempts
  <2>2. io' \in Ios
    <3>1. CellImport.op \in {"path_open", "fd_read", "fd_write"}
      BY DEF CellImport, ShellTypeOK, Cells
    <3>2. CellImport.fd \in {"none", "stdin", "stdout", "face"}
      BY DEF CellImport, ShellTypeOK, Cells
    <3>3. cell.line \in Lines /\ cell.ord \in Ordinals
      BY DEF ShellTypeOK, Cells
    <3> QED
      BY <1>0, PlaceFacts, <3>1, <3>2, <3>3 DEF Io, Ios
  <2> QED
    BY <1>0, <2>1, <2>2 DEF ShellTypeOK
<1>2. CallInv'
  <2>1. ~Drawing' /\ llm' = llm
    BY <1>0, <1>f DEF Drawing
  <2>2. cell.at = "face" => cell.line.face \in GuestFaces
    BY DEF CallInv
  <2>3. OpOf(cell.place) = CellImport.op
    BY <1>0
  <2> QED
    BY <1>a, <1>b, <1>c, <1>f, <2>1, <2>2, <2>3 DEF CallInv
<1>3. SyncInv'
  <2> SUFFICES ASSUME source # "external"
               PROVE  CellStep' /\ LlmStep' /\ M33Step' /\ OrdinalStep' /\ LineStep'
    BY <1>0 DEF SyncInv
  <2>a. CellStep /\ LlmStep /\ M33Step /\ OrdinalStep /\ LineStep
    BY DEF SyncInv
  <2>1. CellStep'
    BY <1>0, <1>a, <1>d, <1>e, <2>a DEF CellStep
  <2>2. LlmStep'
    BY <1>0, <1>a, <1>d, <1>e, <2>a DEF LlmStep, LlmPlace, LlmAhead
  <2>3. M33Step'
    BY <1>0, <1>a, <1>d, <1>e, <2>a DEF M33Step, M33Place, M33Ahead
  <2>4. OrdinalStep'
    BY <1>0, <1>a, <1>d, <1>e, <2>a DEF OrdinalStep, LlmAhead, M33Ahead
  <2>5. LineStep'
    BY <1>0, <1>a, <1>d, <1>e, <2>a DEF LineStep, LlmAhead
  <2> QED
    BY <2>1, <2>2, <2>3, <2>4, <2>5
<1>4. TurnInv'
  BY <1>0 DEF TurnInv
<1>5. FaceInv'
  BY <1>0, <1>a, <1>d, <1>e DEF FaceInv, TurnLine, LlmAhead
<1>6. MatrixInv'
  BY <1>0 DEF MatrixInv
<1>7. ShellInStep'
  BY <1>0, PlaceFacts DEF ShellInStep
<1>8. MatrixWhole'
  BY <1>0 DEF MatrixWhole
<1> QED
  BY <1>1, <1>2, <1>3, <1>4, <1>5, <1>6, <1>7, <1>8

LEMMA LlmPathOpenShell ==
  ASSUME ShellPart, LlmPathOpen
  PROVE  ShellPart'
<1> USE DEF ShellPart
<1>0. /\ sfault = "none"
      /\ io.to = "llm"
      /\ io.op = "path_open"
      /\ llm.pc \in {"open", "open_stdout"}
      /\ io' = [io EXCEPT !.to = "cell", !.line = NoLine]
      /\ llm' = [llm EXCEPT !.pc = IF @ = "open" THEN "open_stdout" ELSE "write"]
      /\ UNCHANGED <<source, cell, human, hmsg, typed, sensor, smsg, m33, matrix, masked, lit, sfault>>
  BY DEF LlmPathOpen, LlmTakes, Answer, m33Vars
<1>1. ShellTypeOK'
  <2>1. io' \in Ios
    BY <1>0, PlaceFacts, ChoreoFacts, OrdinalFacts, LineFacts, ShellAssumption DEF
       ShellTypeOK, Ios, HumanTexts, Givens, Attempts
  <2>2. llm' \in Llms
    BY <1>0, PlaceFacts DEF ShellTypeOK, Llms
  <2> QED
    BY <1>0, <2>1, <2>2 DEF ShellTypeOK
<1>2. CallInv'
  BY <1>0, PlaceFacts DEF CallInv, NoIo, Drawing
<1>3. SyncInv'
  <2> SUFFICES ASSUME source # "external"
               PROVE  CellStep' /\ LlmStep' /\ M33Step' /\ OrdinalStep' /\ LineStep'
    BY <1>0 DEF SyncInv
  <2>a. CellStep /\ LlmStep /\ M33Step /\ OrdinalStep /\ LineStep
    BY DEF SyncInv
  <2>1. CellStep'
    BY <1>0, PlaceFacts, <2>a DEF CallInv, CellStep
  <2>2. LlmStep'
    BY <1>0, PlaceFacts, <2>a DEF LlmStep, LlmPlace, LlmAhead
  <2>3. M33Step'
    BY <1>0, PlaceFacts, <2>a DEF CallInv, NoIo, M33Step, M33Place
  <2>4. OrdinalStep'
    BY <1>0, PlaceFacts, <2>a DEF CallInv, OrdinalStep
  <2>5. LineStep'
    BY <1>0, PlaceFacts, <2>a DEF CallInv, LineStep
  <2> QED
    BY <2>1, <2>2, <2>3, <2>4, <2>5
<1>4. TurnInv'
  BY <1>0, PlaceFacts DEF TurnInv
<1>5. FaceInv'
  BY <1>0, PlaceFacts DEF CallInv, FaceInv
<1>6. MatrixInv'
  BY <1>0 DEF MatrixInv
<1>7. ShellInStep'
  BY <1>0 DEF ShellInStep
<1>8. MatrixWhole'
  BY <1>0 DEF MatrixWhole
<1> QED
  BY <1>1, <1>2, <1>3, <1>4, <1>5, <1>6, <1>7, <1>8

LEMMA LlmStdoutWriteShell ==
  ASSUME ShellPart, LlmStdoutWrite
  PROVE  ShellPart'
<1> USE DEF ShellPart
<1>f1. ASSUME ShellFail("fd") PROVE ShellPart'
  <2>1. io.fd # "stdout" /\ io.to = "llm" /\ io.op = "fd_write"
    BY <1>f1 DEF LlmStdoutWrite, LlmTakes, ShellFail
  <2>2. cell.place \in {4, 6, 9} /\ io.fd = CellImport.fd
    BY <2>1, PlaceFacts DEF CallInv, NoIo, ShellTypeOK, Cells
  <2>3. source = "external"
    <3> SUFFICES ASSUME source # "external" PROVE FALSE
      OBVIOUS
    <3>1. cell.at = "prompt"
      BY <2>2 DEF SyncInv, CellStep
    <3> QED
      BY <3>1, <2>1, <2>2 DEF CellImport
  <2> QED
    BY <1>f1, <2>3, ShellFailShell
<1> SUFFICES ASSUME ~ShellFail("fd") PROVE ShellPart'
  BY <1>f1
<1>0. /\ sfault = "none"
      /\ io.to = "llm"
      /\ io.op = "fd_write"
      /\ llm.pc = "write"
      /\ io.fd = "stdout"
      /\ io' = [io EXCEPT !.to = "cell", !.line = NoLine]
      /\ llm' = [llm EXCEPT !.pc = "read"]
      /\ UNCHANGED <<source, cell, human, hmsg, typed, sensor, smsg, m33, matrix, masked, lit, sfault>>
  BY DEF LlmStdoutWrite, LlmTakes, Answer, m33Vars
<1>1. ShellTypeOK'
  <2>1. io' \in Ios
    BY <1>0, PlaceFacts, ChoreoFacts, OrdinalFacts, LineFacts, ShellAssumption DEF
       ShellTypeOK, Ios, HumanTexts, Givens, Attempts
  <2>2. llm' \in Llms
    BY <1>0, PlaceFacts DEF ShellTypeOK, Llms
  <2> QED
    BY <1>0, <2>1, <2>2 DEF ShellTypeOK
<1>2. CallInv'
  BY <1>0, PlaceFacts DEF CallInv, NoIo, Drawing
<1>3. SyncInv'
  <2> SUFFICES ASSUME source # "external"
               PROVE  CellStep' /\ LlmStep' /\ M33Step' /\ OrdinalStep' /\ LineStep'
    BY <1>0 DEF SyncInv
  <2>a. CellStep /\ LlmStep /\ M33Step /\ OrdinalStep /\ LineStep
    BY DEF SyncInv
  <2>1. CellStep'
    <3>1. cell.place # 8
      BY <1>0, PlaceFacts DEF CallInv, NoIo
    <3> QED
      BY <1>0, PlaceFacts, <2>a, <3>1 DEF CellStep
  <2>2. LlmStep'
    BY <1>0, PlaceFacts, <2>a DEF CallInv, NoIo, LlmStep, LlmPlace, LlmAhead
  <2>3. M33Step'
    BY <1>0, PlaceFacts, <2>a DEF CallInv, M33Step, M33Place
  <2>4. OrdinalStep'
    BY <1>0, PlaceFacts, <2>a DEF CallInv, NoIo, OrdinalStep
  <2>5. LineStep'
    BY <1>0, PlaceFacts, <2>a DEF CallInv, LineStep
  <2> QED
    BY <2>1, <2>2, <2>3, <2>4, <2>5
<1>4. TurnInv'
  BY <1>0, PlaceFacts DEF TurnInv
<1>5. FaceInv'
  BY <1>0, PlaceFacts DEF CallInv, NoIo, FaceInv
<1>6. MatrixInv'
  BY <1>0 DEF MatrixInv
<1>7. ShellInStep'
  BY <1>0 DEF ShellInStep
<1>8. MatrixWhole'
  BY <1>0 DEF MatrixWhole
<1> QED
  BY <1>1, <1>2, <1>3, <1>4, <1>5, <1>6, <1>7, <1>8

LEMMA LlmStdinReadShell ==
  ASSUME ShellPart, LlmStdinRead
  PROVE  ShellPart'
<1> USE DEF ShellPart
<1>0. /\ io.to = "llm"
      /\ io.op = "fd_read"
      /\ llm.pc = "read"
      /\ hmsg' = [way |-> "req", val |-> "none"]
      /\ smsg' = "req"
      /\ llm' = [llm EXCEPT !.pc = "hear"]
      /\ UNCHANGED <<source, cell, io, human, typed, sensor, m33, matrix, masked, lit, sfault>>
  BY DEF LlmStdinRead, LlmTakes, m33Vars
<1>1. ShellTypeOK'
  <2>1. llm' \in Llms
    BY <1>0, PlaceFacts DEF ShellTypeOK, Llms
  <2>2. hmsg' \in [way : {"none", "req", "text", "ack"}, val : HumanTexts \cup {"none"}]
    BY <1>0, PlaceFacts
  <2>3. smsg' \in {"none", "req", "sample", "ack"}
    BY <1>0, PlaceFacts
  <2> QED
    BY <1>0, <2>1, <2>2, <2>3 DEF ShellTypeOK
<1>2. CallInv'
  BY <1>0, PlaceFacts, OrdinalFacts, LineFacts DEF ShellTypeOK, CallInv, CellImport, NoIo,
     Drawing, NoLine
<1>3. SyncInv'
  <2> SUFFICES ASSUME source # "external"
               PROVE  CellStep' /\ LlmStep' /\ M33Step' /\ OrdinalStep' /\ LineStep'
    BY <1>0 DEF SyncInv
  <2>a. CellStep /\ LlmStep /\ M33Step /\ OrdinalStep /\ LineStep
    BY DEF SyncInv
  <2>1. CellStep'
    BY <1>0, <2>a DEF CellStep
  <2>2. LlmStep'
    BY <1>0, PlaceFacts, <2>a DEF LlmStep, LlmPlace, LlmAhead
  <2>3. M33Step'
    BY <1>0, <2>a DEF M33Step, M33Place, M33Ahead
  <2>4. OrdinalStep'
    BY <1>0, PlaceFacts, <2>a DEF CallInv, OrdinalStep, LlmAhead
  <2>5. LineStep'
    BY <1>0, <2>a DEF LineStep, LlmAhead
  <2> QED
    BY <2>1, <2>2, <2>3, <2>4, <2>5
<1>4. TurnInv'
  BY <1>0, PlaceFacts DEF TurnInv
<1>5. FaceInv'
  BY <1>0 DEF FaceInv, TurnLine, LlmAhead
<1>6. MatrixInv'
  BY <1>0 DEF MatrixInv
<1>7. ShellInStep'
  BY <1>0 DEF ShellInStep
<1>8. MatrixWhole'
  BY <1>0 DEF MatrixWhole
<1> QED
  BY <1>1, <1>2, <1>3, <1>4, <1>5, <1>6, <1>7, <1>8

LEMMA LlmObserveShell ==
  ASSUME ShellPart, LlmObserve
  PROVE  ShellPart'
<1> USE DEF ShellPart
<1>0. /\ llm.pc = "hear"
      /\ hmsg.way = "text"
      /\ smsg = "sample"
      /\ hmsg' = [way |-> "ack", val |-> "none"]
      /\ smsg' = "ack"
      /\ llm' = [llm EXCEPT !.pc = "think", !.tries = 0, !.human = hmsg.val, !.given = sensor.given]
      /\ UNCHANGED <<source, cell, io, human, typed, sensor, m33, matrix, masked, lit, sfault>>
  BY DEF LlmObserve, m33Vars
<1>1. ShellTypeOK'
  <2>1. llm' \in Llms
    <3>1. hmsg.val \in HumanTexts
      BY <1>0 DEF TurnInv, ShellTypeOK
    <3>2. sensor.given \in Givens
      BY DEF ShellTypeOK, Sensors
    <3>3. llm' = [pc |-> "think", phase |-> llm.phase, ord |-> llm.ord, human |-> hmsg.val,
                  given |-> sensor.given, tries |-> 0]
      BY <1>0 DEF ShellTypeOK, Llms
    <3>4. 0 \in 0..(Attempts - 1) /\ llm.phase \in {0, 1} /\ llm.ord \in Ordinals
      BY DEF ShellTypeOK, Llms, Attempts
    <3> QED
      BY <3>1, <3>2, <3>3, <3>4 DEF Llms
  <2>2. hmsg' \in [way : {"none", "req", "text", "ack"}, val : HumanTexts \cup {"none"}]
    BY <1>0, PlaceFacts
  <2>3. smsg' \in {"none", "req", "sample", "ack"}
    BY <1>0, PlaceFacts
  <2> QED
    BY <1>0, <2>1, <2>2, <2>3 DEF ShellTypeOK
<1>2. CallInv'
  BY <1>0, PlaceFacts, OrdinalFacts, LineFacts DEF ShellTypeOK, CallInv, CellImport, NoIo,
     Drawing, NoLine
<1>3. SyncInv'
  <2> SUFFICES ASSUME source # "external"
               PROVE  CellStep' /\ LlmStep' /\ M33Step' /\ OrdinalStep' /\ LineStep'
    BY <1>0 DEF SyncInv
  <2>a. CellStep /\ LlmStep /\ M33Step /\ OrdinalStep /\ LineStep
    BY DEF SyncInv
  <2>1. CellStep'
    BY <1>0, <2>a DEF CellStep
  <2>2. LlmStep'
    BY <1>0, PlaceFacts, <2>a DEF LlmStep, LlmPlace, LlmAhead
  <2>3. M33Step'
    BY <1>0, <2>a DEF M33Step, M33Place, M33Ahead
  <2>4. OrdinalStep'
    BY <1>0, PlaceFacts, <2>a DEF CallInv, OrdinalStep, LlmAhead
  <2>5. LineStep'
    BY <1>0, <2>a DEF LineStep, LlmAhead
  <2> QED
    BY <2>1, <2>2, <2>3, <2>4, <2>5
<1>4. TurnInv'
  BY <1>0, PlaceFacts DEF TurnInv
<1>5. FaceInv'
  BY <1>0 DEF FaceInv, TurnLine, LlmAhead
<1>6. MatrixInv'
  BY <1>0 DEF MatrixInv
<1>7. ShellInStep'
  BY <1>0 DEF ShellInStep
<1>8. MatrixWhole'
  BY <1>0 DEF MatrixWhole
<1> QED
  BY <1>1, <1>2, <1>3, <1>4, <1>5, <1>6, <1>7, <1>8

LEMMA HumanTurnShell ==
  ASSUME ShellPart, HumanTurn
  PROVE  ShellPart'
<1> USE DEF ShellPart
<1>f1. ASSUME ShellFail("human") PROVE ShellPart'
  BY <1>f1, ShellFailShell
<1> SUFFICES ASSUME ~ShellFail("human") PROVE ShellPart'
  BY <1>f1
<1>0. /\ hmsg.way = "req"
      /\ (IF typed = "none" THEN human.latest ELSE typed) # "not_utf8"
      /\ human' = [pc |-> "sent", latest |-> IF typed = "none" THEN human.latest ELSE typed]
      /\ typed' = "none"
      /\ hmsg' = [way |-> "text", val |-> IF typed = "none" THEN human.latest ELSE typed]
      /\ UNCHANGED <<source, cell, io, llm, sensor, smsg, m33, matrix, masked, lit, sfault>>
  BY DEF HumanTurn, m33Vars
<1>a. llm.pc = "hear"
  BY <1>0 DEF TurnInv
<1>b. io.to = "llm" /\ io.op = "fd_read"
  BY <1>a DEF CallInv
<1>c. cell.place # 8
  BY <1>b, PlaceFacts DEF CallInv
<1>1. ShellTypeOK'
  <2>1. human' \in [pc : {"idle", "sent"}, latest : HumanTexts]
    BY <1>0, PlaceFacts DEF ShellTypeOK
  <2>2. hmsg' \in [way : {"none", "req", "text", "ack"}, val : HumanTexts \cup {"none"}]
    BY <1>0, PlaceFacts DEF ShellTypeOK
  <2>3. typed' \in HumanTexts \cup {"none", "not_utf8"}
    BY <1>0, PlaceFacts
  <2> QED
    BY <1>0, <2>1, <2>2, <2>3 DEF ShellTypeOK
<1>2. CallInv'
  BY <1>0 DEF CallInv, CellImport, Drawing
<1>3. SyncInv'
  BY <1>0 DEF SyncInv, CellStep, LlmStep, M33Step, OrdinalStep, LineStep, LlmPlace,
     M33Place, LlmAhead, M33Ahead
<1>4. TurnInv'
  BY <1>0, PlaceFacts DEF TurnInv
<1>5. FaceInv'
  BY <1>0, <1>b, <1>c DEF FaceInv, LlmAhead
<1>6. MatrixInv'
  BY <1>0 DEF MatrixInv
<1>7. ShellInStep'
  BY <1>0 DEF ShellInStep
<1>8. MatrixWhole'
  BY <1>0 DEF MatrixWhole
<1> QED
  BY <1>1, <1>2, <1>3, <1>4, <1>5, <1>6, <1>7, <1>8

LEMMA HumanAckedShell ==
  ASSUME ShellPart, HumanAcked
  PROVE  ShellPart'
<1> USE DEF ShellPart
<1>0. /\ hmsg.way = "ack"
      /\ human' = [human EXCEPT !.pc = "idle"]
      /\ hmsg' = [way |-> "none", val |-> "none"]
      /\ UNCHANGED <<source, cell, io, llm, typed, sensor, smsg, m33, matrix, masked, lit, sfault>>
  BY DEF HumanAcked, NoTurn, m33Vars
<1>1. ShellTypeOK'
  <2>1. human' \in [pc : {"idle", "sent"}, latest : HumanTexts]
    BY <1>0, PlaceFacts DEF ShellTypeOK
  <2>2. hmsg' \in [way : {"none", "req", "text", "ack"}, val : HumanTexts \cup {"none"}]
    BY <1>0, PlaceFacts
  <2> QED
    BY <1>0, <2>1, <2>2 DEF ShellTypeOK
<1>2. CallInv'
  BY <1>0 DEF CallInv, CellImport, Drawing
<1>3. SyncInv'
  BY <1>0 DEF SyncInv, CellStep, LlmStep, M33Step, OrdinalStep, LineStep, LlmPlace,
     M33Place, LlmAhead, M33Ahead
<1>4. TurnInv'
  BY <1>0, PlaceFacts DEF TurnInv
<1>5. FaceInv'
  BY <1>0, PlaceFacts DEF FaceInv, TurnLine, LlmAhead
<1>6. MatrixInv'
  BY <1>0 DEF MatrixInv
<1>7. ShellInStep'
  BY <1>0 DEF ShellInStep
<1>8. MatrixWhole'
  BY <1>0 DEF MatrixWhole
<1> QED
  BY <1>1, <1>2, <1>3, <1>4, <1>5, <1>6, <1>7, <1>8

LEMMA HumanTypesShell ==
  ASSUME ShellPart, HumanTypes
  PROVE  ShellPart'
<1> USE DEF ShellPart
<1>0. /\ typed' \in HumanTexts \cup {"not_utf8"}
      /\ UNCHANGED <<source, cell, io, llm, human, hmsg, sensor, smsg, m33, matrix, masked, lit, sfault>>
  BY DEF HumanTypes, m33Vars
<1>1. ShellTypeOK'
  <2>1. typed' \in HumanTexts \cup {"none", "not_utf8"}
    BY <1>0, PlaceFacts
  <2> QED
    BY <1>0, <2>1 DEF ShellTypeOK
<1>2. CallInv'
  BY <1>0 DEF CallInv, CellImport, Drawing
<1>3. SyncInv'
  BY <1>0 DEF SyncInv, CellStep, LlmStep, M33Step, OrdinalStep, LineStep, LlmPlace,
     M33Place, LlmAhead, M33Ahead
<1>4. TurnInv'
  BY <1>0 DEF TurnInv
<1>5. FaceInv'
  BY <1>0 DEF FaceInv, TurnLine, LlmAhead
<1>6. MatrixInv'
  BY <1>0 DEF MatrixInv
<1>7. ShellInStep'
  BY <1>0 DEF ShellInStep
<1>8. MatrixWhole'
  BY <1>0 DEF MatrixWhole
<1> QED
  BY <1>1, <1>2, <1>3, <1>4, <1>5, <1>6, <1>7, <1>8

LEMMA SensorTurnShell ==
  ASSUME ShellPart, UdpTypeOK, SensorTurn
  PROVE  ShellPart'
<1> USE DEF ShellPart
<1>0. /\ smsg = "req"
      /\ sensor' = [pc |-> "sent", latest |-> IF inbox = NoSample THEN sensor.latest ELSE inbox, age |-> SampleAge,
                   given |-> NextSample(IF inbox = NoSample THEN sensor.latest ELSE inbox, SampleAge)]
      /\ smsg' = "sample"
      /\ UNCHANGED <<source, cell, io, llm, human, hmsg, typed, m33, matrix, masked, lit, sfault>>
  BY DEF SensorTurn, m33Vars
<1>a. llm.pc = "hear"
  BY <1>0 DEF TurnInv
<1>b. io.to = "llm" /\ io.op = "fd_read"
  BY <1>a DEF CallInv
<1>c. cell.place # 8
  BY <1>b, PlaceFacts DEF CallInv
<1>1. ShellTypeOK'
  <2>1. sensor' \in Sensors
    <3> DEFINE latest == IF inbox = NoSample THEN sensor.latest ELSE inbox
    <3>1. latest \in Seqs \cup {NoSample}
      BY DEF ShellTypeOK, Sensors, UdpTypeOK
    <3>2. SampleAge \in 0..(StaleAfter + 1)
      BY ShellAssumption DEF SampleAge, ShellTypeOK, Sensors
    <3>3. Pending \in Givens
      BY DEF Pending, Givens
    <3>4. NextSample(latest, SampleAge) \in Givens
      BY <3>1, <3>3 DEF NextSample, Givens
    <3>5. sensor' = [pc |-> "sent", latest |-> latest, age |-> SampleAge,
                     given |-> NextSample(latest, SampleAge)]
      BY <1>0
    <3> HIDE DEF latest
    <3> QED
      BY <3>1, <3>2, <3>4, <3>5 DEF Sensors
  <2>2. smsg' \in {"none", "req", "sample", "ack"}
    BY <1>0, PlaceFacts
  <2> QED
    BY <1>0, <2>1, <2>2 DEF ShellTypeOK
<1>2. CallInv'
  BY <1>0 DEF CallInv, CellImport, Drawing
<1>3. SyncInv'
  BY <1>0 DEF SyncInv, CellStep, LlmStep, M33Step, OrdinalStep, LineStep, LlmPlace,
     M33Place, LlmAhead, M33Ahead
<1>4. TurnInv'
  BY <1>0, PlaceFacts DEF TurnInv
<1>5. FaceInv'
  BY <1>0, <1>b, <1>c DEF FaceInv, LlmAhead
<1>6. MatrixInv'
  BY <1>0 DEF MatrixInv
<1>7. ShellInStep'
  BY <1>0 DEF ShellInStep
<1>8. MatrixWhole'
  BY <1>0 DEF MatrixWhole
<1> QED
  BY <1>1, <1>2, <1>3, <1>4, <1>5, <1>6, <1>7, <1>8

LEMMA SensorAckedShell ==
  ASSUME ShellPart, SensorAcked
  PROVE  ShellPart'
<1> USE DEF ShellPart
<1>0. /\ smsg = "ack"
      /\ sensor' = [sensor EXCEPT !.pc = "idle"]
      /\ smsg' = "none"
      /\ UNCHANGED <<source, cell, io, llm, human, hmsg, typed, m33, matrix, masked, lit, sfault>>
  BY DEF SensorAcked, m33Vars
<1>1. ShellTypeOK'
  <2>1. sensor' \in Sensors
    BY <1>0, PlaceFacts DEF ShellTypeOK, Sensors
  <2>2. smsg' \in {"none", "req", "sample", "ack"}
    BY <1>0, PlaceFacts
  <2> QED
    BY <1>0, <2>1, <2>2 DEF ShellTypeOK
<1>2. CallInv'
  BY <1>0 DEF CallInv, CellImport, Drawing
<1>3. SyncInv'
  BY <1>0 DEF SyncInv, CellStep, LlmStep, M33Step, OrdinalStep, LineStep, LlmPlace,
     M33Place, LlmAhead, M33Ahead
<1>4. TurnInv'
  BY <1>0, PlaceFacts DEF TurnInv
<1>5. FaceInv'
  BY <1>0, PlaceFacts DEF FaceInv, TurnLine, LlmAhead
<1>6. MatrixInv'
  BY <1>0 DEF MatrixInv
<1>7. ShellInStep'
  BY <1>0 DEF ShellInStep
<1>8. MatrixWhole'
  BY <1>0 DEF MatrixWhole
<1> QED
  BY <1>1, <1>2, <1>3, <1>4, <1>5, <1>6, <1>7, <1>8

LEMMA TickShell ==
  ASSUME ShellPart, Tick
  PROVE  ShellPart'
<1> USE DEF ShellPart
<1>0. /\ sensor.age <= StaleAfter
      /\ sensor' = [sensor EXCEPT !.age = @ + 1]
      /\ UNCHANGED <<source, cell, io, llm, human, hmsg, typed, smsg, m33, matrix, masked, lit, sfault>>
  BY DEF Tick, m33Vars
<1>1. ShellTypeOK'
  <2>1. sensor' \in Sensors
    BY <1>0, PlaceFacts, ShellAssumption DEF ShellTypeOK, Sensors
  <2> QED
    BY <1>0, <2>1 DEF ShellTypeOK
<1>2. CallInv'
  BY <1>0 DEF CallInv, CellImport, Drawing
<1>3. SyncInv'
  BY <1>0 DEF SyncInv, CellStep, LlmStep, M33Step, OrdinalStep, LineStep, LlmPlace,
     M33Place, LlmAhead, M33Ahead
<1>4. TurnInv'
  BY <1>0, PlaceFacts DEF TurnInv
<1>5. FaceInv'
  BY <1>0, PlaceFacts DEF FaceInv, TurnLine, LlmAhead
<1>6. MatrixInv'
  BY <1>0 DEF MatrixInv
<1>7. ShellInStep'
  BY <1>0 DEF ShellInStep
<1>8. MatrixWhole'
  BY <1>0 DEF MatrixWhole
<1> QED
  BY <1>1, <1>2, <1>3, <1>4, <1>5, <1>6, <1>7, <1>8

LEMMA M33PathOpenShell ==
  ASSUME ShellPart, M33PathOpen
  PROVE  ShellPart'
<1> USE DEF ShellPart
<1>0. /\ io.to = "m33"
      /\ io.op = "path_open"
      /\ m33.pc = "open"
      /\ io' = [io EXCEPT !.to = "cell", !.line = NoLine]
      /\ m33' = [m33 EXCEPT !.pc = "offer"]
      /\ UNCHANGED <<source, cell, llm, human, hmsg, typed, sensor, smsg, matrix, masked, lit, sfault>>
  BY DEF M33PathOpen, M33Takes, Answer, m33Vars
<1>1. ShellTypeOK'
  <2>1. io' \in Ios
    BY <1>0, PlaceFacts, ChoreoFacts, OrdinalFacts, LineFacts, ShellAssumption DEF
       ShellTypeOK, Ios, HumanTexts, Givens, Attempts
  <2>2. m33' \in M33s
    BY <1>0, PlaceFacts DEF ShellTypeOK, M33s
  <2> QED
    BY <1>0, <2>1, <2>2 DEF ShellTypeOK
<1>2. CallInv'
  BY <1>0, PlaceFacts DEF CallInv, NoIo, Drawing
<1>3. SyncInv'
  <2> SUFFICES ASSUME source # "external"
               PROVE  CellStep' /\ LlmStep' /\ M33Step' /\ OrdinalStep' /\ LineStep'
    BY <1>0 DEF SyncInv
  <2>a. CellStep /\ LlmStep /\ M33Step /\ OrdinalStep /\ LineStep
    BY DEF SyncInv
  <2>1. CellStep'
    BY <1>0, PlaceFacts, <2>a DEF CallInv, CellStep
  <2>2. LlmStep'
    BY <1>0, PlaceFacts, <2>a DEF CallInv, NoIo, LlmStep, LlmPlace
  <2>3. M33Step'
    BY <1>0, PlaceFacts, <2>a DEF CallInv, NoIo, M33Step, M33Place, M33Ahead
  <2>4. OrdinalStep'
    BY <1>0, PlaceFacts, <2>a DEF CallInv, OrdinalStep
  <2>5. LineStep'
    BY <1>0, PlaceFacts, <2>a DEF CallInv, LineStep
  <2> QED
    BY <2>1, <2>2, <2>3, <2>4, <2>5
<1>4. TurnInv'
  BY <1>0 DEF TurnInv
<1>5. FaceInv'
  BY <1>0, PlaceFacts DEF CallInv, FaceInv
<1>6. MatrixInv'
  BY <1>0, PlaceFacts DEF MatrixInv
<1>7. ShellInStep'
  BY <1>0 DEF ShellInStep
<1>8. MatrixWhole'
  BY <1>0 DEF MatrixWhole
<1> QED
  BY <1>1, <1>2, <1>3, <1>4, <1>5, <1>6, <1>7, <1>8

LEMMA M33FrameShell ==
  ASSUME ShellPart, M33Frame
  PROVE  ShellPart'
<1> USE DEF ShellPart
<1>f1. ASSUME ShellFail("fd") PROVE ShellPart'
  <2>1. io.fd # "face" /\ io.to = "m33" /\ io.op = "fd_write"
    BY <1>f1 DEF M33Frame, M33Takes, ShellFail
  <2>2. cell.place = 8 /\ io.fd = CellImport.fd
    BY <2>1, PlaceFacts DEF CallInv, NoIo, ShellTypeOK, Cells
  <2>3. source # "external" => source = "server" /\ cell.line = LineOf("v")
    BY <2>1, <2>2 DEF SyncInv, CellStep, CellImport
  <2> QED
    BY <1>f1, <2>3, ShellFailShell
<1>f2. ASSUME ShellFail("ordinal") PROVE ShellPart'
  <2>1. io.ord # m33.ord /\ io.to = "m33"
    BY <1>f2 DEF M33Frame, M33Takes, ShellFail
  <2>2. io.ord = cell.ord
    BY <2>1 DEF CallInv
  <2>3. source = "external"
    BY <2>1, <2>2 DEF SyncInv, OrdinalStep, M33Ahead
  <2> QED
    BY <1>f2, <2>3, ShellFailShell
<1> SUFFICES ASSUME ~ShellFail("fd"), ~ShellFail("ordinal") PROVE ShellPart'
  BY <1>f1, <1>f2
<1>0. /\ io.to = "m33"
      /\ io.op = "fd_write"
      /\ m33.pc = "offer"
      /\ io.fd = "face"
      /\ io.ord = m33.ord
      /\ m33' = [m33 EXCEPT !.pc = "mask", !.face = io.line.face]
      /\ UNCHANGED <<source, cell, io, llm, human, hmsg, typed, sensor, smsg, matrix, masked, lit, sfault>>
  BY DEF M33Frame, M33Takes, m33Vars
<1>a. cell.place = 8 /\ io.fd = CellImport.fd /\ io.line = cell.line /\ io.ord = cell.ord
  BY <1>0, PlaceFacts DEF CallInv, NoIo
<1>b. cell.at = "face"
  BY <1>0, <1>a DEF CellImport, ShellTypeOK, Cells
<1>c. cell.line.face \in GuestFaces
  BY <1>b DEF CallInv
<1>1. ShellTypeOK'
  <2>1. m33' \in M33s
    BY <1>0, <1>a, <1>c DEF ShellTypeOK, M33s
  <2> QED
    BY <1>0, <2>1 DEF ShellTypeOK
<1>2. CallInv'
  <2>1. m33'.pc = "mask" /\ m33'.face = cell.line.face
    BY <1>0, <1>a DEF ShellTypeOK, M33s
  <2> QED
    BY <1>0, <1>a, <1>b, <2>1 DEF CallInv, CellImport
<1>3. SyncInv'
  <2> SUFFICES ASSUME source # "external"
               PROVE  CellStep' /\ LlmStep' /\ M33Step' /\ OrdinalStep' /\ LineStep'
    BY <1>0 DEF SyncInv
  <2>a. CellStep /\ LlmStep /\ M33Step /\ OrdinalStep /\ LineStep
    BY DEF SyncInv
  <2>1. CellStep'
    BY <1>0, <2>a DEF CellStep
  <2>2. LlmStep'
    BY <1>0, <2>a DEF LlmStep, LlmPlace, LlmAhead
  <2>3. M33Step'
    BY <1>0, PlaceFacts, <2>a DEF CallInv, M33Step, M33Place
  <2>4. OrdinalStep'
    BY <1>0, PlaceFacts, <2>a DEF CallInv, OrdinalStep, M33Ahead
  <2>5. LineStep'
    BY <1>0, <2>a DEF LineStep, LlmAhead
  <2> QED
    BY <2>1, <2>2, <2>3, <2>4, <2>5
<1>4. TurnInv'
  BY <1>0 DEF TurnInv
<1>5. FaceInv'
  BY <1>0 DEF FaceInv, TurnLine, LlmAhead
<1>6. MatrixInv'
  BY <1>0, PlaceFacts DEF MatrixInv
<1>7. ShellInStep'
  BY <1>0 DEF ShellInStep
<1>8. MatrixWhole'
  BY <1>0 DEF MatrixWhole
<1> QED
  BY <1>1, <1>2, <1>3, <1>4, <1>5, <1>6, <1>7, <1>8

LEMMA M33MaskShell ==
  ASSUME ShellPart, M33Mask
  PROVE  ShellPart'
<1> USE DEF ShellPart
<1>0. /\ m33.pc = "mask"
      /\ masked' = TRUE
      /\ m33' = [m33 EXCEPT !.pc = "clear"]
      /\ UNCHANGED <<source, cell, io, llm, human, hmsg, typed, sensor, smsg, matrix, lit, sfault>>
  BY DEF M33Mask, m33Vars
<1>1. ShellTypeOK'
  <2>1. m33' \in M33s
    BY <1>0, PlaceFacts DEF ShellTypeOK, M33s
  <2>2. masked' \in BOOLEAN
    BY <1>0, PlaceFacts
  <2> QED
    BY <1>0, <2>1, <2>2 DEF ShellTypeOK
<1>2. CallInv'
  BY <1>0, PlaceFacts DEF CallInv, CellImport, Drawing
<1>3. SyncInv'
  <2> SUFFICES ASSUME source # "external"
               PROVE  CellStep' /\ LlmStep' /\ M33Step' /\ OrdinalStep' /\ LineStep'
    BY <1>0 DEF SyncInv
  <2>a. CellStep /\ LlmStep /\ M33Step /\ OrdinalStep /\ LineStep
    BY DEF SyncInv
  <2>1. CellStep'
    BY <1>0, <2>a DEF CellStep
  <2>2. LlmStep'
    BY <1>0, <2>a DEF LlmStep, LlmPlace, LlmAhead
  <2>3. M33Step'
    BY <1>0, PlaceFacts, <2>a DEF CallInv, Drawing, M33Step, M33Place
  <2>4. OrdinalStep'
    BY <1>0, PlaceFacts, <2>a DEF CallInv, Drawing, OrdinalStep, M33Ahead
  <2>5. LineStep'
    BY <1>0, <2>a DEF LineStep, LlmAhead
  <2> QED
    BY <2>1, <2>2, <2>3, <2>4, <2>5
<1>4. TurnInv'
  BY <1>0 DEF TurnInv
<1>5. FaceInv'
  BY <1>0 DEF FaceInv, TurnLine, LlmAhead
<1>6. MatrixInv'
  BY <1>0, PlaceFacts DEF MatrixInv
<1>7. ShellInStep'
  BY <1>0 DEF ShellInStep
<1>8. MatrixWhole'
  BY <1>0 DEF MatrixWhole
<1> QED
  BY <1>1, <1>2, <1>3, <1>4, <1>5, <1>6, <1>7, <1>8

LEMMA M33ClearShell ==
  ASSUME ShellPart, M33Clear
  PROVE  ShellPart'
<1> USE DEF ShellPart
<1>0. /\ m33.pc = "clear"
      /\ matrix' = "partial"
      /\ m33' = [m33 EXCEPT !.pc = "draw"]
      /\ UNCHANGED <<source, cell, io, llm, human, hmsg, typed, sensor, smsg, masked, lit, sfault>>
  BY DEF M33Clear, m33Vars
<1>1. ShellTypeOK'
  <2>1. m33' \in M33s
    BY <1>0, PlaceFacts DEF ShellTypeOK, M33s
  <2>2. matrix' \in Matrices
    BY <1>0, PlaceFacts DEF Matrices
  <2> QED
    BY <1>0, <2>1, <2>2 DEF ShellTypeOK
<1>2. CallInv'
  BY <1>0, PlaceFacts DEF CallInv, CellImport, Drawing
<1>3. SyncInv'
  <2> SUFFICES ASSUME source # "external"
               PROVE  CellStep' /\ LlmStep' /\ M33Step' /\ OrdinalStep' /\ LineStep'
    BY <1>0 DEF SyncInv
  <2>a. CellStep /\ LlmStep /\ M33Step /\ OrdinalStep /\ LineStep
    BY DEF SyncInv
  <2>1. CellStep'
    BY <1>0, <2>a DEF CellStep
  <2>2. LlmStep'
    BY <1>0, <2>a DEF LlmStep, LlmPlace, LlmAhead
  <2>3. M33Step'
    BY <1>0, PlaceFacts, <2>a DEF CallInv, Drawing, M33Step, M33Place
  <2>4. OrdinalStep'
    BY <1>0, PlaceFacts, <2>a DEF CallInv, Drawing, OrdinalStep, M33Ahead
  <2>5. LineStep'
    BY <1>0, <2>a DEF LineStep, LlmAhead
  <2> QED
    BY <2>1, <2>2, <2>3, <2>4, <2>5
<1>4. TurnInv'
  BY <1>0 DEF TurnInv
<1>5. FaceInv'
  BY <1>0 DEF FaceInv, TurnLine, LlmAhead
<1>6. MatrixInv'
  BY <1>0, PlaceFacts DEF MatrixInv
<1>7. ShellInStep'
  BY <1>0 DEF ShellInStep
<1>8. MatrixWhole'
  BY <1>0 DEF MatrixWhole
<1> QED
  BY <1>1, <1>2, <1>3, <1>4, <1>5, <1>6, <1>7, <1>8

LEMMA M33DrawShell ==
  ASSUME ShellPart, M33Draw
  PROVE  ShellPart'
<1> USE DEF ShellPart
<1>0. /\ m33.pc = "draw"
      /\ matrix' = m33.face
      /\ masked' = FALSE
      /\ m33' = [m33 EXCEPT !.pc = "shown"]
      /\ UNCHANGED <<source, cell, io, llm, human, hmsg, typed, sensor, smsg, lit, sfault>>
  BY DEF M33Draw, m33Vars
<1>a. m33.face \in GuestFaces
  BY <1>0 DEF CallInv, Drawing
<1>1. ShellTypeOK'
  <2>1. m33' \in M33s
    BY <1>0, PlaceFacts DEF ShellTypeOK, M33s
  <2>2. matrix' \in Matrices
    BY <1>0, <1>a DEF Matrices
  <2>3. masked' \in BOOLEAN
    BY <1>0, PlaceFacts, ChoreoFacts, OrdinalFacts, LineFacts, ShellAssumption DEF
       ShellTypeOK, HumanTexts, Givens, Attempts
  <2> QED
    BY <1>0, <2>1, <2>2, <2>3 DEF ShellTypeOK
<1>2. CallInv'
  BY <1>0, PlaceFacts DEF CallInv, CellImport, Drawing
<1>3. SyncInv'
  <2> SUFFICES ASSUME source # "external"
               PROVE  CellStep' /\ LlmStep' /\ M33Step' /\ OrdinalStep' /\ LineStep'
    BY <1>0 DEF SyncInv
  <2>a. CellStep /\ LlmStep /\ M33Step /\ OrdinalStep /\ LineStep
    BY DEF SyncInv
  <2>1. CellStep'
    BY <1>0, <2>a DEF CellStep
  <2>2. LlmStep'
    BY <1>0, <2>a DEF LlmStep, LlmPlace, LlmAhead
  <2>3. M33Step'
    BY <1>0, PlaceFacts, <2>a DEF CallInv, Drawing, M33Step, M33Place
  <2>4. OrdinalStep'
    BY <1>0, PlaceFacts, <2>a DEF CallInv, Drawing, OrdinalStep, M33Ahead
  <2>5. LineStep'
    BY <1>0, <2>a DEF LineStep, LlmAhead
  <2> QED
    BY <2>1, <2>2, <2>3, <2>4, <2>5
<1>4. TurnInv'
  BY <1>0 DEF TurnInv
<1>5. FaceInv'
  BY <1>0 DEF FaceInv, TurnLine, LlmAhead
<1>6. MatrixInv'
  <2>1. matrix' # "partial" /\ masked' = FALSE /\ m33'.pc = "shown"
    BY <1>0, <1>a DEF GuestFaces, ShellTypeOK, M33s
  <2> QED
    BY <2>1 DEF MatrixInv
<1>7. ShellInStep'
  BY <1>0 DEF ShellInStep
<1>8. MatrixWhole'
  BY <1>0 DEF MatrixWhole
<1> QED
  BY <1>1, <1>2, <1>3, <1>4, <1>5, <1>6, <1>7, <1>8

LEMMA M33DoneShell ==
  ASSUME ShellPart, M33Done
  PROVE  ShellPart'
<1> USE DEF ShellPart
<1>0. /\ m33.pc = "shown"
      /\ io' = [io EXCEPT !.to = "cell", !.line = NoLine]
      /\ m33' = [pc |-> "offer", ord |-> (m33.ord + 1) % OrdinalModulus, face |-> "none"]
      /\ UNCHANGED <<source, cell, llm, human, hmsg, typed, sensor, smsg, matrix, masked, lit, sfault>>
  BY DEF M33Done, Answer, m33Vars
<1>1. ShellTypeOK'
  <2>1. io' \in Ios
    BY <1>0, PlaceFacts, ChoreoFacts, OrdinalFacts, LineFacts, ShellAssumption DEF
       ShellTypeOK, Ios, HumanTexts, Givens, Attempts
  <2>2. m33' \in M33s
    BY <1>0, PlaceFacts, OrdinalFacts DEF ShellTypeOK, M33s
  <2> QED
    BY <1>0, <2>1, <2>2 DEF ShellTypeOK
<1>2. CallInv'
  BY <1>0, PlaceFacts DEF CallInv, NoIo, Drawing
<1>3. SyncInv'
  <2> SUFFICES ASSUME source # "external"
               PROVE  CellStep' /\ LlmStep' /\ M33Step' /\ OrdinalStep' /\ LineStep'
    BY <1>0 DEF SyncInv
  <2>a. CellStep /\ LlmStep /\ M33Step /\ OrdinalStep /\ LineStep
    BY DEF SyncInv
  <2>1. CellStep'
    BY <1>0, PlaceFacts, <2>a DEF CallInv, Drawing, CellStep
  <2>2. LlmStep'
    BY <1>0, PlaceFacts, <2>a DEF CallInv, Drawing, LlmStep, LlmPlace
  <2>3. M33Step'
    BY <1>0, PlaceFacts, <2>a DEF CallInv, Drawing, M33Step, M33Place
  <2>4. OrdinalStep'
    BY <1>0, PlaceFacts, <2>a DEF CallInv, Drawing, OrdinalStep, M33Ahead
  <2>5. LineStep'
    BY <1>0, PlaceFacts, <2>a DEF CallInv, Drawing, LineStep
  <2> QED
    BY <2>1, <2>2, <2>3, <2>4, <2>5
<1>4. TurnInv'
  BY <1>0 DEF TurnInv
<1>5. FaceInv'
  BY <1>0, PlaceFacts DEF CallInv, Drawing, FaceInv, TurnLine
<1>6. MatrixInv'
  BY <1>0, PlaceFacts DEF MatrixInv
<1>7. ShellInStep'
  BY <1>0 DEF ShellInStep
<1>8. MatrixWhole'
  BY <1>0 DEF MatrixWhole
<1> QED
  BY <1>1, <1>2, <1>3, <1>4, <1>5, <1>6, <1>7, <1>8

LEMMA SystickShell ==
  ASSUME ShellPart, Systick
  PROVE  ShellPart'
<1> USE DEF ShellPart
<1>0. /\ ~masked
      /\ lit' = matrix
      /\ UNCHANGED <<source, cell, io, llm, human, hmsg, typed, sensor, smsg, m33, matrix, masked, sfault>>
  BY DEF Systick, m33Vars
<1>1. ShellTypeOK'
  <2>1. lit' \in Matrices
    BY <1>0, PlaceFacts DEF ShellTypeOK
  <2> QED
    BY <1>0, <2>1 DEF ShellTypeOK
<1>2. CallInv'
  BY <1>0 DEF CallInv, CellImport, Drawing
<1>3. SyncInv'
  BY <1>0 DEF SyncInv, CellStep, LlmStep, M33Step, OrdinalStep, LineStep, LlmPlace,
     M33Place, LlmAhead, M33Ahead
<1>4. TurnInv'
  BY <1>0 DEF TurnInv
<1>5. FaceInv'
  BY <1>0 DEF FaceInv, TurnLine, LlmAhead
<1>6. MatrixInv'
  BY <1>0 DEF MatrixInv
<1>7. ShellInStep'
  BY <1>0 DEF ShellInStep
<1>8. MatrixWhole'
  <2>1. m33.pc # "draw"
    BY <1>0, Zenon DEF MatrixInv
  <2> QED
    BY <1>0, <2>1 DEF MatrixInv, MatrixWhole
<1> QED
  BY <1>1, <1>2, <1>3, <1>4, <1>5, <1>6, <1>7, <1>8

LEMMA CellReturnShell ==
  ASSUME ShellPart, CellReturn
  PROVE  ShellPart'
<1> USE DEF ShellPart
<1>0. /\ sfault = "none"
      /\ cell.waits
      /\ io.to = "cell"
      /\ io' = NoIo
      /\ cell' = [cell EXCEPT
         !.waits = FALSE,
         !.place = NextOf(cell.place),
         !.line  = CASE cell.at = "read" -> io.line [] cell.at = "prompt" -> NoLine [] OTHER -> cell.line,
         !.ord   = IF cell.at = "face" THEN (cell.ord + 1) % OrdinalModulus ELSE cell.ord,
         !.at    = CASE cell.at = "open" -> IF cell.place < 3 THEN "open" ELSE "prompt"
                     [] cell.at = "read" -> GuestRuns(io.line)
                     [] cell.at = "face" -> "prompt"
                     [] cell.at = "prompt" -> "read"]
      /\ UNCHANGED <<source, llm, human, hmsg, typed, sensor, smsg, m33, matrix, masked, lit, sfault>>
  BY DEF CellReturn, m33Vars
<1>a. /\ cell'.waits = FALSE
      /\ cell'.place = NextOf(cell.place)
      /\ cell'.line = IF cell.at = "read" THEN io.line ELSE IF cell.at = "prompt" THEN NoLine ELSE cell.line
      /\ cell'.ord = IF cell.at = "face" THEN (cell.ord + 1) % OrdinalModulus ELSE cell.ord
      /\ cell.at = "open" => cell'.at = IF cell.place < 3 THEN "open" ELSE "prompt"
      /\ cell.at = "read" => cell'.at = GuestRuns(io.line)
      /\ cell.at = "face" => cell'.at = "prompt"
      /\ cell.at = "prompt" => cell'.at = "read"
  BY <1>0 DEF ShellTypeOK, Cells
<1>b. cell.at \in {"open", "read", "face", "prompt"} /\ io.line \in Lines /\ cell.line \in Lines
  BY DEF ShellTypeOK, Cells, Ios
<1>c. GuestRuns(io.line) \in {"face", "prompt"}
  BY DEF GuestRuns
<1>d. GuestRuns(io.line) = "face" => io.line.face \in GuestFaces
  BY DEF GuestRuns
<1>e. llm.pc \notin {"hear", "think"} /\ ~Drawing
  BY <1>0 DEF CallInv
<1>f. cell'.at \in {"open", "read", "face", "prompt"}
  BY <1>a, <1>b, <1>c
<1>g. GuestRuns(LineOf("v")) = "prompt"
  BY DEF GuestRuns, LineOf, Line, GuestFaces
<1>1. ShellTypeOK'
  <2>1. cell' \in Cells
    <3>1. (IF cell.at = "face" THEN (cell.ord + 1) % OrdinalModulus ELSE cell.ord) \in Ordinals
      BY OrdinalFacts DEF ShellTypeOK, Cells
    <3>2. cell'.line \in Lines
      BY <1>a, <1>b, LineFacts
    <3>3. cell'.place \in 1..Len(Choreo)
      BY <1>a, PlaceFacts, ChoreoFacts
    <3>4. cell' = [at |-> cell'.at, waits |-> cell'.waits, place |-> cell'.place,
                   ord |-> cell'.ord, line |-> cell'.line]
      BY <1>0 DEF ShellTypeOK, Cells
    <3> QED
      BY <1>a, <1>f, <3>1, <3>2, <3>3, <3>4 DEF Cells
  <2>2. io' \in Ios
    BY <1>0, LineFacts, OrdinalFacts DEF NoIo, Ios
  <2> QED
    BY <1>0, <2>1, <2>2 DEF ShellTypeOK
<1>2. CallInv'
  <2>1. cell'.at = "face" => cell.at = "read" /\ GuestRuns(io.line) = "face"
    BY <1>a, <1>b
  <2>2. cell'.at = "face" => cell'.line.face \in GuestFaces
    BY <1>a, <1>d, <2>1
  <2>3. ~Drawing' /\ llm' = llm /\ io' = NoIo /\ NoIo.to = "none" /\ cell'.waits = FALSE
    BY <1>0, <1>a, <1>e DEF Drawing, NoIo
  <2> QED
    BY <1>e, <2>2, <2>3 DEF CallInv
<1>3. SyncInv'
  <2> SUFFICES ASSUME source # "external"
               PROVE  CellStep' /\ LlmStep' /\ M33Step' /\ OrdinalStep' /\ LineStep'
    BY <1>0 DEF SyncInv
  <2>a. CellStep /\ LlmStep /\ M33Step /\ OrdinalStep /\ LineStep
    BY DEF SyncInv
  <2>1. CellStep'
    <3>1. cell.place = 8 => cell.at = "face"
      BY <1>0, <2>a DEF CellStep
    <3>2. cell.place = 5 => GuestRuns(io.line) = "prompt"
      BY <1>0, PlaceFacts, <2>a DEF LineStep, LlmAhead
    <3>3. cell.place = 7 => GuestRuns(io.line) = "face" \/ (source = "server" /\ io.line = LineOf("v"))
      BY <1>0, PlaceFacts, <2>a DEF LineStep, LlmAhead
    <3>4. io'.to # "cell" /\ source' = source
      BY <1>0 DEF NoIo
    <3> QED
      BY <1>a, <1>b, <1>g, PlaceFacts, <2>a, <3>1, <3>2, <3>3, <3>4 DEF CellStep
  <2>2. LlmStep'
    BY <1>0, PlaceFacts, <2>a DEF NoIo, LlmStep, LlmPlace, LlmAhead
  <2>3. M33Step'
    BY <1>0, PlaceFacts, <2>a DEF NoIo, M33Step, M33Place, M33Ahead
  <2>4. OrdinalStep'
    <3>1. cell.place = 8 <=> cell.at = "face"
      BY <1>0, PlaceFacts, <2>a DEF CellStep
    <3>2. io'.to # "cell" /\ m33' = m33 /\ llm' = llm
      BY <1>0 DEF NoIo
    <3>3. cell'.place = 8 <=> cell.place = 7
      BY <1>a, PlaceFacts
    <3>4. cell'.ord = IF cell.place = 8 THEN (cell.ord + 1) % OrdinalModulus ELSE cell.ord
      BY <1>a, <3>1
    <3> QED
      BY <1>0, PlaceFacts, <2>a, <3>2, <3>3, <3>4 DEF OrdinalStep, LlmAhead, M33Ahead
  <2>5. LineStep'
    BY <1>0, PlaceFacts, <2>a DEF NoIo, LineStep, LlmAhead
  <2> QED
    BY <2>1, <2>2, <2>3, <2>4, <2>5
<1>4. TurnInv'
  BY <1>0 DEF TurnInv
<1>5. FaceInv'
  <2> SUFFICES ASSUME source = "scripted", cell'.place = 8
               PROVE  cell'.line = TurnLine'
    BY <1>0 DEF FaceInv, LlmAhead, NoIo
  <2>1. cell.place = 7
    BY <1>a, PlaceFacts
  <2>2. cell.at = "read"
    BY <2>1 DEF SyncInv, CellStep
  <2>3. io.line = TurnLine
    BY <1>0, PlaceFacts, <2>1 DEF FaceInv, LlmAhead
  <2>4. cell'.ord = cell.ord /\ cell'.line = io.line
    BY <1>a, <2>2
  <2> QED
    BY <1>0, <2>3, <2>4 DEF TurnLine
<1>6. MatrixInv'
  BY <1>0 DEF MatrixInv
<1>7. ShellInStep'
  <2>1. sfault' = "none"
    BY <1>0
  <2> QED
    BY <2>1 DEF ShellInStep
<1>8. MatrixWhole'
  BY <1>0 DEF MatrixWhole
<1> QED
  BY <1>1, <1>2, <1>3, <1>4, <1>5, <1>6, <1>7, <1>8

LEMMA LineTakenShell ==
  ASSUME ShellPart, NEW line \in Lines, LineTaken(line), llm.pc = "think",
         source # "external" =>
            /\ llm.phase = 0 => GuestRuns(line) = "prompt"
            /\ llm.phase = 1 => GuestRuns(line) = "face" \/ (source = "server" /\ line = LineOf("v")),
         source = "scripted" /\ llm.phase = 1 =>
            line = LineOf(ScriptedFace(llm.human, llm.given, llm.ord))
  PROVE  ShellPart'
<1> USE DEF ShellPart
<1>f1. ASSUME ShellFail("line") PROVE ShellPart'
  BY <1>f1, ShellFailShell
<1> SUFFICES ASSUME ~ShellFail("line") PROVE ShellPart'
  BY <1>f1
<1>0. /\ llm.pc = "think"
      /\ io' = [io EXCEPT !.to = "cell", !.line = line]
      /\ llm' = [llm EXCEPT !.pc = "write", !.phase = 1 - llm.phase,
                 !.ord = IF llm.phase = 1 THEN (llm.ord + 1) % OrdinalModulus ELSE llm.ord]
      /\ UNCHANGED <<source, cell, human, hmsg, typed, sensor, smsg, m33, matrix, masked, lit, sfault>>
  BY DEF LineTaken, Answer, m33Vars
<1>a. io.to = "llm" /\ io.op = "fd_read"
  BY <1>0 DEF CallInv
<1>b. cell.place \in {5, 7} /\ cell.waits
  BY <1>a, PlaceFacts DEF CallInv, NoIo
<1>c. source # "external" => /\ llm.phase = IF cell.place = 5 THEN 0 ELSE 1
                             /\ llm.ord = cell.ord
  BY <1>a, <1>b DEF SyncInv, LlmStep, LlmPlace, LlmAhead, OrdinalStep
<1>d. /\ llm'.pc = "write" /\ llm'.phase = 1 - llm.phase
      /\ llm'.ord = IF llm.phase = 1 THEN (llm.ord + 1) % OrdinalModulus ELSE llm.ord
      /\ llm'.human = llm.human /\ llm'.given = llm.given
      /\ io'.to = "cell" /\ io'.line = line /\ io'.ord = io.ord
  BY <1>0 DEF ShellTypeOK, Llms, Ios
<1>1. ShellTypeOK'
  <2>1. io' \in Ios
    BY <1>0, PlaceFacts, ChoreoFacts, OrdinalFacts, LineFacts, ShellAssumption DEF
       ShellTypeOK, Ios, HumanTexts, Givens, Attempts
  <2>2. llm' \in Llms
    <3>1. 1 - llm.phase \in {0, 1}
      BY DEF ShellTypeOK, Llms
    <3>2. (IF llm.phase = 1 THEN (llm.ord + 1) % OrdinalModulus ELSE llm.ord) \in Ordinals
      BY OrdinalFacts DEF ShellTypeOK, Llms
    <3> QED
      BY <1>0, <3>1, <3>2 DEF ShellTypeOK, Llms
  <2> QED
    BY <1>0, <2>1, <2>2 DEF ShellTypeOK
<1>2. CallInv'
  BY <1>0, PlaceFacts DEF CallInv, NoIo, Drawing
<1>3. SyncInv'
  <2> SUFFICES ASSUME source # "external"
               PROVE  CellStep' /\ LlmStep' /\ M33Step' /\ OrdinalStep' /\ LineStep'
    BY <1>0 DEF SyncInv
  <2>a. CellStep /\ LlmStep /\ M33Step /\ OrdinalStep /\ LineStep
    BY DEF SyncInv
  <2>1. CellStep'
    BY <1>0, PlaceFacts, <2>a DEF CallInv, CellStep
  <2>2. LlmStep'
    BY <1>0, PlaceFacts, <2>a DEF CallInv, LlmStep, LlmPlace, LlmAhead
  <2>3. M33Step'
    BY <1>0, PlaceFacts, <2>a DEF CallInv, M33Step, M33Place
  <2>4. OrdinalStep'
    BY <1>0, PlaceFacts, <1>a, <1>b, <1>c, <1>d, <2>a DEF OrdinalStep, LlmAhead
  <2>5. LineStep'
    BY <1>0, <1>b, <1>c, <1>d DEF LineStep, LlmAhead
  <2> QED
    BY <2>1, <2>2, <2>3, <2>4, <2>5
<1>4. TurnInv'
  BY <1>0, PlaceFacts DEF TurnInv
<1>5. FaceInv'
  BY <1>0, <1>a, <1>b, <1>c, <1>d DEF FaceInv, TurnLine, TurnInv
<1>6. MatrixInv'
  BY <1>0 DEF MatrixInv
<1>7. ShellInStep'
  BY <1>0 DEF ShellInStep
<1>8. MatrixWhole'
  BY <1>0 DEF MatrixWhole
<1> QED
  BY <1>1, <1>2, <1>3, <1>4, <1>5, <1>6, <1>7, <1>8

LEMMA LlmRetryShell ==
  ASSUME ShellPart, llm.pc = "think", llm.tries + 1 < Attempts, llm' = [llm EXCEPT !.tries = @ + 1],
         UNCHANGED <<source, cell, io, human, hmsg, typed, sensor, smsg, m33Vars, sfault>>
  PROVE  ShellPart'
<1> USE DEF ShellPart
<1>0. /\ llm.pc = "think"
      /\ llm' = [llm EXCEPT !.tries = @ + 1]
      /\ UNCHANGED <<source, cell, io, human, hmsg, typed, sensor, smsg, m33, matrix, masked, lit, sfault>>
  BY DEF m33Vars
<1>1. ShellTypeOK'
  <2>1. llm' \in Llms
    BY <1>0, PlaceFacts DEF ShellTypeOK, Llms, Attempts
  <2> QED
    BY <1>0, <2>1 DEF ShellTypeOK
<1>2. CallInv'
  BY <1>0, PlaceFacts, OrdinalFacts, LineFacts DEF ShellTypeOK, CallInv, CellImport, NoIo,
     Drawing, NoLine
<1>3. SyncInv'
  <2> SUFFICES ASSUME source # "external"
               PROVE  CellStep' /\ LlmStep' /\ M33Step' /\ OrdinalStep' /\ LineStep'
    BY <1>0 DEF SyncInv
  <2>a. CellStep /\ LlmStep /\ M33Step /\ OrdinalStep /\ LineStep
    BY DEF SyncInv
  <2>1. CellStep'
    BY <1>0, <2>a DEF CellStep
  <2>2. LlmStep'
    BY <1>0, PlaceFacts, <2>a DEF LlmStep, LlmPlace, LlmAhead
  <2>3. M33Step'
    BY <1>0, <2>a DEF M33Step, M33Place, M33Ahead
  <2>4. OrdinalStep'
    BY <1>0, PlaceFacts, <2>a DEF CallInv, OrdinalStep, LlmAhead
  <2>5. LineStep'
    BY <1>0, <2>a DEF LineStep, LlmAhead
  <2> QED
    BY <2>1, <2>2, <2>3, <2>4, <2>5
<1>4. TurnInv'
  BY <1>0, PlaceFacts DEF TurnInv
<1>5. FaceInv'
  BY <1>0 DEF FaceInv, TurnLine, LlmAhead
<1>6. MatrixInv'
  BY <1>0 DEF MatrixInv
<1>7. ShellInStep'
  BY <1>0 DEF ShellInStep
<1>8. MatrixWhole'
  BY <1>0 DEF MatrixWhole
<1> QED
  BY <1>1, <1>2, <1>3, <1>4, <1>5, <1>6, <1>7, <1>8

\* A line of the script, of a server or of a command.
LEMMA LlmScriptedShell ==
  ASSUME ShellPart, LlmScripted
  PROVE  ShellPart'
<1> DEFINE line == IF llm.phase = 0
                   THEN Line("ls", "none")
                   ELSE LineOf(ScriptedFace(llm.human, llm.given, llm.ord))
<1>1. llm.pc = "think" /\ source = "scripted" /\ LineTaken(line)
  BY DEF LlmScripted, LlmThinks
<1>2. llm.ord \in Nat /\ llm.phase \in {0, 1}
  BY OrdinalFacts DEF ShellPart, ShellTypeOK, Llms
<1>3. ScriptedFace(llm.human, llm.given, llm.ord) \in GuestFaces
  BY <1>2, ScriptedIsFace
<1>4. \A f \in GuestFaces : /\ LineOf(f) \in Lines /\ GuestRuns(LineOf(f)) = "face"
  BY LineFacts DEF LocalFaces, GuestRuns
<1>5. GuestRuns(Line("ls", "none")) = "prompt"
  BY DEF GuestRuns, Line
<1>6. line \in Lines
  BY <1>3, <1>4, LineFacts
<1>7. llm.phase = 0 => GuestRuns(line) = "prompt"
  BY <1>5
<1>8. llm.phase = 1 => /\ line = LineOf(ScriptedFace(llm.human, llm.given, llm.ord))
                       /\ GuestRuns(line) = "face"
  BY <1>3, <1>4
<1> HIDE DEF line
<1> QED
  BY <1>1, <1>6, <1>7, <1>8, LineTakenShell

LEMMA LlmServerShell ==
  ASSUME ShellPart, LlmServer
  PROVE  ShellPart'
<1>1. llm.pc = "think" /\ source = "server" /\ llm.phase \in {0, 1}
  BY DEF LlmServer, LlmThinks, ShellPart, ShellTypeOK, Llms
<1>2. ASSUME NEW line \in ModelLines, AdmittedForPhase(line, llm.phase), LineTaken(line)
      PROVE  ShellPart'
  <2>1. line \in Lines /\ line.face \in LocalFaces \cup {"none"}
    BY LineFacts DEF Lines
  <2>2. line = [verb |-> line.verb, face |-> line.face]
    BY <2>1 DEF Lines
  <2>3. llm.phase = 0 => GuestRuns(line) = "prompt"
    BY <1>2 DEF AdmittedForPhase, GuestRuns, LocalFaces
  <2>4. llm.phase = 1 => GuestRuns(line) = "face" \/ line = LineOf("v")
    BY <1>2, <2>2 DEF AdmittedForPhase, GuestRuns, LocalFaces, LineOf, Line
  <2> QED
    BY <1>1, <1>2, <2>1, <2>3, <2>4, LineTakenShell
<1>3. CASE /\ llm.tries + 1 < Attempts
           /\ llm' = [llm EXCEPT !.tries = @ + 1]
           /\ UNCHANGED <<source, cell, io, human, hmsg, typed, sensor, smsg,
                          udpVars, m33Vars, sfault>>
  BY <1>1, <1>3, LlmRetryShell
<1>4. CASE ShellFail("llm")
  BY <1>4, ShellFailShell
<1> QED
  BY <1>2, <1>3, <1>4 DEF LlmServer

LEMMA LlmExternalShell ==
  ASSUME ShellPart, LlmExternal
  PROVE  ShellPart'
<1>1. llm.pc = "think" /\ source = "external"
  BY DEF LlmExternal, LlmThinks
<1>2. ASSUME NEW line \in ModelLines, LineTaken(line)
      PROVE  ShellPart'
  BY <1>1, <1>2, LineFacts, LineTakenShell
<1>3. CASE ShellFail("llm")
  BY <1>3, ShellFailShell
<1> QED
  BY <1>2, <1>3 DEF LlmExternal

LEMMA LlmMissingShell ==
  ASSUME ShellPart, LlmMissing
  PROVE  ShellPart'
BY ShellFailShell DEF LlmMissing

\* What the shell is made of, without the thread of the network.
shellState == <<source, cell, io, llm, human, hmsg, typed, sensor, smsg, m33, matrix, masked, lit, sfault>>

LEMMA ShellUnchanged ==
  ASSUME ShellPart, UNCHANGED shellState
  PROVE  ShellPart'
<1> USE DEF ShellPart
<1>0. UNCHANGED <<source, cell, io, llm, human, hmsg, typed, sensor, smsg, m33, matrix, masked, lit, sfault>>
  BY DEF shellState
<1>1. ShellTypeOK'
  BY <1>0 DEF ShellTypeOK
<1>2. CallInv'
  BY <1>0 DEF CallInv, CellImport, Drawing
<1>3. SyncInv'
  BY <1>0 DEF SyncInv, CellStep, LlmStep, M33Step, OrdinalStep, LineStep, LlmPlace,
     M33Place, LlmAhead, M33Ahead
<1>4. TurnInv' /\ MatrixInv' /\ ShellInStep' /\ MatrixWhole'
  BY <1>0 DEF TurnInv, MatrixInv, ShellInStep, MatrixWhole
<1>5. FaceInv'
  BY <1>0 DEF FaceInv, TurnLine, LlmAhead
<1> QED
  BY <1>1, <1>2, <1>3, <1>4, <1>5

-----------------------------------------------------------------------------
(* The acknowledgements. *)

AckPart == AckInv /\ AckedIsHeld

LEMMA PanelUnchanged ==
  ASSUME PanelInv, UNCHANGED panelVars, air' \subseteq Datagrams
  PROVE  PanelInv'
<1> USE DEF PanelInv
<1>0. UNCHANGED <<built, cursor, wasi, wifi, kpc, stage, kseq, udpSeq, gpc,
                  buffer, wpc, wstage, radio, polls, rxq, fault, acked>>
  BY DEF panelVars
<1>1. PanelTypeOK'
  BY <1>0 DEF PanelTypeOK, CursorOK, MessagesOK, PlacesOf
<1>2. LinkInv'
  BY <1>0 DEF LinkInv, GuestImportAt
<1>3. StepInv'
  BY <1>0 DEF StepInv, Before, Behind, Carries
<1>4. WriteInv' /\ RadioInv' /\ PanelInStep'
  BY <1>0 DEF WriteInv, RadioInv, PanelInStep, Carries
<1> QED
  BY <1>1, <1>2, <1>3, <1>4


LEMMA GuestCallAcks ==
  ASSUME PanelInv, AckPart, GuestCall, UNCHANGED <<upc, held, queued>>
  PROVE  AckPart'
<1> USE DEF AckPart, AckInv
<1>0. UNCHANGED <<air, rxq, wifi, buffer, acked>>
  BY DEF GuestCall
<1>a. wasi'.way = "req"
  BY DEF GuestCall, Message
<1>1. AirAcks'
  BY <1>0 DEF AirAcks, Safe
<1>2. RxAcks'
  BY <1>0 DEF RxAcks, Safe
<1>3. WifiAcks'
  BY <1>0 DEF WifiAcks, Carries, Safe
<1>4. AnswerAcks'
  BY <1>a DEF AnswerAcks
<1>5. AckedIsHeld'
  BY <1>0 DEF AckedIsHeld, Safe
<1> QED
  BY <1>1, <1>2, <1>3, <1>4, <1>5

LEMMA GuestReturnAcks ==
  ASSUME PanelInv, AckPart, GuestReturn, UNCHANGED <<upc, held, queued>>
  PROVE  AckPart'
<1> USE DEF AckPart, AckInv
<1>0. UNCHANGED <<air, rxq, wifi>>
  BY DEF GuestReturn
<1>a. wasi'.way = "none" /\ wasi.way = "ret"
  BY DEF GuestReturn, NoMessage, Carries
<1>b. acked' = acked \/ (gpc.at = "uno_q" /\ wasi.ok /\ acked' = acked \cup {buffer})
  BY DEF GuestReturn
<1>1. AirAcks'
  BY <1>0 DEF AirAcks, Safe
<1>2. RxAcks'
  BY <1>0 DEF RxAcks, Safe
<1>3. WifiAcks'
  BY <1>0 DEF WifiAcks, Carries, Safe
<1>4. AnswerAcks'
  BY <1>a DEF AnswerAcks
<1>5. AckedIsHeld'
  BY <1>a, <1>b DEF AckedIsHeld, AnswerAcks, Safe
<1> QED
  BY <1>1, <1>2, <1>3, <1>4, <1>5

LEMMA KernelBootAcks ==
  ASSUME PanelInv, AckPart, KernelBoot, UNCHANGED <<upc, held, queued>>
  PROVE  AckPart'
<1> USE DEF AckPart, AckInv
<1>0. UNCHANGED <<air, rxq, gpc, wasi, buffer, acked>>
  BY DEF KernelBoot
<1>a. wifi'.way = "req"
  BY DEF KernelBoot, Message
<1>1. AirAcks'
  BY <1>0 DEF AirAcks, Safe
<1>2. RxAcks'
  BY <1>0 DEF RxAcks, Safe
<1>3. WifiAcks'
  BY <1>a DEF WifiAcks, Carries
<1>4. AnswerAcks'
  BY <1>0 DEF AnswerAcks, Safe
<1>5. AckedIsHeld'
  BY <1>0 DEF AckedIsHeld, Safe
<1> QED
  BY <1>1, <1>2, <1>3, <1>4, <1>5

LEMMA KernelBootedAcks ==
  ASSUME PanelInv, AckPart, KernelBooted, UNCHANGED <<upc, held, queued>>
  PROVE  AckPart'
<1> USE DEF AckPart, AckInv
<1>0. UNCHANGED <<air, rxq, gpc, wasi, buffer, acked>>
  BY DEF KernelBooted
<1>a. wifi'.way = "none"
  BY DEF KernelBooted, NoMessage
<1>1. AirAcks'
  BY <1>0 DEF AirAcks, Safe
<1>2. RxAcks'
  BY <1>0 DEF RxAcks, Safe
<1>3. WifiAcks'
  BY <1>a DEF WifiAcks, Carries
<1>4. AnswerAcks'
  BY <1>0 DEF AnswerAcks, Safe
<1>5. AckedIsHeld'
  BY <1>0 DEF AckedIsHeld, Safe
<1> QED
  BY <1>1, <1>2, <1>3, <1>4, <1>5

LEMMA KernelPathOpenAcks ==
  ASSUME PanelInv, AckPart, KernelPathOpen, UNCHANGED <<upc, held, queued>>
  PROVE  AckPart'
<1> USE DEF AckPart, AckInv
<1>0. UNCHANGED <<air, rxq, wifi, gpc, buffer, acked>>
  BY DEF KernelPathOpen, Fail
<1>a. wasi.way = "req" /\ wasi.op = "path_open"
  BY DEF KernelPathOpen, Serves, Carries
<1>b. wasi # NoMessage
  BY <1>a DEF NoMessage
<1>c. gpc.at # "uno_q"
  BY <1>a, <1>b DEF PanelInv, LinkInv, GuestImportAt
<1>1. AirAcks'
  BY <1>0 DEF AirAcks, Safe
<1>2. RxAcks'
  BY <1>0 DEF RxAcks, Safe
<1>3. WifiAcks'
  BY <1>0 DEF WifiAcks, Carries, Safe
<1>4. AnswerAcks'
  BY <1>0, <1>c DEF AnswerAcks
<1>5. AckedIsHeld'
  BY <1>0 DEF AckedIsHeld, Safe
<1> QED
  BY <1>1, <1>2, <1>3, <1>4, <1>5

LEMMA KernelFdReadAcks ==
  ASSUME PanelInv, AckPart, KernelFdRead, UNCHANGED <<upc, held, queued>>
  PROVE  AckPart'
<1> USE DEF AckPart, AckInv
<1>0. UNCHANGED <<air, rxq, wifi, gpc, buffer, acked>>
  BY DEF KernelFdRead, Fail
<1>a. wasi.way = "req" /\ wasi.op = "fd_read"
  BY DEF KernelFdRead, Serves, Carries
<1>b. wasi # NoMessage
  BY <1>a DEF NoMessage
<1>c. gpc.at # "uno_q"
  BY <1>a, <1>b DEF PanelInv, LinkInv, GuestImportAt
<1>1. AirAcks'
  BY <1>0 DEF AirAcks, Safe
<1>2. RxAcks'
  BY <1>0 DEF RxAcks, Safe
<1>3. WifiAcks'
  BY <1>0 DEF WifiAcks, Carries, Safe
<1>4. AnswerAcks'
  BY <1>0, <1>c DEF AnswerAcks
<1>5. AckedIsHeld'
  BY <1>0 DEF AckedIsHeld, Safe
<1> QED
  BY <1>1, <1>2, <1>3, <1>4, <1>5

LEMMA KernelPollOneoffAcks ==
  ASSUME PanelInv, AckPart, KernelPollOneoff, UNCHANGED <<upc, held, queued>>
  PROVE  AckPart'
<1> USE DEF AckPart, AckInv
<1>0. UNCHANGED <<air, rxq, wifi, gpc, buffer, acked>>
  BY DEF KernelPollOneoff, Fail
<1>a. wasi.way = "req" /\ wasi.op = "poll_oneoff"
  BY DEF KernelPollOneoff, Serves, Carries
<1>b. wasi # NoMessage
  BY <1>a DEF NoMessage
<1>c. gpc.at # "uno_q"
  BY <1>a, <1>b DEF PanelInv, LinkInv, GuestImportAt
<1>1. AirAcks'
  BY <1>0 DEF AirAcks, Safe
<1>2. RxAcks'
  BY <1>0 DEF RxAcks, Safe
<1>3. WifiAcks'
  BY <1>0 DEF WifiAcks, Carries, Safe
<1>4. AnswerAcks'
  BY <1>0, <1>c DEF AnswerAcks
<1>5. AckedIsHeld'
  BY <1>0 DEF AckedIsHeld, Safe
<1> QED
  BY <1>1, <1>2, <1>3, <1>4, <1>5

LEMMA KernelFdWriteDisplayAcks ==
  ASSUME PanelInv, AckPart, KernelFdWriteDisplay, UNCHANGED <<upc, held, queued>>
  PROVE  AckPart'
<1> USE DEF AckPart, AckInv
<1>0. UNCHANGED <<air, rxq, wifi, gpc, buffer, acked>>
  BY DEF KernelFdWriteDisplay, Fail
<1>a. wasi.way = "req"
  BY DEF KernelFdWriteDisplay, Serves, Carries
<1>b. wasi # NoMessage
  BY <1>a DEF NoMessage
<1>c. wasi' = wasi \/ gpc.at # "uno_q"
  BY <1>a, <1>b DEF KernelFdWriteDisplay, Fail, PanelInv, LinkInv, GuestImportAt
<1>1. AirAcks'
  BY <1>0 DEF AirAcks, Safe
<1>2. RxAcks'
  BY <1>0 DEF RxAcks, Safe
<1>3. WifiAcks'
  BY <1>0 DEF WifiAcks, Carries, Safe
<1>4. AnswerAcks'
  BY <1>0, <1>a, <1>c DEF AnswerAcks, Safe
<1>5. AckedIsHeld'
  BY <1>0 DEF AckedIsHeld, Safe
<1> QED
  BY <1>1, <1>2, <1>3, <1>4, <1>5

LEMMA KernelFdWriteUnoQAcks ==
  ASSUME PanelInv, AckPart, KernelFdWriteUnoQ, UNCHANGED <<upc, held, queued>>
  PROVE  AckPart'
<1> USE DEF AckPart, AckInv
<1>0. UNCHANGED <<air, rxq, gpc, buffer, acked>>
  BY DEF KernelFdWriteUnoQ, Fail
<1>a. wasi'.way # "ret" /\ (wifi' = wifi \/ wifi'.way = "req")
  BY DEF KernelFdWriteUnoQ, Serves, Carries, Fail, Message, NoMessage
<1>1. AirAcks'
  BY <1>0 DEF AirAcks, Safe
<1>2. RxAcks'
  BY <1>0 DEF RxAcks, Safe
<1>3. WifiAcks'
  BY <1>a DEF WifiAcks, Carries, Safe
<1>4. AnswerAcks'
  BY <1>a DEF AnswerAcks
<1>5. AckedIsHeld'
  BY <1>0 DEF AckedIsHeld, Safe
<1> QED
  BY <1>1, <1>2, <1>3, <1>4, <1>5

LEMMA KernelTxResultAcks ==
  ASSUME PanelInv, AckPart, KernelTxResult, UNCHANGED <<upc, held, queued>>
  PROVE  AckPart'
<1> USE DEF AckPart, AckInv
<1>0. UNCHANGED <<air, rxq, gpc, buffer, acked>>
  BY DEF KernelTxResult, AnswerWrite, Fail
<1>a. wasi' = wasi \/ wasi'.ok = FALSE
  BY DEF KernelTxResult, AnswerWrite, Fail, Message
<1>b. wifi' = wifi \/ wifi'.way # "ret"
  BY DEF KernelTxResult, AnswerWrite, Fail, Message, NoMessage
<1>1. AirAcks'
  BY <1>0 DEF AirAcks, Safe
<1>2. RxAcks'
  BY <1>0 DEF RxAcks, Safe
<1>3. WifiAcks'
  BY <1>b DEF WifiAcks, Carries, Safe
<1>4. AnswerAcks'
  BY <1>0, <1>a DEF AnswerAcks, Safe
<1>5. AckedIsHeld'
  BY <1>0 DEF AckedIsHeld, Safe
<1> QED
  BY <1>1, <1>2, <1>3, <1>4, <1>5

LEMMA KernelRxResultAcks ==
  ASSUME PanelInv, AckPart, KernelRxResult, UNCHANGED <<upc, held, queued>>
  PROVE  AckPart'
<1> USE DEF AckPart, AckInv
<1>0. UNCHANGED <<air, rxq, gpc, buffer, acked>>
  BY DEF KernelRxResult, AnswerWrite, Fail
<1>a. kpc = "polling" /\ Carries(wifi, "rx", "ret")
  BY DEF KernelRxResult
<1>b. \/ wasi' = wasi
      \/ wasi'.ok = Acknowledges(wifi)
  BY DEF KernelRxResult, AnswerWrite, Fail, Message
<1>c. wifi' = wifi \/ wifi'.way # "ret"
  BY DEF KernelRxResult, AnswerWrite, Fail, Message, NoMessage
<1>d. gpc.at = "uno_q" => gpc.waits
  BY <1>a DEF PanelInv, StepInv, Before, Behind
<1>e. gpc.at = "uno_q" => kseq = buffer
  BY <1>a, <1>d DEF PanelInv, WriteInv
<1>f. Acknowledges(wifi) => wifi.ok /\ wifi.seq = kseq
  BY DEF Acknowledges
<1>1. AirAcks'
  BY <1>0 DEF AirAcks, Safe
<1>2. RxAcks'
  BY <1>0 DEF RxAcks, Safe
<1>3. WifiAcks'
  BY <1>c DEF WifiAcks, Carries, Safe
<1>4. AnswerAcks'
  <2>1. CASE wasi' = wasi
    BY <1>0, <2>1 DEF AnswerAcks, Safe
  <2>2. CASE wasi'.ok = Acknowledges(wifi)
    BY <1>0, <1>a, <1>e, <1>f, <2>2 DEF AnswerAcks, WifiAcks, Safe
  <2> QED
    BY <1>b, <2>1, <2>2
<1>5. AckedIsHeld'
  BY <1>0 DEF AckedIsHeld, Safe
<1> QED
  BY <1>1, <1>2, <1>3, <1>4, <1>5

LEMMA WifiBootAcks ==
  ASSUME PanelInv, AckPart, WifiBoot, UNCHANGED <<upc, held, queued>>
  PROVE  AckPart'
<1> USE DEF AckPart, AckInv
<1>0. UNCHANGED <<air, rxq, gpc, wasi, buffer, acked>>
  BY DEF WifiBoot, Fail
<1>a. \A i \in 1..10 : BringUp[i] # "rx"
  BY DEF BringUp
<1>b. wifi' = wifi \/ wifi'.op # "rx"
  BY <1>a, Lengths DEF WifiBoot, WifiAnswers, Fail, Message, PanelInv, PanelTypeOK
<1>1. AirAcks'
  BY <1>0 DEF AirAcks, Safe
<1>2. RxAcks'
  BY <1>0 DEF RxAcks, Safe
<1>3. WifiAcks'
  BY <1>b DEF WifiAcks, Carries, Safe
<1>4. AnswerAcks'
  BY <1>0 DEF AnswerAcks, Safe
<1>5. AckedIsHeld'
  BY <1>0 DEF AckedIsHeld, Safe
<1> QED
  BY <1>1, <1>2, <1>3, <1>4, <1>5

LEMMA WifiTxAcks ==
  ASSUME PanelInv, AckPart, WifiTx, UNCHANGED <<upc, held, queued>>
  PROVE  AckPart'
<1> USE DEF AckPart, AckInv
<1>0. UNCHANGED <<rxq, gpc, wasi, buffer, acked>>
  BY DEF WifiTx, WifiAnswers
<1>a. wifi'.op = "tx"
  BY DEF WifiTx, WifiAnswers, Message
<1>b. air' = air \/ air' = air \cup {Sample(wifi.seq)}
  BY DEF WifiTx, SendDatagram
<1>c. \A n : Ack(n) \in air' => Ack(n) \in air
  BY <1>b DEF Ack, Sample
<1>1. AirAcks'
  BY <1>c DEF AirAcks, Safe
<1>2. RxAcks'
  BY <1>0 DEF RxAcks, Safe
<1>3. WifiAcks'
  BY <1>a DEF WifiAcks, Carries
<1>4. AnswerAcks'
  BY <1>0 DEF AnswerAcks, Safe
<1>5. AckedIsHeld'
  BY <1>0 DEF AckedIsHeld, Safe
<1> QED
  BY <1>1, <1>2, <1>3, <1>4, <1>5

LEMMA WifiRxPollAcks ==
  ASSUME PanelInv, AckPart, WifiRxPoll, UNCHANGED <<upc, held, queued>>
  PROVE  AckPart'
<1> USE DEF AckPart, AckInv
<1>0. UNCHANGED <<air, rxq, wifi, gpc, wasi, buffer, acked>>
  BY DEF WifiRxPoll
<1>1. AirAcks'
  BY <1>0 DEF AirAcks, Safe
<1>2. RxAcks'
  BY <1>0 DEF RxAcks, Safe
<1>3. WifiAcks'
  BY <1>0 DEF WifiAcks, Carries, Safe
<1>4. AnswerAcks'
  BY <1>0 DEF AnswerAcks, Safe
<1>5. AckedIsHeld'
  BY <1>0 DEF AckedIsHeld, Safe
<1> QED
  BY <1>1, <1>2, <1>3, <1>4, <1>5

LEMMA WifiRecvFrameAcks ==
  ASSUME PanelInv, AckPart, WifiRecvFrame, UNCHANGED <<upc, held, queued>>
  PROVE  AckPart'
<1> USE DEF AckPart, AckInv
<1>0. UNCHANGED <<air, gpc, wasi, buffer, acked>>
  BY DEF WifiRecvFrame, RxReturns, RxContinues, WifiAnswers
<1>a. rxq \in Seq(Received)
  BY DEF PanelInv, PanelTypeOK
<1>b. rxq' = rxq \/ (rxq # <<>> /\ rxq' = Tail(rxq))
  BY DEF WifiRecvFrame
<1>c. \/ wifi' = wifi \/ wifi'.ok = FALSE
      \/ rxq # <<>> /\ Head(rxq).kind = "ack" /\ wifi'.seq = Head(rxq).seq
  BY DEF WifiRecvFrame, RxReturns, RxContinues, WifiAnswers, Message
<1>d. \A i \in DOMAIN rxq' : \E j \in DOMAIN rxq : rxq'[i] = rxq[j]
  BY <1>a, <1>b
<1>1. AirAcks'
  BY <1>0 DEF AirAcks, Safe
<1>2. RxAcks'
  BY <1>0, <1>d DEF RxAcks, Safe
<1>3. WifiAcks'
  <2>1. rxq # <<>> => 1 \in DOMAIN rxq /\ Head(rxq) = rxq[1]
    BY <1>a
  <2> QED
    BY <1>c, <2>1 DEF WifiAcks, RxAcks, Carries, Safe
<1>4. AnswerAcks'
  BY <1>0 DEF AnswerAcks, Safe
<1>5. AckedIsHeld'
  BY <1>0 DEF AckedIsHeld, Safe
<1> QED
  BY <1>1, <1>2, <1>3, <1>4, <1>5

LEMMA WifiRecvNothingAcks ==
  ASSUME PanelInv, AckPart, WifiRecvNothing, UNCHANGED <<upc, held, queued>>
  PROVE  AckPart'
<1> USE DEF AckPart, AckInv
<1>0. UNCHANGED <<air, rxq, gpc, wasi, buffer, acked>>
  BY DEF WifiRecvNothing, RxReturns
<1>a. wifi'.ok = FALSE
  BY DEF WifiRecvNothing, RxReturns, WifiAnswers, Message
<1>1. AirAcks'
  BY <1>0 DEF AirAcks, Safe
<1>2. RxAcks'
  BY <1>0 DEF RxAcks, Safe
<1>3. WifiAcks'
  BY <1>a DEF WifiAcks
<1>4. AnswerAcks'
  BY <1>0 DEF AnswerAcks, Safe
<1>5. AckedIsHeld'
  BY <1>0 DEF AckedIsHeld, Safe
<1> QED
  BY <1>1, <1>2, <1>3, <1>4, <1>5

LEMMA DelayNeverReturnsAcks ==
  ASSUME PanelInv, AckPart, DelayNeverReturns, UNCHANGED <<upc, held, queued>>
  PROVE  AckPart'
<1> USE DEF AckPart, AckInv
<1>0. UNCHANGED <<air, rxq, wifi, gpc, wasi, buffer, acked>>
  BY DEF DelayNeverReturns, Fail
<1>1. AirAcks' /\ RxAcks'
  BY <1>0 DEF AirAcks, RxAcks, Safe
<1>2. WifiAcks' /\ AnswerAcks'
  BY <1>0 DEF WifiAcks, AnswerAcks, Carries, Safe
<1>3. AckedIsHeld'
  BY <1>0 DEF AckedIsHeld, Safe
<1> QED
  BY <1>1, <1>2, <1>3

LEMMA AckArrivesAcks ==
  ASSUME PanelInv, AckPart, AckArrives, UNCHANGED <<upc, held, queued>>
  PROVE  AckPart'
<1> USE DEF AckPart, AckInv
<1>0. UNCHANGED <<wifi, gpc, wasi, buffer, acked>>
  BY DEF AckArrives
<1>a. rxq \in Seq(Received)
  BY DEF PanelInv, PanelTypeOK
<1>b. PICK n \in Seqs : rxq' = Append(rxq, Ack(n)) /\ Ack(n) \in air /\ air' \subseteq air
  BY DEF AckArrives, Arrives
<1>c. Ack(n) \in air
  BY <1>b
<1>1. AirAcks'
  BY <1>b DEF AirAcks, Safe
<1>2. RxAcks'
  <2>0. Ack(n) \in Received
    BY MaxSamplesAssumption DEF Received, Ack, Seqs
  <2>1. DOMAIN rxq' = 1..(Len(rxq) + 1) /\ rxq'[Len(rxq) + 1] = Ack(n)
    BY <1>a, <1>b, <2>0
  <2>2. \A i \in 1..Len(rxq) : rxq'[i] = rxq[i] /\ i \in DOMAIN rxq
    BY <1>a, <1>b, <2>0
  <2>3. \A i \in 1..(Len(rxq) + 1) : i \in 1..Len(rxq) \/ i = Len(rxq) + 1
    BY <1>a
  <2>4. \A i \in 1..Len(rxq) : rxq'[i].kind = "ack" => Safe(rxq[i].seq)
    BY <2>2 DEF RxAcks
  <2>5. Ack(n).kind = "ack" /\ Ack(n).seq = n /\ Safe(n)
    BY <1>c DEF AirAcks, Ack
  <2> QED
    BY <1>0, <2>1, <2>2, <2>3, <2>4, <2>5 DEF RxAcks, Safe
<1>3. WifiAcks'
  BY <1>0 DEF WifiAcks, Carries, Safe
<1>4. AnswerAcks'
  BY <1>0 DEF AnswerAcks, Safe
<1>5. AckedIsHeld'
  BY <1>0 DEF AckedIsHeld, Safe
<1> QED
  BY <1>1, <1>2, <1>3, <1>4, <1>5

LEMMA OtherArrivesAcks ==
  ASSUME PanelInv, AckPart, OtherArrives, UNCHANGED <<upc, held, queued>>
  PROVE  AckPart'
<1> USE DEF AckPart, AckInv
<1>0. UNCHANGED <<air, wifi, gpc, wasi, buffer, acked>>
  BY DEF OtherArrives
<1>a. rxq \in Seq(Received)
  BY DEF PanelInv, PanelTypeOK
<1>b. rxq' = Append(rxq, [kind |-> "other", seq |-> 0])
  BY DEF OtherArrives
<1>c. TRUE
  OBVIOUS
<1>1. AirAcks'
  BY <1>0 DEF AirAcks, Safe
<1>2. RxAcks'
  <2>0. [kind |-> "other", seq |-> 0] \in Received
    BY MaxSamplesAssumption DEF Received, Ack, Seqs
  <2>1. DOMAIN rxq' = 1..(Len(rxq) + 1) /\ rxq'[Len(rxq) + 1] = [kind |-> "other", seq |-> 0]
    BY <1>a, <1>b, <2>0
  <2>2. \A i \in 1..Len(rxq) : rxq'[i] = rxq[i] /\ i \in DOMAIN rxq
    BY <1>a, <1>b, <2>0
  <2>3. \A i \in 1..(Len(rxq) + 1) : i \in 1..Len(rxq) \/ i = Len(rxq) + 1
    BY <1>a
  <2>4. \A i \in 1..Len(rxq) : rxq'[i].kind = "ack" => Safe(rxq[i].seq)
    BY <2>2 DEF RxAcks
  <2>5. [kind |-> "other", seq |-> 0].kind # "ack"
    OBVIOUS
  <2> QED
    BY <1>0, <2>1, <2>2, <2>3, <2>4, <2>5 DEF RxAcks, Safe
<1>3. WifiAcks'
  BY <1>0 DEF WifiAcks, Carries, Safe
<1>4. AnswerAcks'
  BY <1>0 DEF AnswerAcks, Safe
<1>5. AckedIsHeld'
  BY <1>0 DEF AckedIsHeld, Safe
<1> QED
  BY <1>1, <1>2, <1>3, <1>4, <1>5

\* What is safe stays so: the thread has the sample it acknowledged, or the
\* channel has it.
LEMMA SafeStays ==
  ASSUME UdpTypeOK, UdpRecv \/ UdpAck \/ UdpQueue \/ UdpEnd, NEW n, Safe(n)
  PROVE  Safe(n)'
<1>1. CASE UdpRecv
  BY <1>1 DEF UdpRecv, Safe
<1>2. CASE UdpAck
  BY <1>2 DEF UdpAck, Safe
<1>3. CASE UdpQueue
  BY <1>3 DEF UdpQueue, Safe
<1>4. CASE UdpEnd
  BY <1>4 DEF UdpEnd, Safe
<1> QED
  BY <1>1, <1>2, <1>3, <1>4

LEMMA UdpAcks ==
  ASSUME PanelInv, AckPart, UdpTypeOK, UdpRecv \/ UdpAck \/ UdpQueue \/ UdpEnd, UNCHANGED panelVars
  PROVE  AckPart' /\ UdpTypeOK' /\ (air \subseteq Datagrams)'
<1> USE DEF AckPart, AckInv
<1>0. UNCHANGED <<wasi, wifi, gpc, buffer, rxq, acked>>
  BY DEF panelVars
<1>1. \A n : Safe(n) => (n \in queued' \/ (upc' = "queue" /\ held' = n))
  BY SafeStays DEF Safe
<1>2. air' \subseteq air \/ (upc = "ack" /\ upc' = "queue" /\ held' = held /\ air' = air \cup {Ack(held)})
  BY DEF UdpRecv, UdpAck, UdpQueue, UdpEnd, AckFrame, SampleFrame, Arrives
<1>3. AirAcks'
  <2> SUFFICES ASSUME NEW n \in Seqs, Ack(n) \in air' PROVE Safe(n)'
    BY DEF AirAcks
  <2>1. CASE Ack(n) \in air
    BY <1>1, <2>1 DEF AirAcks, Safe
  <2>2. CASE Ack(n) \notin air
    BY <1>2, <2>2 DEF Safe, Ack
  <2> QED
    BY <2>1, <2>2
<1>4. RxAcks' /\ WifiAcks' /\ AnswerAcks' /\ AckedIsHeld'
  <2>1. RxAcks'
    BY <1>0, <1>1 DEF RxAcks, Safe
  <2>2. WifiAcks'
    BY <1>0, <1>1 DEF WifiAcks, Carries, Safe
  <2>3. AnswerAcks'
    BY <1>0, <1>1 DEF AnswerAcks, Safe
  <2>4. AckedIsHeld'
    BY <1>0, <1>1 DEF AckedIsHeld, Safe
  <2> QED
    BY <2>1, <2>2, <2>3, <2>4
<1>5. UdpTypeOK'
  <2>1. CASE UdpRecv
    BY <2>1 DEF UdpRecv, UdpTypeOK
  <2>2. CASE UdpAck
    BY <2>2 DEF UdpAck, UdpTypeOK
  <2>3. CASE UdpQueue
    BY <2>3 DEF UdpQueue, UdpTypeOK
  <2>4. CASE UdpEnd
    BY <2>4 DEF UdpEnd, UdpTypeOK
  <2> QED
    BY <2>1, <2>2, <2>3, <2>4
<1>6. (air \subseteq Datagrams)'
  <2>1. upc = "ack" => Ack(held) \in Datagrams
    BY DEF UdpTypeOK, Datagrams
  <2>2. \A n : Ack(n)' = Ack(n)
    BY DEF Ack
  <2> QED
    BY <1>2, <2>1 DEF PanelInv, Datagrams, Sample, Ack
<1> QED
  BY <1>3, <1>4, <1>5, <1>6

LEMMA AcksUnchanged ==
  ASSUME AckPart, UNCHANGED <<wasi, wifi, gpc, buffer, rxq, acked, upc, held, queued>>, air' \subseteq air
  PROVE  AckPart'
<1>1. AirAcks'
  BY DEF AckPart, AckInv, AirAcks, Safe
<1>2. RxAcks'
  BY DEF AckPart, AckInv, RxAcks, Safe
<1>3. WifiAcks' /\ AnswerAcks' /\ AckedIsHeld'
  BY DEF AckPart, AckInv, WifiAcks, AnswerAcks, AckedIsHeld, Safe
<1> QED
  BY <1>1, <1>2, <1>3 DEF AckPart, AckInv


-----------------------------------------------------------------------------
(* The whole. *)

LEMMA SensorInvParts ==
  SensorInv <=> /\ site \in {"panel", "shell"}
                /\ PanelInv /\ AckPart /\ UdpTypeOK /\ ShellPart
BY DEF SensorInv, TypeOK, PanelInv, AckPart, ShellPart

\* The panel and the shell start in step, with no acknowledgement anywhere.
LEMMA PanelInitInv == PanelInit /\ air = {} => PanelInv
<1> SUFFICES ASSUME PanelInit, air = {} PROVE PanelInv
  OBVIOUS
<1>1. CursorOK
  <2>1. \A r \in Roles : NextPlace[r][0] \in PlacesOf(r)
    BY NextPlaceIn
  <2> QED
    BY <2>1 DEF CursorOK, PanelInit
<1>2. MessagesOK
  BY NoMessageOK DEF MessagesOK, PanelInit
<1>3. rxq \in Seq(Received) /\ Len(rxq) = 0
  BY DEF PanelInit
<1>4. PanelTypeOK
  <2>1. 0 \in Seqs
    BY OpsOK
  <2>2. gpc \in [at : GuestPlaces \cup {"abort"}, n : 0..Len(Objects), waits : BOOLEAN]
    BY Lengths DEF PanelInit, GuestPlaces
  <2>3. polls \in [empty : 0..EmptyPollBudget, frames : 0..FrameBudget]
    BY BudgetAssumption DEF PanelInit, NoPolls
  <2> QED
    BY <1>1, <1>2, <1>3, <2>1, <2>2, <2>3, Lengths, MaxSamplesAssumption,
       BudgetAssumption DEF PanelTypeOK, PanelInit, KernelPlaces
<1>5. LinkInv
  BY Lengths DEF LinkInv, PanelInit
<1>6. StepInv
  BY NoMessageOK DEF StepInv, Before, PanelInit, Carries
<1>7. WriteInv /\ RadioInv /\ PanelInStep
  BY NoMessageOK DEF WriteInv, RadioInv, PanelInStep, PanelInit, Carries
<1> QED
  BY <1>4, <1>5, <1>6, <1>7 DEF PanelInv

LEMMA AckInitInv == PanelInit /\ air = {} => AckPart
BY NoMessageOK DEF AckPart, AckInv, AirAcks, RxAcks, WifiAcks, AnswerAcks, AckedIsHeld,
   PanelInit, Carries

LEMMA ShellInitInv == ShellInit => ShellPart /\ UdpTypeOK
<1> SUFFICES ASSUME ShellInit PROVE ShellPart /\ UdpTypeOK
  OBVIOUS
<1>1. NoIo \in Ios /\ NoIo.to = "none"
  BY LineFacts, OrdinalFacts DEF NoIo, Ios
<1>2. Pending \in Givens
  BY DEF Pending, Givens
<1>3. cell \in Cells /\ llm \in Llms /\ sensor \in Sensors /\ m33 \in M33s
  <2>1. cell \in Cells
    BY LineFacts, OrdinalFacts, ChoreoFacts DEF ShellInit, Cells
  <2>2. llm \in Llms
    BY <1>2, OrdinalFacts DEF ShellInit, Llms, HumanTexts, Attempts
  <2>3. sensor \in Sensors
    BY <1>2, ShellAssumption DEF ShellInit, Sensors
  <2>4. m33 \in M33s
    BY OrdinalFacts DEF ShellInit, M33s
  <2> QED
    BY <2>1, <2>2, <2>3, <2>4
<1>4. ShellTypeOK
  BY <1>1, <1>3 DEF ShellTypeOK, ShellInit, HumanTexts, NoTurn, Matrices
<1>5. CallInv
  BY <1>1 DEF CallInv, ShellInit, Drawing
<1>6. SyncInv
  BY <1>1 DEF SyncInv, CellStep, LlmStep, M33Step, OrdinalStep, LineStep, LlmPlace,
     M33Place, LlmAhead, M33Ahead, ShellInit
<1>7. TurnInv /\ FaceInv /\ MatrixInv
  BY <1>1 DEF TurnInv, FaceInv, MatrixInv, ShellInit, NoTurn
<1>8. ShellInStep /\ MatrixWhole
  BY DEF ShellInStep, MatrixWhole, ShellInit
<1>9. UdpTypeOK
  BY DEF UdpTypeOK, ShellInit
<1> QED
  BY <1>4, <1>5, <1>6, <1>7, <1>8, <1>9 DEF ShellPart

LEMMA SensorInvInit == Init => SensorInv
BY PanelInitInv, AckInitInv, ShellInitInv, SensorInvParts DEF Init


\* A step of the panel.
LEMMA PanelSteps ==
  ASSUME PanelInv, AckPart, PanelNext, UNCHANGED <<upc, held, queued>>
  PROVE  PanelInv' /\ AckPart'
<1>1. CASE GuestCall
  BY <1>1, GuestCallPanel, GuestCallAcks
<1>2. CASE GuestReturn
  BY <1>2, GuestReturnPanel, GuestReturnAcks
<1>3. CASE KernelBoot
  BY <1>3, KernelBootPanel, KernelBootAcks
<1>4. CASE KernelBooted
  BY <1>4, KernelBootedPanel, KernelBootedAcks
<1>5. CASE KernelPathOpen
  BY <1>5, KernelPathOpenPanel, KernelPathOpenAcks
<1>6. CASE KernelFdRead
  BY <1>6, KernelFdReadPanel, KernelFdReadAcks
<1>7. CASE KernelFdWriteDisplay
  BY <1>7, KernelFdWriteDisplayPanel, KernelFdWriteDisplayAcks
<1>8. CASE KernelFdWriteUnoQ
  BY <1>8, KernelFdWriteUnoQPanel, KernelFdWriteUnoQAcks
<1>9. CASE KernelTxResult
  BY <1>9, KernelTxResultPanel, KernelTxResultAcks
<1>10. CASE KernelRxResult
  BY <1>10, KernelRxResultPanel, KernelRxResultAcks
<1>11. CASE KernelPollOneoff
  BY <1>11, KernelPollOneoffPanel, KernelPollOneoffAcks
<1>12. CASE WifiBoot
  BY <1>12, WifiBootPanel, WifiBootAcks
<1>13. CASE WifiTx
  BY <1>13, WifiTxPanel, WifiTxAcks
<1>14. CASE WifiRxPoll
  BY <1>14, WifiRxPollPanel, WifiRxPollAcks
<1>15. CASE WifiRecvFrame
  BY <1>15, WifiRecvFramePanel, WifiRecvFrameAcks
<1>16. CASE WifiRecvNothing
  BY <1>16, WifiRecvNothingPanel, WifiRecvNothingAcks
<1>17. CASE AckArrives
  BY <1>17, AckArrivesPanel, AckArrivesAcks
<1>18. CASE OtherArrives
  BY <1>18, OtherArrivesPanel, OtherArrivesAcks
<1>19. CASE DelayNeverReturns
  BY <1>19, DelayNeverReturnsPanel, DelayNeverReturnsAcks
<1> QED
  BY <1>1, <1>2, <1>3, <1>4, <1>5, <1>6, <1>7, <1>8, <1>9, <1>10, <1>11, <1>12, <1>13,
     <1>14, <1>15, <1>16, <1>17, <1>18, <1>19 DEF PanelNext, CoreZero, CoreOne

ShellNext == CellRole \/ LlmRole \/ HumanRole \/ SensorRole \/ Tick \/ M33Role \/ Systick

\* A step of the shell.
LEMMA ShellSteps ==
  ASSUME ShellPart, UdpTypeOK, ShellNext
  PROVE  ShellPart'
<1>1. CASE CellCall
  BY <1>1, CellCallShell
<1>2. CASE CellReturn
  BY <1>2, CellReturnShell
<1>3. CASE LlmPathOpen
  BY <1>3, LlmPathOpenShell
<1>4. CASE LlmStdoutWrite
  BY <1>4, LlmStdoutWriteShell
<1>5. CASE LlmStdinRead
  BY <1>5, LlmStdinReadShell
<1>6. CASE LlmObserve
  BY <1>6, LlmObserveShell
<1>7. CASE LlmScripted
  BY <1>7, LlmScriptedShell
<1>8. CASE LlmServer
  BY <1>8, LlmServerShell
<1>9. CASE LlmExternal
  BY <1>9, LlmExternalShell
<1>10. CASE LlmMissing
  BY <1>10, LlmMissingShell
<1>11. CASE HumanTurn
  BY <1>11, HumanTurnShell
<1>12. CASE HumanAcked
  BY <1>12, HumanAckedShell
<1>13. CASE SensorTurn
  BY <1>13, SensorTurnShell
<1>14. CASE SensorAcked
  BY <1>14, SensorAckedShell
<1>15. CASE Tick
  BY <1>15, TickShell
<1>16. CASE M33PathOpen
  BY <1>16, M33PathOpenShell
<1>17. CASE M33Frame
  BY <1>17, M33FrameShell
<1>18. CASE M33Mask
  BY <1>18, M33MaskShell
<1>19. CASE M33Clear
  BY <1>19, M33ClearShell
<1>20. CASE M33Draw
  BY <1>20, M33DrawShell
<1>21. CASE M33Done
  BY <1>21, M33DoneShell
<1>22. CASE Systick
  BY <1>22, SystickShell
<1> QED
  BY <1>1, <1>2, <1>3, <1>4, <1>5, <1>6, <1>7, <1>8, <1>9, <1>10, <1>11, <1>12, <1>13,
     <1>14, <1>15, <1>16, <1>17, <1>18, <1>19, <1>20, <1>21, <1>22 DEF ShellNext,
     CellRole, LlmRole, HumanRole, SensorRole, M33Role

\* The shell leaves what the thread acknowledged alone.
LEMMA ShellKeepsUdp ==
  ASSUME UdpTypeOK, ShellNext
  PROVE  UdpTypeOK' /\ UNCHANGED <<upc, held, queued>>
<1> USE DEF udpVars
<1>1. CASE CellRole
  BY <1>1 DEF CellRole, CellCall, CellReturn, ShellFail, UdpTypeOK
<1>2. CASE LlmRole
  <2>1. UNCHANGED <<upc, held, queued, inbox>>
    BY <1>2 DEF LlmRole, LlmPathOpen, LlmStdoutWrite, LlmStdinRead, LlmObserve,
       LlmScripted, LlmServer, LlmExternal, LlmMissing, LineTaken, ShellFail
  <2> QED
    BY <2>1 DEF UdpTypeOK
<1>3. CASE HumanRole
  BY <1>3 DEF HumanRole, HumanTurn, HumanAcked, ShellFail, UdpTypeOK
<1>4. CASE SensorRole
  BY <1>4 DEF SensorRole, SensorTurn, SensorAcked, UdpTypeOK
<1>5. CASE Tick
  BY <1>5 DEF Tick, UdpTypeOK
<1>6. CASE M33Role
  <2>1. UNCHANGED <<upc, held, queued, inbox>>
    BY <1>6 DEF M33Role, M33PathOpen, M33Frame, M33Mask, M33Clear, M33Draw, M33Done,
       ShellFail
  <2> QED
    BY <2>1 DEF UdpTypeOK
<1>7. CASE Systick
  BY <1>7 DEF Systick, UdpTypeOK
<1> QED
  BY <1>1, <1>2, <1>3, <1>4, <1>5, <1>6, <1>7 DEF ShellNext

LEMMA SensorInvStep == SensorInv /\ [Next]_vars => SensorInv'
<1> SUFFICES ASSUME site \in {"panel", "shell"}, PanelInv, AckPart, UdpTypeOK, ShellPart, [Next]_vars
             PROVE  /\ site' \in {"panel", "shell"}
                    /\ PanelInv' /\ AckPart' /\ UdpTypeOK' /\ ShellPart'
  BY SensorInvParts DEF SensorInv, TypeOK, PanelInv, AckPart, ShellPart
<1>0. site' = site
  BY DEF Next, vars, Panel, Shell, Udp, Input, Network
<1>1. CASE Panel(PanelNext)
  <2>1. UNCHANGED <<upc, held, queued>> /\ UNCHANGED shellState /\ UNCHANGED inbox
    BY <1>1 DEF Panel, shellVars, udpVars, m33Vars, shellState
  <2>2. PanelNext
    BY <1>1 DEF Panel
  <2>3. UdpTypeOK'
    BY <2>1 DEF UdpTypeOK
  <2> QED
    BY <1>0, <2>1, <2>2, <2>3, PanelSteps, ShellUnchanged
<1>2. CASE Udp(UdpThread \/ UdpEnd) \/ Input(UdpEnd)
  <2>1. UNCHANGED panelVars /\ (UdpRecv \/ UdpAck \/ UdpQueue \/ UdpEnd)
    BY <1>2 DEF Udp, Input, UdpThread
  <2>2. UNCHANGED shellState
    BY <2>1 DEF UdpRecv, UdpAck, UdpQueue, UdpEnd, restVars, m33Vars, shellState
  <2>3. (air \subseteq Datagrams)' /\ AckPart' /\ UdpTypeOK'
    BY <2>1, UdpAcks
  <2>4. air' \subseteq Datagrams
    BY <2>3 DEF Datagrams
  <2> QED
    BY <1>0, <2>1, <2>2, <2>3, <2>4, PanelUnchanged, ShellUnchanged
<1>3. ASSUME UNCHANGED panelVars, air' \subseteq air
      PROVE  PanelInv'
  <2>1. air' \subseteq Datagrams
    BY <1>3 DEF PanelInv
  <2> QED
    BY <1>3, <2>1, PanelUnchanged
<1>4. ASSUME UNCHANGED panelVars, UNCHANGED <<upc, held, queued>>, air' \subseteq air
      PROVE  AckPart'
  BY <1>4, AcksUnchanged DEF panelVars
<1>5. CASE Input(smsg = "req" /\ SampleQueued)
  <2>1. UNCHANGED panelVars /\ SampleQueued
    BY <1>5 DEF Input
  <2>2. UNCHANGED shellState /\ UNCHANGED <<upc, held, queued>> /\ air' \subseteq air /\ inbox' \in Seqs
    BY <2>1 DEF SampleQueued, restVars, m33Vars, shellState
  <2>3. UdpTypeOK'
    BY <2>2 DEF UdpTypeOK
  <2> QED
    BY <1>0, <1>3, <1>4, <2>1, <2>2, <2>3, ShellUnchanged
<1>6. CASE Input(hmsg.way = "req" /\ HumanTypes /\ UNCHANGED air)
  <2>1. UNCHANGED panelVars /\ HumanTypes /\ air' \subseteq air
    BY <1>6 DEF Input
  <2>2. UNCHANGED <<upc, held, inbox, queued>>
    BY <2>1 DEF HumanTypes, udpVars
  <2>3. UdpTypeOK'
    BY <2>2 DEF UdpTypeOK
  <2> QED
    BY <1>0, <1>3, <1>4, <2>1, <2>2, <2>3, HumanTypesShell
<1>7. CASE Network \/ UNCHANGED vars
  <2>1. UNCHANGED <<panelVars, shellVars>> /\ air' \subseteq air
    BY <1>7 DEF Network, Lose, vars
  <2>2. UNCHANGED shellState /\ UNCHANGED <<upc, held, inbox, queued>>
    BY <2>1 DEF shellVars, shellState, udpVars, m33Vars
  <2>3. UdpTypeOK'
    BY <2>2 DEF UdpTypeOK
  <2> QED
    BY <1>0, <1>3, <1>4, <2>1, <2>2, <2>3, ShellUnchanged
<1>8. CASE Shell(ShellNext)
  <2>1. UNCHANGED panelVars /\ air' \subseteq air /\ ShellNext
    BY <1>8 DEF Shell
  <2> QED
    BY <1>0, <1>3, <1>4, <2>1, ShellSteps, ShellKeepsUdp
<1> QED
  BY <1>1, <1>2, <1>5, <1>6, <1>7, <1>8 DEF Next, Panel, Udp, Shell, PanelNext,
     ShellNext

\* The roles of the panel and of the shell are in step, every acknowledgement
\* under way is of a sample that is safe, every turn of the script is the one
\* that was asked for and the display is whole, however many samples, faces and
\* polls there are and whatever the model and the network do.
THEOREM SensorInvariant == Spec => []SensorInv
<1>1. Init => SensorInv
  BY SensorInvInit
<1>2. SensorInv /\ [Next]_vars => SensorInv'
  BY SensorInvStep
<1> QED
  BY <1>1, <1>2, PTL DEF Spec

\* A write of the guest that succeeded means that its sample reached the Uno Q
\* (driver_fd_write_uno_q, spawn_pico2w_sensor_udp).
THEOREM AcknowledgedSamplesAreHeld == Spec => []AckedIsHeld
<1>1. SensorInv => AckedIsHeld
  BY DEF SensorInv
<1> QED
  BY <1>1, SensorInvariant, PTL

\* No acknowledgement that is missing, late or wrong brings an endpoint error:
\* only a transmission that failed does (driver_fd_write_uno_q).
THEOREM PanelStaysInStep == Spec => []PanelInStep
<1>1. SensorInv => PanelInStep
  BY DEF SensorInv
<1> QED
  BY <1>1, SensorInvariant, PTL

\* The face that the M33 shows is the one that the human and the sensor asked
\* for in the turn of this line (LocalLlmShellSource::next_command).
THEOREM ShownFaceIsTheTurns == Spec => []FaceMatchesTurn
<1>1. SensorInv => FaceMatchesTurn
  <2> SUFFICES ASSUME SensorInv, source = "scripted", m33.pc = "shown"
               PROVE  m33.face = ScriptedFace(human.latest, sensor.given, m33.ord)
    BY DEF FaceMatchesTurn
  <2>1. io.to = "m33" /\ cell.place = 8 /\ m33.face = cell.line.face
    BY DEF SensorInv, CallInv, Drawing
  <2>2. cell.line = TurnLine
    BY <2>1 DEF SensorInv, FaceInv
  <2>3. m33.ord = cell.ord
    BY <2>1 DEF SensorInv, SyncInv, OrdinalStep, M33Ahead
  <2> QED
    BY <2>1, <2>2, <2>3 DEF TurnLine, LineOf, Line
<1> QED
  BY <1>1, SensorInvariant, PTL

=============================================================================
