----------------------------- MODULE BoardBoot -----------------------------
(***************************************************************************)
(* From reset to a running board: core 0 forces core 1 into its bootrom,   *)
(* launches it over the inter-core FIFOs and waits for its word, then both *)
(* run the capsule and the EPF loading of EpfLoad goes on.  The bootrom is *)
(* external: coming out of reset it empties its FIFO and sends 0; it       *)
(* answers each word, and a word out of sequence starts it over.           *)
(*                                                                         *)
(* boot     where core 0 stands, the index of its sequence, its failures   *)
(* rom      where core 1 stands, and how much of the sequence it took      *)
(* toOne    words from core 0 to core 1                                    *)
(* toZero   words from core 1 to core 0                                    *)
(* started  CORE1_STARTED                                                  *)
(***************************************************************************)
EXTENDS EpfLoad

CONSTANTS
  CORE1_LAUNCH_RETRIES,  \* 16 in the code
  FifoDepth              \* 8 on the RP2040, 4 on the RP2350

ASSUME BootAssumption == CORE1_LAUNCH_RETRIES \in Nat /\ FifoDepth \in Nat \ {0}

VARIABLES boot, rom, toOne, toZero, started

bootVars == <<boot, rom, toOne, toZero, started>>
vars == <<epfVars, bootVars>>

sequence == <<"0", "0", "1", "vector_table", "stack_top", "entry">>
epfButUp == <<site, mailbox, published, local, reason, vm, job, task, signals, probe,
              diagnostics, uart>>

\* Core 1 waits in the bootrom, or still runs the program of before a reset of
\* core 0 alone; that program may have left words behind.
Init ==
  /\ EpfInit
  /\ up = {}
  /\ boot = [at |-> "reset", index |-> 1, failures |-> 0]
  /\ rom \in {[at |-> "rom", took |-> 0], [at |-> "old", took |-> 0]}
  /\ toOne = <<>>
  /\ toZero \in IF rom.at = "old" THEN {<<>>, <<"old">>} ELSE {<<>>}
  /\ started \in BOOLEAN /\ (started => rom.at = "old")

BootAt(label) == boot.at = label /\ UNCHANGED epfVars
BootGoto(label) == boot' = [boot EXCEPT !.at = label]

\* Reset up to ensure_core1_launched, which clears the flag.
Reset ==
  /\ BootAt("reset")
  /\ started' = FALSE
  /\ BootGoto("off")
  /\ UNCHANGED <<rom, toOne, toZero>>

\* reset_core1_to_bootrom holds core 1 in reset and lets it go.
ForceOff ==
  /\ BootAt("off")
  /\ rom' = [at |-> "off", took |-> 0]
  /\ BootGoto("on")
  /\ UNCHANGED <<toOne, toZero, started>>

ForceOn ==
  /\ BootAt("on")
  /\ rom' = [rom EXCEPT !.at = "wake"]
  /\ BootGoto("word")
  /\ UNCHANGED <<toOne, toZero, started>>

\* fifo_drain: in reset_core1_to_bootrom and before each zero of the sequence.
Drain ==
  /\ BootAt("word")
  /\ IF sequence[boot.index] = "0" /\ toZero # <<>>
     THEN toZero' = Tail(toZero) /\ UNCHANGED boot
     ELSE BootGoto("push") /\ UNCHANGED toZero
  /\ UNCHANGED <<rom, toOne, started>>

\* fifo_push_blocking.
PushWord ==
  /\ BootAt("push")
  /\ Len(toOne) < FifoDepth
  /\ toOne' = Append(toOne, sequence[boot.index])
  /\ BootGoto("pop")
  /\ UNCHANGED <<rom, toZero, started>>

MutPopWord ==
  /\ BootAt("pop") /\ toZero # <<>>
  /\ toZero' = Tail(toZero)
  /\ boot' = IF boot.index = Len(sequence) THEN [boot EXCEPT !.at = "wait"]
             ELSE [boot EXCEPT !.at = "word", !.index = @ + 1]
  /\ UNCHANGED <<rom, toOne, started>>

MutRetries ==
  /\ BootAt("pop") /\ toZero # <<>>
  /\ toZero' = Tail(toZero)
  /\ boot' = IF Head(toZero) # sequence[boot.index] THEN [boot EXCEPT !.at = "word", !.index = 1]
             ELSE IF boot.index = Len(sequence) THEN [boot EXCEPT !.at = "wait"]
             ELSE [boot EXCEPT !.at = "word", !.index = @ + 1]
  /\ UNCHANGED <<rom, toOne, started>>

\* fifo_pop_blocking and the step of launch_core1: the next word, or the start
\* of the sequence again, as often as CORE1_LAUNCH_RETRIES allows.
PopWord ==
  /\ BootAt("pop") /\ toZero # <<>>
  /\ toZero' = Tail(toZero)
  /\ IF Head(toZero) = sequence[boot.index]
     THEN boot' = IF boot.index = Len(sequence) THEN [boot EXCEPT !.at = "wait"]
                  ELSE [boot EXCEPT !.at = "word", !.index = @ + 1]
     ELSE boot' = IF boot.failures = CORE1_LAUNCH_RETRIES THEN [boot EXCEPT !.at = "parked"]
                  ELSE [at |-> "word", index |-> 1, failures |-> boot.failures + 1]
  /\ UNCHANGED <<rom, toOne, started>>

\* ensure_core1_launched waits for the flag, so many spins, and then runs; a
\* carrier of core 0 may ring the FIFO at once.
Start ==
  /\ boot.at = "wait"
  /\ IF started
     THEN /\ boot' = [at |-> "run", index |-> 1, failures |-> 0]
          /\ up' = up \cup {0}
          /\ toOne' = Append(toOne, "bell")
     ELSE BootGoto("parked") /\ UNCHANGED <<up, toOne>>
  /\ UNCHANGED <<epfButUp, rom, toZero, started>>

-----------------------------------------------------------------------------
(* Core 1.                                                                 *)

RomAt(label) == rom.at = label /\ UNCHANGED boot

\* The old program sends a last word.
OldWord ==
  /\ RomAt("old") /\ UNCHANGED epfVars
  /\ Len(toZero) < FifoDepth
  /\ toZero' = Append(toZero, "old")
  /\ rom' = [rom EXCEPT !.at = "silent"]
  /\ UNCHANGED <<toOne, started>>

Wake ==
  /\ RomAt("wake") /\ UNCHANGED epfVars
  /\ Len(toZero) < FifoDepth
  /\ toOne' = <<>>
  /\ toZero' = Append(toZero, "0")
  /\ rom' = [at |-> "rom", took |-> 0]
  /\ UNCHANGED started

\* The words the bootrom has after one more: 0 once or more, 1, then three.
Took(n, word) == CASE word = "0" -> 1
                   [] word = "1" -> IF n = 1 THEN 2 ELSE 0
                   [] OTHER -> IF n \in 2..4 THEN n + 1 ELSE 0

RomWord ==
  /\ RomAt("rom") /\ UNCHANGED epfVars
  /\ toOne # <<>> /\ Len(toZero) < FifoDepth
  /\ toOne' = Tail(toOne)
  /\ LET n == Took(rom.took, Head(toOne))
     IN  /\ rom' = IF n = 5 THEN [at |-> "entry", took |-> 5] ELSE [rom EXCEPT !.took = n]
         /\ toZero' \in {Append(toZero, w) : w \in IF n = 0 THEN {"0", Head(toOne)} ELSE {Head(toOne)}}
  /\ UNCHANGED started

\* core1_entry empties its FIFO, reports and runs.
Entry ==
  /\ RomAt("entry")
  /\ IF toOne # <<>>
     THEN toOne' = Tail(toOne) /\ UNCHANGED <<rom, started, up>>
     ELSE /\ started' = TRUE
          /\ rom' = [rom EXCEPT !.at = "run"]
          /\ up' = up \cup {1}
          /\ UNCHANGED toOne
  /\ UNCHANGED <<epfButUp, toZero>>

-----------------------------------------------------------------------------
CoreZero == Reset \/ ForceOff \/ ForceOn \/ Drain \/ PushWord \/ PopWord
CoreOne == Wake \/ RomWord \/ Entry
Boot == CoreZero \/ CoreOne \/ Start \/ OldWord

Running == EpfNext /\ UNCHANGED bootVars

Next == Boot \/ Running

Spec ==
  /\ Init /\ [][Next]_vars
  /\ WF_vars(CoreZero) /\ WF_vars(CoreOne) /\ WF_vars(Start)
  /\ EpfFairness

-----------------------------------------------------------------------------
\* Core 0 passes the handshake only if core 1 took the whole sequence, whatever
\* words were left in the FIFOs and whatever the bootrom swallowed on waking.
\* core1_entry has emptied its FIFO before core 0 sends the first word of a
\* carrier: no doorbell is lost to the drain.
LaunchSound ==
  /\ boot.at \in {"wait", "run"} => rom.at \in {"entry", "run"}
  /\ boot.at = "run" => rom.at = "run" /\ \E n \in DOMAIN toOne : toOne[n] = "bell"

-----------------------------------------------------------------------------
(* Why: the handshake is at most one word ahead of its answers, by the word *)
(* that core 1 sends on waking, and then it fails at the 1 of the sequence. *)

Word == {"old", "bell", "0", "1", "vector_table", "stack_top", "entry"}

BootTypeOK ==
  /\ boot \in [at : {"reset", "off", "on", "word", "push", "pop", "wait", "run", "parked"},
              index : DOMAIN sequence, failures : Nat]
  /\ rom \in [at : {"rom", "old", "silent", "off", "wake", "entry", "run"}, took : 0..5]
  /\ rom.at = "rom" => rom.took < 5
  /\ toOne \in Seq(Word) /\ toZero \in Seq(Word) /\ started \in BOOLEAN

Digit == {"0", "1"}

NoWord == toOne = <<>> /\ toZero = <<>>
OneWord(word) == \/ toOne = <<word>> /\ toZero = <<>>
                 \/ toOne = <<>> /\ toZero = <<word>>

\* Two words, of which core 0 gets the answer to the first at once.
TwoWords(first, last) ==
  \/ toZero = <<>> /\ toOne = <<first, last>>
  \/ toZero = <<first>> /\ toOne = <<last>>
  \/ toOne = <<>> /\ \E word \in Digit : toZero = <<first, word>> /\ (last = "0" => word = "0")

\* Before a word is sent.
BeforeInv ==
  /\ boot.index = 1 /\ boot.at = "word" =>
       toOne = <<>> \/ \E word \in Digit : toOne = <<word>> /\ toZero = <<>>
  /\ boot.index = 1 /\ boot.at = "push" => NoWord \/ \E word \in Digit : OneWord(word)
  /\ boot.index = 2 => NoWord \/ OneWord("0")
  /\ boot.index = 3 => OneWord("0") \/ (NoWord /\ rom.took = 1)
  /\ boot.index > 3 => NoWord /\ rom.took = boot.index - 2
  /\ rom.at \notin {"entry", "run"}

\* While core 0 waits for the answer.
AnswerInv ==
  /\ boot.index < 3 => OneWord("0") \/ \E first \in Digit : TwoWords(first, "0")
  /\ boot.index = 2 /\ toOne = <<>> => rom.took = 1
  /\ boot.index = 3 => \/ TwoWords("0", "1")
                       \/ OneWord("1") /\ rom.took = IF toOne = <<>> THEN 2 ELSE 1
  /\ boot.index > 3 => /\ OneWord(sequence[boot.index])
                       /\ rom.took = IF toOne = <<>> THEN boot.index - 1 ELSE boot.index - 2
  /\ rom.at \in {"entry", "run"} <=> boot.index = 6 /\ toOne = <<>>

\* The handshake as it goes on.
HandshakeInv ==
  /\ boot.at \in {"reset", "off", "on"} => toOne = <<>> /\ boot.index = 1
  /\ boot.at \in {"reset", "off"} => rom.at \in {"rom", "old", "silent"}
  /\ boot.at = "on" => rom.at = "off"
  /\ boot.at \in {"word", "push", "pop"} =>
       /\ rom.at \in {"wake", "rom", "entry", "run"}
       /\ rom.at = "wake" => /\ boot.index = 1
                             /\ boot.at # "word" => toZero = <<>>
                             /\ toOne = IF boot.at = "pop" THEN <<"0">> ELSE <<>>
  /\ boot.at \in {"word", "push"} => BeforeInv
  /\ boot.at = "pop" => AnswerInv
  /\ boot.at = "wait" => rom.at \in {"entry", "run"} /\ toOne = <<>>
  /\ started /\ boot.at # "reset" => rom.at = "run"

LaunchInv == BootTypeOK /\ HandshakeInv /\ LaunchSound

\* The board as a whole: the handshake, the image words and the spools.
BoardInv == LaunchInv /\ ImageInv

\* The launch ends: core 0 runs the capsule or parks with its failure stage; the
\* two cores never wait for each other's word for ever.
LaunchEnds == <>(boot.at \in {"run", "parked"})
=============================================================================
