-------------------------- MODULE BoardBootProofs --------------------------
(***************************************************************************)
(* Proofs about BoardBoot, which contains EpfLoad: the launch of core 1 is *)
(* sound for any number of retries and any FIFO depth, no tap event is     *)
(* missed for any spool and any number of events, and where one image is   *)
(* on its way a core runs exactly the image that its digest word names.    *)
(***************************************************************************)
EXTENDS BoardBoot, SequenceTheorems, TLAPS

-----------------------------------------------------------------------------
(* The launch.                                                             *)

LEMMA SequenceFacts ==
  /\ DOMAIN sequence = 1..6 /\ Len(sequence) = 6
  /\ sequence[1] = "0" /\ sequence[2] = "0" /\ sequence[3] = "1"
  /\ sequence[4] = "vector_table" /\ sequence[5] = "stack_top" /\ sequence[6] = "entry"
  BY DEF sequence

LEMMA SequenceWord == \A i \in 1..6 : sequence[i] \in Word
  BY SequenceFacts DEF Word

\* Taking a word leaves words, and so does sending one.
LEMMA FifoFacts ==
  ASSUME NEW s \in Seq(Word)
  PROVE  /\ s # <<>> => Head(s) \in Word /\ Tail(s) \in Seq(Word) /\ Len(Tail(s)) = Len(s) - 1
         /\ \A w \in Word : Append(s, w) \in Seq(Word) /\ Append(s, w) # <<>>
  BY DEF Word

\* FIFOs of one and two words.
LEMMA ShortFifo ==
  ASSUME NEW a \in Word, NEW b \in Word
  PROVE  /\ Append(<<>>, a) = <<a>> /\ Append(<<a>>, b) = <<a, b>>
         /\ Head(<<a>>) = a /\ Tail(<<a>>) = <<>> /\ Head(<<a, b>>) = a /\ Tail(<<a, b>>) = <<b>>
         /\ <<a>> # <<>> /\ <<a, b>> # <<>>
  <1>1. Append(<<>>, a) = <<a>>
    OBVIOUS
  <1>2. Append(<<a>>, b) = <<a, b>>
    <2>1. <<a>> \in Seq(Word) /\ Len(<<a>>) = 1 /\ <<a>>[1] = a
      OBVIOUS
    <2>2. /\ Append(<<a>>, b) \in Seq(Word) /\ Len(Append(<<a>>, b)) = 2
          /\ Append(<<a>>, b)[1] = a /\ Append(<<a>>, b)[2] = b
      BY <2>1, AppendProperties
    <2>3. <<a, b>> \in Seq(Word) /\ Len(<<a, b>>) = 2 /\ <<a, b>>[1] = a /\ <<a, b>>[2] = b
      OBVIOUS
    <2>4. \A i \in 1..2 : Append(<<a>>, b)[i] = <<a, b>>[i]
      <3>1. \A i \in 1..2 : i = 1 \/ i = 2
        OBVIOUS
      <3>2. QED
        BY <2>2, <2>3, <3>1
    <2>5. QED
      BY <2>2, <2>3, <2>4, SeqEqual
  <1>3. Head(<<a>>) = a /\ Tail(<<a>>) = <<>>
    OBVIOUS
  <1>4. Head(<<a, b>>) = a
    OBVIOUS
  <1>5. Tail(<<a, b>>) = <<b>>
    OBVIOUS
  <1>6. <<a>> # <<>> /\ <<a, b>> # <<>>
    OBVIOUS
  <1>7. QED
    BY <1>1, <1>2, <1>3, <1>4, <1>5, <1>6

LEMMA LaunchInit == Init => LaunchInv
  <1> SUFFICES ASSUME Init PROVE LaunchInv
    OBVIOUS
  <1>1. BootTypeOK
    <2>1. <<>> \in Seq(Word) /\ <<"old">> \in Seq(Word)
      BY DEF Word
    <2>2. QED
      <3>1. boot \in [at : {"reset", "off", "on", "word", "push", "pop", "wait", "run", "parked"},
                       index : DOMAIN sequence, failures : Nat]
        BY SequenceFacts DEF Init
      <3>2. /\ rom \in [at : {"rom", "old", "silent", "off", "wake", "entry", "run"}, took : 0..5]
            /\ rom.took = 0
        BY DEF Init
      <3>3. QED
        <4>1. toZero \in {<<>>, <<"old">>} /\ toOne = <<>> /\ started \in BOOLEAN
          BY DEF Init
        <4>2. QED
          <5>1. toZero \in Seq(Word) /\ toOne \in Seq(Word)
            BY <2>1, <4>1
          <5>2. rom.took < 5
            BY <3>2
          <5>3. QED
            BY <3>1, <3>2, <4>1, <5>1, <5>2 DEF BootTypeOK
  <1>2. HandshakeInv
    BY DEF Init, HandshakeInv, BeforeInv, AnswerInv
  <1>3. QED
    BY <1>1, <1>2 DEF Init, LaunchInv, LaunchSound

LEMMA LaunchReset == LaunchInv /\ Reset => LaunchInv'
  <1> SUFFICES ASSUME LaunchInv, Reset PROVE LaunchInv'
    OBVIOUS
  <1> USE DEF Reset, BootAt, BootGoto
  <1>1. BootTypeOK'
    BY DEF LaunchInv, BootTypeOK
  <1>2. HandshakeInv'
    BY DEF LaunchInv, BootTypeOK, HandshakeInv
  <1>3. QED
    BY <1>1, <1>2 DEF LaunchInv, LaunchSound, BootTypeOK

LEMMA LaunchForceOff == LaunchInv /\ ForceOff => LaunchInv'
  <1> SUFFICES ASSUME LaunchInv, ForceOff PROVE LaunchInv'
    OBVIOUS
  <1> USE DEF ForceOff, BootAt, BootGoto
  <1>1. BootTypeOK'
    BY DEF LaunchInv, BootTypeOK
  <1>2. HandshakeInv'
    BY DEF LaunchInv, BootTypeOK, HandshakeInv
  <1>3. QED
    BY <1>1, <1>2 DEF LaunchInv, LaunchSound, BootTypeOK

LEMMA LaunchForceOn == LaunchInv /\ ForceOn => LaunchInv'
  <1> SUFFICES ASSUME LaunchInv, ForceOn PROVE LaunchInv'
    OBVIOUS
  <1> USE DEF ForceOn, BootAt, BootGoto
  <1>1. BootTypeOK'
    BY DEF LaunchInv, BootTypeOK
  <1>2. HandshakeInv'
    BY DEF LaunchInv, BootTypeOK, HandshakeInv, BeforeInv
  <1>3. QED
    BY <1>1, <1>2 DEF LaunchInv, LaunchSound, BootTypeOK

LEMMA LaunchDrain == LaunchInv /\ Drain => LaunchInv'
  <1> SUFFICES ASSUME LaunchInv, Drain PROVE LaunchInv'
    OBVIOUS
  <1> USE DEF Drain, BootAt, BootGoto
  <1>0. BootTypeOK /\ HandshakeInv /\ boot.at = "word" /\ BeforeInv
    BY DEF LaunchInv, HandshakeInv
  <1>a. boot.index \in 1..6
    BY <1>0, SequenceFacts DEF BootTypeOK
  <1>1. CASE sequence[boot.index] = "0" /\ toZero # <<>>
    <2>0. /\ toZero' = Tail(toZero) /\ UNCHANGED <<boot, rom, toOne, started>>
          /\ Tail(toZero) \in Seq(Word) /\ boot.index \in {1, 2}
      BY <1>0, <1>1, <1>a, SequenceFacts, FifoFacts DEF BootTypeOK
    <2>1. BootTypeOK'
      BY <1>0, <2>0 DEF BootTypeOK
    <2>2. BeforeInv'
      <3>1. boot.index = 2 => NoWord'
        BY <1>0, <1>1, <2>0, ShortFifo DEF BeforeInv, NoWord, OneWord, Word
      <3>2. boot.index = 1 => toOne = <<>>
        BY <1>0, <1>1 DEF BeforeInv
      <3>3. QED
        BY <1>0, <2>0, <3>1, <3>2 DEF BeforeInv
    <2>3. HandshakeInv'
      BY <1>0, <2>0, <2>2 DEF HandshakeInv
    <2>4. QED
      BY <1>0, <2>0, <2>1, <2>3 DEF LaunchInv, LaunchSound
  <1>2. CASE ~(sequence[boot.index] = "0" /\ toZero # <<>>)
    <2>0. boot' = [boot EXCEPT !.at = "push"] /\ UNCHANGED <<rom, toOne, toZero, started>>
      BY <1>2
    <2>a. boot'.at = "push" /\ boot'.index = boot.index
      BY <1>0, <2>0 DEF BootTypeOK
    <2>1. BootTypeOK'
      BY <1>0, <2>0 DEF BootTypeOK
    <2>2. BeforeInv'
      <3>1. boot.index = 1 => toZero = <<>>
        BY <1>2, SequenceFacts
      <3>2. QED
        BY <1>0, <2>0, <2>a, <3>1 DEF BeforeInv, NoWord, OneWord
    <2>3. HandshakeInv'
      <3>1. boot.index = 1 => toZero = <<>>
        BY <1>2, SequenceFacts
      <3>2. QED
        BY <1>0, <2>0, <2>a, <2>2, <3>1 DEF HandshakeInv
    <2>4. QED
      BY <1>0, <2>0, <2>a, <2>1, <2>3 DEF LaunchInv, LaunchSound
  <1>3. QED
    BY <1>1, <1>2

LEMMA LaunchPushWord == LaunchInv /\ PushWord => LaunchInv'
  <1> SUFFICES ASSUME LaunchInv, PushWord PROVE LaunchInv'
    OBVIOUS
  <1>0. BootTypeOK /\ HandshakeInv /\ boot.at = "push" /\ BeforeInv
    BY DEF LaunchInv, HandshakeInv, PushWord, BootAt
  <1>a. boot.index \in 1..6
    BY <1>0, SequenceFacts DEF BootTypeOK
  <1>b. /\ boot'.at = "pop" /\ boot'.index = boot.index /\ UNCHANGED <<rom, toZero, started>>
        /\ toOne' = Append(toOne, sequence[boot.index])
    BY <1>0 DEF PushWord, BootGoto, BootTypeOK
  <1>1. BootTypeOK'
    BY <1>0, <1>a, SequenceWord, FifoFacts DEF BootTypeOK, PushWord, BootGoto
  <1>2. AnswerInv'
    <2>1. CASE boot.index < 3
      <3>0. toOne' = Append(toOne, "0") /\ boot'.index < 3
        BY <1>a, <1>b, <2>1, SequenceFacts
      <3>1. CASE toOne = <<>> /\ toZero = <<>>
        <4>1. toOne' = <<"0">> /\ toZero' = <<>>
          BY <1>b, <3>0, <3>1, ShortFifo
        <4>2. QED
          <5>1. OneWord("0")' /\ toOne' # <<>>
            BY <4>1 DEF OneWord
          <5>2. QED
            BY <1>0, <1>a, <1>b, <3>0, <5>1 DEF AnswerInv, BeforeInv
      <3>2. ASSUME NEW w \in Digit, OneWord(w)
            PROVE  AnswerInv'
        <4>1. /\ toOne' # <<>>
              /\ \/ toZero' = <<w>> /\ toOne' = <<"0">>
                 \/ toZero' = <<>> /\ toOne' = <<w, "0">>
          <5>0. w \in Word /\ "0" \in Word /\ toZero' = toZero
            BY <1>b DEF Digit, Word
          <5>1. CASE toOne = <<w>> /\ toZero = <<>>
            BY <3>0, <5>0, <5>1, ShortFifo
          <5>2. CASE toOne = <<>> /\ toZero = <<w>>
            BY <3>0, <5>0, <5>2, ShortFifo
          <5>3. QED
            BY <3>2, <5>1, <5>2 DEF OneWord
        <4>2. \E first \in Digit : TwoWords(first, "0")'
          BY <4>1 DEF TwoWords
        <4>3. QED
          BY <1>0, <1>a, <1>b, <3>0, <4>1, <4>2 DEF AnswerInv, BeforeInv
      <3>3. NoWord \/ \E w \in Digit : OneWord(w)
        BY <1>0, <1>a, <2>1 DEF BeforeInv, Digit
      <3>4. QED
        BY <3>1, <3>2, <3>3 DEF NoWord
    <2>2. CASE boot.index = 3
      <3>0. toOne' = Append(toOne, "1") /\ boot'.index = 3
        BY <1>b, <2>2, SequenceFacts
      <3>1. CASE NoWord
        <4>1. toOne' = <<"1">> /\ toZero' = <<>> /\ rom'.took = 1
          BY <1>0, <1>b, <2>2, <3>0, <3>1, ShortFifo DEF BeforeInv, NoWord, OneWord
        <4>2. QED
          <5>1. OneWord("1")' /\ toOne' # <<>>
            BY <4>1 DEF OneWord
          <5>2. QED
            BY <1>0, <1>b, <3>0, <4>1, <5>1 DEF AnswerInv, BeforeInv
      <3>2. CASE OneWord("0")
        <4>1. toZero' = toZero
          BY <1>b
        <4>a. CASE toOne = <<"0">> /\ toZero = <<>>
          <5>1. toOne' = <<"0", "1">>
            BY <3>0, <4>a, ShortFifo DEF Word
          <5>2. QED
            BY <4>1, <4>a, <5>1, ShortFifo, <1>0, <1>b, <3>0 DEF TwoWords, AnswerInv, BeforeInv, Word
        <4>b. CASE toOne = <<>> /\ toZero = <<"0">>
          <5>1. toOne' = <<"1">>
            BY <3>0, <4>b, ShortFifo
          <5>2. QED
            BY <4>1, <4>b, <5>1, ShortFifo, <1>0, <1>b, <3>0 DEF TwoWords, AnswerInv, BeforeInv
        <4>2. QED
          BY <3>2, <4>a, <4>b DEF OneWord
      <3>3. QED
        BY <1>0, <2>2, <3>1, <3>2 DEF BeforeInv
    <2>3. CASE boot.index > 3
      <3>0. toOne' = <<sequence[boot.index]>> /\ toZero' = <<>>
        <4>1. sequence[boot.index] \in Word
          BY <1>a, SequenceWord
        <4>2. toOne = <<>> /\ toZero = <<>>
          BY <1>0, <2>3 DEF BeforeInv, NoWord
        <4>3. QED
          BY <1>b, <4>1, <4>2, ShortFifo
      <3>1. QED
        BY <1>0, <1>a, <1>b, <2>3, <3>0, ShortFifo DEF AnswerInv, BeforeInv, OneWord
    <2>4. QED
      BY <1>a, <2>1, <2>2, <2>3
  <1>3. HandshakeInv'
    <2>1. rom.at = "wake" => toOne' = <<"0">>
      BY <1>0, <1>b, SequenceFacts DEF HandshakeInv
    <2>2. QED
      BY <1>0, <1>b, <1>2, <2>1 DEF HandshakeInv
  <1>4. QED
    BY <1>0, <1>b, <1>1, <1>3 DEF LaunchInv, LaunchSound

\* What core 0 finds when it pops.
LEMMA PopOne ==
  ASSUME NEW w \in Word, OneWord(w), toZero # <<>>, toZero' = Tail(toZero), UNCHANGED toOne
  PROVE  Head(toZero) = w /\ toOne = <<>> /\ NoWord'
  BY ShortFifo DEF OneWord, NoWord

LEMMA PopTwo ==
  ASSUME NEW f \in Digit, NEW l \in Digit, TwoWords(f, l), toZero # <<>>,
         toZero' = Tail(toZero), UNCHANGED toOne
  PROVE  /\ Head(toZero) = f
         /\ \E w \in Digit : OneWord(w)' /\ (l = "0" => w = "0")
  <1>0. f \in Word /\ l \in Word
    BY DEF Digit, Word
  <1>1. CASE toZero = <<f>> /\ toOne = <<l>>
    BY <1>0, <1>1, ShortFifo DEF OneWord
  <1>2. CASE toOne = <<>> /\ \E w \in Digit : toZero = <<f, w>> /\ (l = "0" => w = "0")
    <2>1. PICK w \in Digit : toZero = <<f, w>> /\ (l = "0" => w = "0")
      BY <1>2
    <2>2. w \in Word
      BY DEF Digit, Word
    <2>3. Head(toZero) = f /\ toZero' = <<w>>
      BY <1>0, <2>1, <2>2, ShortFifo
    <2>4. OneWord(w)'
      BY <1>2, <2>3 DEF OneWord
    <2>5. QED
      BY <2>1, <2>3, <2>4
  <1>3. QED
    BY <1>1, <1>2 DEF TwoWords

LEMMA LaunchPopWord == LaunchInv /\ PopWord => LaunchInv'
  <1> SUFFICES ASSUME LaunchInv, PopWord PROVE LaunchInv'
    OBVIOUS
  <1>0. BootTypeOK /\ HandshakeInv /\ boot.at = "pop" /\ AnswerInv /\ toZero # <<>>
    BY DEF LaunchInv, HandshakeInv, PopWord, BootAt
  <1>a. boot.index \in 1..6
    BY <1>0, SequenceFacts DEF BootTypeOK
  <1>b. toZero' = Tail(toZero) /\ UNCHANGED <<rom, toOne, started>>
    BY DEF PopWord
  <1>c. rom.at # "wake" /\ rom.at \in {"rom", "entry", "run"}
    BY <1>0 DEF HandshakeInv
  <1>d. Tail(toZero) \in Seq(Word)
    BY <1>0, FifoFacts DEF BootTypeOK
  <1>1. CASE Head(toZero) = sequence[boot.index] /\ boot.index < 6
    <2>0. boot' = [boot EXCEPT !.at = "word", !.index = boot.index + 1]
      BY <1>1, SequenceFacts DEF PopWord
    <2>1. boot'.at = "word" /\ boot'.index = boot.index + 1
      BY <1>0, <2>0 DEF BootTypeOK
    <2>2. BootTypeOK'
      <3>1. boot.index + 1 \in DOMAIN sequence
        BY <1>a, <1>1, SequenceFacts
      <3>2. QED
        BY <1>0, <1>b, <1>d, <2>0, <3>1 DEF BootTypeOK
    <2>3. rom.at \notin {"entry", "run"}
      BY <1>0, <1>1, <1>a DEF AnswerInv
    <2>4. BeforeInv'
      <3>1. CASE boot.index < 3
        <4>0. "0" \in Word /\ "0" \in Digit
          BY DEF Word, Digit
        <4>1. CASE OneWord("0")
          <5>1. NoWord' /\ toOne = <<>>
            BY <1>0, <1>b, <4>0, <4>1, PopOne
          <5>2. boot.index = 2 => rom'.took = 1
            BY <1>0, <1>b, <5>1 DEF AnswerInv
          <5>3. QED
            BY <1>a, <1>b, <2>1, <2>3, <3>1, <5>1, <5>2 DEF BeforeInv
        <4>2. ASSUME NEW f \in Digit, TwoWords(f, "0")
              PROVE  BeforeInv'
          <5>1. OneWord("0")'
            BY <1>0, <1>b, <4>0, <4>2, PopTwo
          <5>2. QED
            BY <1>a, <1>b, <2>1, <2>3, <3>1, <5>1 DEF BeforeInv
        <4>3. QED
          BY <1>0, <3>1, <4>1, <4>2 DEF AnswerInv
      <3>2. CASE boot.index = 3
        <4>0. "0" \in Word /\ "0" \in Digit /\ "1" \in Word /\ "1" \in Digit /\ sequence[3] = "1"
          BY SequenceFacts DEF Word, Digit
        <4>1. ~TwoWords("0", "1")
          BY <1>0, <1>1, <1>b, <3>2, <4>0, PopTwo
        <4>2. OneWord("1") /\ rom.took = IF toOne = <<>> THEN 2 ELSE 1
          BY <1>0, <3>2, <4>1 DEF AnswerInv
        <4>3. NoWord' /\ rom'.took = 2
          BY <1>0, <1>b, <4>0, <4>2, PopOne
        <4>4. QED
          BY <1>b, <2>1, <2>3, <3>2, <4>3 DEF BeforeInv
      <3>3. CASE boot.index > 3
        <4>1. sequence[boot.index] \in Word
          BY <1>a, SequenceWord
        <4>2. NoWord' /\ toOne = <<>>
          BY <1>0, <1>b, <3>3, <4>1, PopOne DEF AnswerInv
        <4>3. rom'.took = boot.index - 1
          BY <1>0, <1>b, <3>3, <4>2 DEF AnswerInv
        <4>4. QED
          BY <1>a, <1>b, <2>1, <2>3, <3>3, <4>2, <4>3 DEF BeforeInv
      <3>4. QED
        BY <1>a, <3>1, <3>2, <3>3
    <2>5. HandshakeInv'
      BY <1>0, <1>b, <1>c, <2>1, <2>4 DEF HandshakeInv
    <2>6. QED
      BY <1>b, <2>1, <2>2, <2>5 DEF LaunchInv, LaunchSound
  <1>2. CASE Head(toZero) = sequence[boot.index] /\ boot.index = 6
    <2>0. boot' = [boot EXCEPT !.at = "wait"]
      BY <1>2, SequenceFacts DEF PopWord
    <2>1. boot'.at = "wait"
      BY <1>0, <2>0 DEF BootTypeOK
    <2>2. BootTypeOK'
      BY <1>0, <1>b, <1>d, <2>0 DEF BootTypeOK
    <2>3. sequence[boot.index] \in Word
      BY <1>a, SequenceWord
    <2>4. OneWord(sequence[boot.index])
      BY <1>0, <1>2 DEF AnswerInv
    <2>5. toOne = <<>>
      BY <1>0, <1>b, <2>3, <2>4, PopOne
    <2>6. rom.at \in {"entry", "run"}
      BY <1>0, <1>2, <2>5 DEF AnswerInv
    <2>7. HandshakeInv'
      BY <1>0, <1>b, <2>1, <2>5, <2>6 DEF HandshakeInv
    <2>8. QED
      BY <1>b, <2>1, <2>2, <2>6, <2>7 DEF LaunchInv, LaunchSound
  <1>3. CASE Head(toZero) # sequence[boot.index]
    <2>0. boot.index < 4
      <3>1. sequence[boot.index] \in Word
        BY <1>a, SequenceWord
      <3>2. ~OneWord(sequence[boot.index])
        BY <1>0, <1>b, <1>3, <3>1, PopOne
      <3>3. QED
        BY <1>0, <1>a, <3>2 DEF AnswerInv
    <2>1. rom.at \notin {"entry", "run"}
      BY <1>0, <2>0 DEF AnswerInv
    <2>2. NoWord' \/ \E w \in Digit : OneWord(w)'
      <3>0. "0" \in Word /\ "0" \in Digit /\ "1" \in Word /\ "1" \in Digit
        BY DEF Word, Digit
      <3>1. (\E w \in Digit : OneWord(w)) \/ \E f, l \in Digit : TwoWords(f, l)
        BY <1>0, <1>a, <2>0, <3>0 DEF AnswerInv
      <3>2. ASSUME NEW w \in Digit, OneWord(w) PROVE NoWord'
        BY <1>0, <1>b, <3>2, PopOne DEF Digit, Word
      <3>3. ASSUME NEW f \in Digit, NEW l \in Digit, TwoWords(f, l)
            PROVE  \E w \in Digit : OneWord(w)'
        BY <1>0, <1>b, <3>3, PopTwo
      <3>4. QED
        BY <3>1, <3>2, <3>3
    <2>3. CASE boot.failures = CORE1_LAUNCH_RETRIES
      <3>0. boot' = [boot EXCEPT !.at = "parked"]
        BY <1>3, <2>3 DEF PopWord
      <3>1. boot'.at = "parked"
        BY <1>0, <3>0 DEF BootTypeOK
      <3>2. BootTypeOK'
        BY <1>0, <1>b, <1>d, <3>0 DEF BootTypeOK
      <3>3. HandshakeInv'
        BY <1>0, <1>b, <3>1 DEF HandshakeInv
      <3>4. QED
        BY <1>b, <3>1, <3>2, <3>3 DEF LaunchInv, LaunchSound
    <2>4. CASE boot.failures # CORE1_LAUNCH_RETRIES
      <3>0. boot' = [at |-> "word", index |-> 1, failures |-> boot.failures + 1]
        BY <1>3, <2>4 DEF PopWord
      <3>1. boot'.at = "word" /\ boot'.index = 1
        BY <3>0
      <3>2. BootTypeOK'
        BY <1>0, <1>b, <1>d, <3>0, SequenceFacts DEF BootTypeOK
      <3>3. BeforeInv'
        BY <1>b, <2>1, <2>2, <3>1 DEF BeforeInv, NoWord, OneWord
      <3>4. HandshakeInv'
        BY <1>0, <1>b, <1>c, <3>1, <3>3 DEF HandshakeInv
      <3>5. QED
        BY <1>b, <3>1, <3>2, <3>4 DEF LaunchInv, LaunchSound
    <2>5. QED
      BY <2>3, <2>4
  <1>4. QED
    BY <1>1, <1>2, <1>3, <1>a

LEMMA LaunchStart == LaunchInv /\ Start => LaunchInv'
  <1> SUFFICES ASSUME LaunchInv, Start PROVE LaunchInv'
    OBVIOUS
  <1>0. /\ BootTypeOK /\ HandshakeInv /\ boot.at = "wait"
        /\ rom.at \in {"entry", "run"} /\ toOne = <<>> /\ UNCHANGED <<rom, toZero, started>>
    BY DEF LaunchInv, HandshakeInv, Start
  <1>1. CASE started
    <2>0. "bell" \in Word
      BY DEF Word
    <2>1. /\ boot' = [at |-> "run", index |-> 1, failures |-> 0]
          /\ toOne' = <<"bell">>
      BY <1>0, <1>1, <2>0, ShortFifo DEF Start
    <2>2. rom.at = "run"
      BY <1>0, <1>1 DEF HandshakeInv
    <2>3. BootTypeOK'
      <3>1. toOne' \in Seq(Word)
        BY <2>0, <2>1
      <3>2. QED
        BY <1>0, <2>1, <3>1, SequenceFacts DEF BootTypeOK
    <2>4. HandshakeInv'
      BY <1>0, <2>1, <2>2 DEF HandshakeInv
    <2>5. LaunchSound'
      <3>1. 1 \in DOMAIN toOne' /\ toOne'[1] = "bell"
        BY <2>1
      <3>2. QED
        BY <1>0, <2>1, <2>2, <3>1 DEF LaunchSound
    <2>6. QED
      BY <2>3, <2>4, <2>5 DEF LaunchInv
  <1>2. CASE ~started
    <2>1. boot' = [boot EXCEPT !.at = "parked"] /\ UNCHANGED toOne
      BY <1>2 DEF Start, BootGoto
    <2>2. boot'.at = "parked"
      BY <1>0, <2>1 DEF BootTypeOK
    <2>3. BootTypeOK'
      BY <1>0, <2>1 DEF BootTypeOK
    <2>4. HandshakeInv'
      BY <1>0, <2>1, <2>2 DEF HandshakeInv
    <2>5. QED
      BY <2>2, <2>3, <2>4 DEF LaunchInv, LaunchSound
  <1>3. QED
    BY <1>1, <1>2

LEMMA LaunchOldWord == LaunchInv /\ OldWord => LaunchInv'
  <1> SUFFICES ASSUME LaunchInv, OldWord PROVE LaunchInv'
    OBVIOUS
  <1>0. /\ BootTypeOK /\ HandshakeInv /\ rom.at = "old" /\ UNCHANGED <<boot, toOne, started>>
        /\ rom' = [rom EXCEPT !.at = "silent"] /\ toZero' = Append(toZero, "old")
    BY DEF LaunchInv, OldWord, RomAt
  <1>1. boot.at \in {"reset", "off", "parked"}
    BY <1>0 DEF LaunchInv, HandshakeInv, LaunchSound, BootTypeOK
  <1>2. rom'.at = "silent"
    BY <1>0 DEF BootTypeOK
  <1>3. BootTypeOK'
    <2>1. toZero' \in Seq(Word)
      BY <1>0, FifoFacts DEF BootTypeOK, Word
    <2>2. QED
      BY <1>0, <2>1 DEF BootTypeOK
  <1>4. HandshakeInv'
    BY <1>0, <1>1, <1>2 DEF HandshakeInv
  <1>5. QED
    BY <1>0, <1>1, <1>3, <1>4 DEF LaunchInv, LaunchSound

LEMMA LaunchWake == LaunchInv /\ Wake => LaunchInv'
  <1> SUFFICES ASSUME LaunchInv, Wake PROVE LaunchInv'
    OBVIOUS
  <1>0. /\ BootTypeOK /\ HandshakeInv /\ rom.at = "wake" /\ UNCHANGED <<boot, started>>
        /\ rom' = [at |-> "rom", took |-> 0] /\ toOne' = <<>> /\ toZero' = Append(toZero, "0")
    BY DEF LaunchInv, Wake, RomAt
  <1>1. boot.at \in {"word", "push", "pop", "parked"}
    BY <1>0 DEF LaunchInv, HandshakeInv, LaunchSound, BootTypeOK
  <1>2. BootTypeOK'
    <2>1. toZero' \in Seq(Word) /\ toOne' \in Seq(Word)
      BY <1>0, FifoFacts DEF BootTypeOK, Word
    <2>2. QED
      BY <1>0, <2>1 DEF BootTypeOK
  <1>3. ~(started /\ boot.at # "reset")
    BY <1>0 DEF HandshakeInv
  <1>4. CASE boot.at = "parked"
    BY <1>0, <1>2, <1>3, <1>4 DEF HandshakeInv, LaunchInv, LaunchSound
  <1>5. CASE boot.at # "parked"
    <2>1. boot.index = 1
      BY <1>0, <1>1, <1>5 DEF HandshakeInv
    <2>2. boot.at \in {"push", "pop"} => toZero' = <<"0">>
      <3>1. boot.at \in {"push", "pop"} => toZero = <<>>
        BY <1>0 DEF HandshakeInv
      <3>2. QED
        BY ZenonT(60), <1>0, <3>1, ShortFifo DEF Word
    <2>3. boot.at \in {"push", "pop"} => OneWord("0")'
      BY <1>0, <2>2 DEF OneWord
    <2>4. boot.at \in {"word", "push"} => BeforeInv'
      BY <1>0, <2>1, <2>3 DEF BeforeInv, Digit
    <2>5. boot.at = "pop" => AnswerInv'
      BY <1>0, <2>1, <2>3 DEF AnswerInv
    <2>6. HandshakeInv'
      BY <1>0, <1>1, <1>3, <1>5, <2>4, <2>5 DEF HandshakeInv
    <2>7. QED
      BY <1>0, <1>1, <1>2, <2>6 DEF LaunchInv, LaunchSound
  <1>6. QED
    BY <1>4, <1>5

LEMMA LaunchEntry == LaunchInv /\ Entry => LaunchInv'
  <1> SUFFICES ASSUME LaunchInv, Entry PROVE LaunchInv'
    OBVIOUS
  <1>0. BootTypeOK /\ HandshakeInv /\ rom.at = "entry" /\ UNCHANGED <<boot, toZero>>
    BY DEF LaunchInv, Entry, RomAt
  <1>1. boot.at = "parked" \/ (boot.at \in {"pop", "wait"} /\ toOne = <<>>)
    BY <1>0 DEF LaunchInv, HandshakeInv, LaunchSound, BootTypeOK, BeforeInv, AnswerInv
  <1>2. CASE toOne # <<>>
    <2>1. toOne' = Tail(toOne) /\ UNCHANGED <<rom, started>> /\ boot.at = "parked"
      BY <1>1, <1>2 DEF Entry
    <2>2. BootTypeOK'
      <3>1. toOne' \in Seq(Word)
        BY <1>0, <1>2, <2>1, FifoFacts DEF BootTypeOK
      <3>2. QED
        BY <1>0, <2>1, <3>1 DEF BootTypeOK
    <2>3. QED
      BY <1>0, <2>1, <2>2 DEF HandshakeInv, LaunchInv, LaunchSound
  <1>3. CASE toOne = <<>>
    <2>1. started' = TRUE /\ rom' = [rom EXCEPT !.at = "run"] /\ UNCHANGED toOne
      BY <1>3 DEF Entry
    <2>2. rom'.at = "run" /\ rom'.took = rom.took
      BY <1>0, <2>1 DEF BootTypeOK
    <2>3. BootTypeOK'
      BY <1>0, <2>1 DEF BootTypeOK
    <2>4. boot.at = "pop" => AnswerInv'
      BY <1>0, <1>3, <2>1, <2>2 DEF HandshakeInv, AnswerInv, OneWord, TwoWords
    <2>5. HandshakeInv'
      BY <1>0, <1>1, <2>1, <2>2, <2>4 DEF HandshakeInv
    <2>6. QED
      BY <1>0, <1>1, <2>2, <2>3, <2>5 DEF LaunchInv, LaunchSound
  <1>4. QED
    BY <1>2, <1>3

\* The words of the sequence as the bootrom counts them.
LEMMA TookFacts ==
  ASSUME NEW n \in 0..4
  PROVE  /\ Took(n, "0") = 1 /\ Took(n, "1") \in {0, 2} /\ (n = 1 => Took(n, "1") = 2)
         /\ n \in 2..4 => \A i \in 4..6 : Took(n, sequence[i]) = n + 1
         /\ \A w \in Word : Took(n, w) \in 0..5
  <1>1. Took(n, "0") = 1 /\ Took(n, "1") \in {0, 2} /\ (n = 1 => Took(n, "1") = 2)
    BY DEF Took
  <1>2. ASSUME n \in 2..4, NEW i \in 4..6 PROVE Took(n, sequence[i]) = n + 1
    BY <1>2, SequenceFacts DEF Took
  <1>3. ASSUME NEW w \in Word PROVE Took(n, w) \in 0..5
    BY DEF Took, Word
  <1>4. QED
    BY <1>1, <1>2, <1>3

\* The bootrom takes a word w and answers with a.
RomTakes(w, a, n) ==
  /\ toOne # <<>> /\ w = Head(toOne) /\ toOne' = Tail(toOne) /\ toZero' = Append(toZero, a)
  /\ n = Took(rom.took, w) /\ a \in (IF n = 0 THEN {"0", w} ELSE {w})
  /\ rom' = IF n = 5 THEN [at |-> "entry", took |-> 5] ELSE [rom EXCEPT !.took = n]

LEMMA RomWordTakes ==
  ASSUME LaunchInv, RomWord
  PROVE  /\ \E w, a \in Word, n \in 0..5 : RomTakes(w, a, n)
         /\ rom.at = "rom" /\ rom.took \in 0..4 /\ UNCHANGED <<boot, started>>
         /\ boot.at \in {"word", "push", "pop", "parked"}
  <1>1. BootTypeOK /\ rom.at = "rom" /\ UNCHANGED <<boot, started>> /\ toOne # <<>>
    BY DEF LaunchInv, RomWord, RomAt
  <1>2. rom.took \in 0..4
    BY <1>1 DEF BootTypeOK
  <1>3. Head(toOne) \in Word
    BY <1>1, FifoFacts DEF BootTypeOK
  <1>4. Took(rom.took, Head(toOne)) \in 0..5
    BY <1>2, <1>3, TookFacts
  <1>5. PICK w \in Word : w = Head(toOne)
    BY <1>3
  <1>6. PICK n \in 0..5 : n = Took(rom.took, w)
    BY <1>4, <1>5
  <1>7. PICK a \in (IF n = 0 THEN {"0", w} ELSE {w}) : toZero' = Append(toZero, a)
    BY <1>5, <1>6 DEF RomWord
  <1>8. a \in Word
    BY <1>7 DEF Word
  <1>9. RomTakes(w, a, n)
    BY <1>1, <1>5, <1>6, <1>7 DEF RomTakes, RomWord
  <1>10. boot.at \in {"word", "push", "pop", "parked"}
    BY <1>1 DEF LaunchInv, HandshakeInv, LaunchSound, BootTypeOK
  <1>11. QED
    BY <1>1, <1>2, <1>8, <1>9, <1>10

\* A word alone is answered; of two, the first.
LEMMA TakesOne ==
  ASSUME NEW v \in Word, OneWord(v), NEW w \in Word, NEW a \in Word, NEW n, RomTakes(w, a, n)
  PROVE  w = v /\ OneWord(a)' /\ toOne' = <<>>
  <1>1. toOne = <<v>> /\ toZero = <<>>
    BY DEF OneWord, RomTakes
  <1>2. w = v /\ toOne' = <<>> /\ toZero' = <<a>>
    BY <1>1, ShortFifo DEF RomTakes
  <1>3. QED
    BY <1>2 DEF OneWord

LEMMA TakesFirst ==
  ASSUME NEW f \in Digit, NEW l \in Digit, TwoWords(f, l),
         NEW w \in Digit \cup Word, NEW a \in Word, NEW n, RomTakes(w, a, n)
  PROVE  \/ w = f /\ toZero' = <<a>> /\ toOne' = <<l>>
         \/ w = l /\ toZero' = <<f, a>> /\ toOne' = <<>>
  <1>0. f \in Word /\ l \in Word
    BY DEF Digit, Word
  <1>1. CASE toZero = <<>> /\ toOne = <<f, l>>
    BY <1>0, <1>1, ShortFifo DEF RomTakes
  <1>2. CASE toZero = <<f>> /\ toOne = <<l>>
    BY <1>0, <1>2, ShortFifo DEF RomTakes
  <1>3. QED
    BY <1>1, <1>2 DEF TwoWords, RomTakes

LEMMA LaunchRomWord == LaunchInv /\ RomWord => LaunchInv'
  <1> SUFFICES ASSUME LaunchInv, RomWord PROVE LaunchInv'
    OBVIOUS
  <1>0. /\ BootTypeOK /\ HandshakeInv
        /\ rom.at = "rom" /\ rom.took \in 0..4 /\ UNCHANGED <<boot, started>>
        /\ boot.at \in {"word", "push", "pop", "parked"}
    BY RomWordTakes DEF LaunchInv
  <1>1. PICK w \in Word, a \in Word, n \in 0..5 : RomTakes(w, a, n)
    BY RomWordTakes
  <1>2. /\ n = Took(rom.took, w) /\ a \in (IF n = 0 THEN {"0", w} ELSE {w})
        /\ n # 5 => rom'.at = "rom" /\ rom'.took = n
        /\ n = 5 => rom'.at = "entry" /\ rom'.took = 5
    BY <1>0, <1>1 DEF RomTakes, BootTypeOK
  <1>3. BootTypeOK'
    <2>1. toOne' \in Seq(Word) /\ toZero' \in Seq(Word)
      BY <1>0, <1>1, FifoFacts DEF BootTypeOK, RomTakes
    <2>2. rom' \in [at : {"rom", "old", "silent", "off", "wake", "entry", "run"}, took : 0..5]
      BY <1>0, <1>1 DEF BootTypeOK, RomTakes
    <2>3. rom'.at = "rom" => rom'.took < 5
      BY <1>2
    <2>4. QED
      BY <1>0, <2>1, <2>2, <2>3 DEF BootTypeOK
  <1>4. ~started \/ boot.at = "reset"
    BY <1>0 DEF HandshakeInv
  <1>5. w \in Digit => n # 5 /\ a \in Digit /\ (w = "0" => n = 1 /\ a = "0")
    BY <1>0, <1>2, TookFacts DEF Digit
  <1>6. CASE boot.at = "parked"
    BY <1>0, <1>2, <1>3, <1>4, <1>6 DEF HandshakeInv, LaunchInv, LaunchSound
  <1>7. CASE boot.at \in {"word", "push"}
    <2>0. BeforeInv /\ toOne # <<>> /\ boot.index \in 1..6
      BY <1>0, <1>1, <1>7, SequenceFacts DEF HandshakeInv, RomTakes, BootTypeOK
    <2>1. \E v \in Digit : OneWord(v) /\ (boot.index > 1 => v = "0") /\ boot.index < 4
      <3>1. CASE boot.index = 1
        BY <1>7, <2>0, <3>1 DEF BeforeInv, NoWord, OneWord
      <3>2. CASE boot.index \in 2..3
        BY <2>0, <3>2 DEF BeforeInv, NoWord, Digit
      <3>3. QED
        BY <2>0, <3>1, <3>2 DEF BeforeInv, NoWord
    <2>2. PICK v \in Digit : OneWord(v) /\ (boot.index > 1 => v = "0") /\ boot.index < 4
      BY <2>1
    <2>3. w = v /\ OneWord(a)' /\ toOne' = <<>>
      BY <1>1, <2>2, TakesOne DEF Digit, Word
    <2>4. a \in Digit /\ (boot.index > 1 => a = "0") /\ rom'.at = "rom"
      BY <1>2, <1>5, <2>2, <2>3
    <2>5. BeforeInv'
      BY <1>0, <2>0, <2>2, <2>3, <2>4 DEF BeforeInv
    <2>6. HandshakeInv'
      BY <1>0, <1>4, <1>7, <2>4, <2>5 DEF HandshakeInv
    <2>7. QED
      BY <1>0, <1>3, <1>7, <2>6 DEF LaunchInv, LaunchSound
  <1>8. CASE boot.at = "pop"
    <2>0. AnswerInv /\ toOne # <<>> /\ boot.index \in 1..6
      BY <1>0, <1>1, <1>8, SequenceFacts DEF HandshakeInv, RomTakes, BootTypeOK
    <2>1. ASSUME boot.index < 3 PROVE AnswerInv'
      <3>0. "0" \in Digit /\ "0" \in Word
        BY DEF Digit, Word
      <3>1. CASE OneWord("0")
        <4>1. w = "0" /\ OneWord(a)' /\ toOne' = <<>>
          BY <1>1, <3>0, <3>1, TakesOne
        <4>2. OneWord("0")' /\ rom'.at = "rom" /\ rom'.took = 1
          BY <1>2, <1>5, <3>0, <4>1
        <4>3. QED
          BY <1>0, <2>0, <2>1, <4>2 DEF AnswerInv
      <3>2. ASSUME NEW f \in Digit, TwoWords(f, "0") PROVE AnswerInv'
        <4>0. \/ w = f /\ toZero' = <<a>> /\ toOne' = <<"0">>
              \/ w = "0" /\ toZero' = <<f, a>> /\ toOne' = <<>>
          BY <1>1, <3>0, <3>2, TakesFirst
        <4>1. CASE w = f /\ toZero' = <<a>> /\ toOne' = <<"0">>
          <5>1. a \in Digit /\ rom'.at = "rom"
            BY <1>2, <1>5, <4>1
          <5>2. TwoWords(a, "0")' /\ toOne' # <<>>
            BY <4>1 DEF TwoWords
          <5>3. QED
            BY <1>0, <2>0, <2>1, <5>1, <5>2 DEF AnswerInv
        <4>2. CASE w = "0" /\ toZero' = <<f, a>> /\ toOne' = <<>>
          <5>1. a = "0" /\ rom'.at = "rom" /\ rom'.took = 1
            BY <1>2, <1>5, <3>0, <4>2
          <5>2. TwoWords(f, "0")'
            BY <3>0, <4>2, <5>1 DEF TwoWords
          <5>3. QED
            BY <1>0, <2>0, <2>1, <5>1, <5>2 DEF AnswerInv
        <4>3. QED
          BY <4>0, <4>1, <4>2
      <3>3. QED
        BY <2>0, <2>1, <3>1, <3>2 DEF AnswerInv
    <2>2. ASSUME boot.index = 3 PROVE AnswerInv'
      <3>0. "0" \in Digit /\ "0" \in Word /\ "1" \in Digit /\ "1" \in Word
        BY DEF Digit, Word
      <3>1. CASE OneWord("1") /\ rom.took = IF toOne = <<>> THEN 2 ELSE 1
        <4>1. w = "1" /\ OneWord(a)' /\ toOne' = <<>> /\ rom.took = 1
          BY <1>1, <2>0, <3>0, <3>1, TakesOne
        <4>2. n = 2 /\ a = "1"
          BY <1>2, <4>1, TookFacts
        <4>3. QED
          BY <1>0, <1>2, <2>2, <4>1, <4>2 DEF AnswerInv
      <3>2. CASE TwoWords("0", "1")
        <4>0. \/ w = "0" /\ toZero' = <<a>> /\ toOne' = <<"1">>
              \/ w = "1" /\ toZero' = <<"0", a>> /\ toOne' = <<>>
          BY <1>1, <3>0, <3>2, TakesFirst
        <4>1. rom'.at = "rom" /\ a \in Digit /\ (w = "0" => a = "0")
          BY <1>2, <1>5, <3>0, <4>0
        <4>2. TwoWords("0", "1")'
          BY <4>0, <4>1 DEF TwoWords
        <4>3. QED
          BY <1>0, <2>2, <4>1, <4>2 DEF AnswerInv
      <3>3. QED
        BY <2>0, <2>2, <3>1, <3>2 DEF AnswerInv
    <2>3. ASSUME boot.index > 3 PROVE AnswerInv'
      <3>0. sequence[boot.index] \in Word
        BY <2>0, SequenceWord
      <3>1. OneWord(sequence[boot.index]) /\ rom.took = boot.index - 2
        BY <2>0, <2>3 DEF AnswerInv
      <3>2. w = sequence[boot.index] /\ OneWord(a)' /\ toOne' = <<>>
        BY <1>1, <3>0, <3>1, TakesOne
      <3>3. n = boot.index - 1
        <4>1. rom.took \in 2..4 /\ boot.index \in 4..6
          BY <2>0, <2>3, <3>1
        <4>2. QED
          BY <1>0, <1>2, <3>1, <3>2, <4>1, TookFacts
      <3>4. a = w /\ rom'.took = n /\ (rom'.at = "entry" <=> boot.index = 6) /\ rom'.at # "run"
        BY <1>2, <2>0, <2>3, <3>3
      <3>5. QED
        BY <1>0, <2>0, <2>3, <3>2, <3>3, <3>4 DEF AnswerInv
    <2>4. AnswerInv'
      BY <2>0, <2>1, <2>2, <2>3
    <2>5. rom'.at \in {"rom", "entry"}
      BY <1>2
    <2>6. HandshakeInv'
      BY <1>0, <1>4, <1>8, <2>4, <2>5 DEF HandshakeInv
    <2>7. QED
      BY <1>0, <1>3, <1>8, <2>6 DEF LaunchInv, LaunchSound
  <1>9. QED
    BY <1>0, <1>6, <1>7, <1>8

LEMMA LaunchStep == LaunchInv /\ [Next]_vars => LaunchInv'
  <1> SUFFICES ASSUME LaunchInv, [Next]_vars PROVE LaunchInv'
    OBVIOUS
  <1>1. ASSUME UNCHANGED bootVars PROVE LaunchInv'
    BY <1>1 DEF bootVars, LaunchInv, BootTypeOK, HandshakeInv, BeforeInv, AnswerInv, NoWord,
                OneWord, TwoWords, LaunchSound
  <1>2. CASE Boot
    BY <1>2, LaunchReset, LaunchForceOff, LaunchForceOn, LaunchDrain, LaunchPushWord,
       LaunchPopWord, LaunchStart, LaunchOldWord, LaunchWake, LaunchRomWord, LaunchEntry
       DEF Boot, CoreZero, CoreOne
  <1>3. CASE Running \/ UNCHANGED vars
    BY <1>1, <1>3 DEF Running, vars
  <1>4. QED
    BY <1>2, <1>3 DEF Next

\* The handshake never has more than one word too many between the cores, core 0
\* goes on from launch_core1 only when core 1 is in core1_entry or beyond, and
\* its first doorbell is not lost to core 1's drain: for any number of retries
\* and any FIFO depth.
THEOREM LaunchIsSound == Spec => []LaunchSound
  <1>1. Init => LaunchInv
    BY LaunchInit
  <1>2. LaunchInv /\ [Next]_vars => LaunchInv'
    BY LaunchStep
  <1>3. LaunchInv => LaunchSound
    BY DEF LaunchInv
  <1>4. QED
    BY <1>1, <1>2, <1>3, PTL DEF Spec

-----------------------------------------------------------------------------
(* The tap spool.                                                          *)

DiagnosticInv == SpoolTypeOK /\ \A c \in Core : SpoolInv(c)

\* Only the diagnostic steps and Hibana touch the spools.
LEMMA DiagnosticSteps ==
  ASSUME Next
  PROVE  UNCHANGED diagnostics \/ \E c \in Core : SpoolStep(c) \/ TapStep(c) \/ Emit(c)
  <1>1. CASE Boot
    BY <1>1 DEF Boot, CoreZero, CoreOne, Reset, ForceOff, ForceOn, Drain, PushWord, PopWord, Wake,
                RomWord, Entry, Start, OldWord, BootAt, RomAt, epfVars, epfButUp
  <1>2. ASSUME NEW c \in Core, LoadStep(c) PROVE UNCHANGED diagnostics
    BY <1>2 DEF LoadStep, Prepare, Verify, Copy, LoadVm, PutCell, PutLen, PutDigest, PutLocal,
                PutLoaded, Active, CopyActive, LoadActive
  <1>3. ASSUME NEW c \in Core, PollDiagnostic(c) \/ WfeReturns(c) \/ DelayStep(c) \/ Panic(c)
        PROVE  UNCHANGED diagnostics
    BY <1>3 DEF PollDiagnostic, WfeReturns, DelayStep, DelayArms, DelayEnds, Panic
  <1>4. ASSUME Probe PROVE UNCHANGED diagnostics
    BY <1>4 DEF Probe, ProbeBegin, ProbeCell, ProbeLength, ProbeCommit
  <1>5. ASSUME DriverStep \/ EngineStep \/ DriverGiveUp PROVE UNCHANGED diagnostics
    BY <1>5 DEF DriverStep, EngineStep, DriverWait, DriverDelay, DriverRead, DriverSend,
                DriverIrq, TimerFact, DriverUartLoad, DriverDrain, DriverDone, DriverSuccess,
                EngineRecv, EnginePolicy, EngineArms, RouteAlarm, EngineIrq, EngineAck, Answer,
                DriverGiveUp
  <1>6. ASSUME UartHost \/ UartIrq PROVE UNCHANGED diagnostics
    BY <1>6 DEF UartHost, UartIrq
  <1>7. CASE EpfNext
    BY <1>2, <1>3, <1>4, <1>5, <1>6, <1>7 DEF EpfNext, DiagnosticStep
  <1>8. QED
    BY <1>1, <1>7 DEF Next, Running

LEMMA DiagnosticInit == Init => DiagnosticInv
  <1> SUFFICES ASSUME Init PROVE DiagnosticInv
    OBVIOUS
  <1>1. /\ spool = [c \in Core |-> [kept |-> <<>>, read |-> 0]]
        /\ tap = [c \in Core |-> [emitted |-> 0, taken |-> 0, ran |-> {}]]
    BY DEF Init, EpfInit
  <1>2. SpoolTypeOK
    BY <1>1 DEF SpoolTypeOK
  <1>3. ASSUME NEW c \in Core PROVE SpoolInv(c)
    BY <1>1, EpfAssumption DEF SpoolInv
  <1>4. QED
    BY <1>2, <1>3 DEF DiagnosticInv

\* A kept event is run.
LEMMA SpoolReads ==
  ASSUME DiagnosticInv, NEW c \in Core, SpoolStep(c)
  PROVE  DiagnosticInv'
  <1>1. CASE UNCHANGED diagnostics
    BY <1>1 DEF diagnostics, DiagnosticInv, SpoolTypeOK, SpoolInv
  <1>2. CASE /\ spool[c].read < Len(spool[c].kept)
             /\ spool' = [spool EXCEPT ![c].read = spool[c].read + 1]
             /\ Ran(c, spool[c].kept[spool[c].read + 1])
    <2> DEFINE n == spool[c].read + 1
    <2>0. SpoolTypeOK /\ SpoolInv(c) /\ spool[c].kept \in Seq(Nat) /\ Len(spool[c].kept) \in Nat
      BY DEF DiagnosticInv, SpoolTypeOK
    <2>1. n \in 1..Len(spool[c].kept)
      BY <1>2, <2>0 DEF SpoolTypeOK
    <2>2. spool[c].kept[n] = n
      BY <2>0, <2>1 DEF SpoolInv
    <2>3. tap' = [tap EXCEPT ![c].ran = tap[c].ran \cup {n}]
      BY <1>2, <2>2 DEF Ran
    <2>4. /\ spool'[c].kept = spool[c].kept /\ spool'[c].read = n
          /\ \A d \in Core : d # c => spool'[d] = spool[d]
      BY <1>2, <2>0 DEF SpoolTypeOK
    <2>5. /\ tap'[c].ran = tap[c].ran \cup {n} /\ tap'[c].taken = tap[c].taken
          /\ tap'[c].emitted = tap[c].emitted /\ \A d \in Core : d # c => tap'[d] = tap[d]
      BY <2>0, <2>3 DEF SpoolTypeOK
    <2>6. SpoolTypeOK'
      <3>1. n \in Nat
        BY <2>0 DEF SpoolTypeOK
      <3>2. spool' \in [Core -> [kept : Seq(Nat), read : Nat]]
        BY <1>2, <2>0, <3>1 DEF SpoolTypeOK
      <3>3. tap' \in [Core -> [emitted : Nat, taken : Nat, ran : SUBSET Nat]]
        BY <2>0, <2>3, <3>1 DEF SpoolTypeOK
      <3>4. QED
        BY <3>2, <3>3 DEF SpoolTypeOK
    <2>7. SpoolInv(c)'
      <3>1. 1..n \subseteq tap[c].ran \cup {n}
        BY <2>0 DEF SpoolInv, SpoolTypeOK
      <3>2. QED
        BY <2>0, <2>1, <2>4, <2>5, <3>1 DEF SpoolInv
    <2>8. ASSUME NEW d \in Core, d # c PROVE SpoolInv(d)'
      BY <2>4, <2>5, <2>8 DEF SpoolInv, DiagnosticInv
    <2>9. QED
      BY <2>6, <2>7, <2>8 DEF DiagnosticInv
  <1>3. QED
    BY <1>1, <1>2 DEF SpoolStep

\* An event is taken, kept while there is room, and run if there is an image.
LEMMA TapTakes ==
  ASSUME DiagnosticInv, NEW c \in Core, TapStep(c)
  PROVE  DiagnosticInv'
  <1>1. CASE UNCHANGED diagnostics
    BY <1>1 DEF diagnostics, DiagnosticInv, SpoolTypeOK, SpoolInv
  <1>2. CASE ~UNCHANGED diagnostics
    <2> DEFINE e == tap[c].taken + 1
               k == spool[c].kept
               l == IF Len(k) < EPF_TAP_SPOOL_EVENTS THEN Append(k, e) ELSE k
               r == IF LoadedForCore(c) THEN tap[c].ran \cup {e} ELSE tap[c].ran
    <2>0. /\ SpoolTypeOK /\ SpoolInv(c) /\ k \in Seq(Nat) /\ Len(k) \in Nat
          /\ tap[c].taken \in Nat /\ tap[c].emitted \in Nat /\ e \in Nat
      BY DEF DiagnosticInv, SpoolTypeOK
    <2>1. /\ tap[c].taken < tap[c].emitted
          /\ spool' = [spool EXCEPT ![c].kept = l]
          /\ tap' = [tap EXCEPT ![c].taken = e, ![c].ran = r]
      BY <1>2 DEF TapStep
    <2>2. l \in Seq(Nat) /\ r \in SUBSET Nat /\ tap[c].ran \subseteq r
      BY <2>0 DEF SpoolTypeOK
    <2>3. /\ spool'[c].kept = l /\ spool'[c].read = spool[c].read
          /\ \A d \in Core : d # c => spool'[d] = spool[d]
      BY <2>0, <2>1 DEF SpoolTypeOK
    <2>4. /\ tap'[c].ran = r /\ tap'[c].taken = e
          /\ tap'[c].emitted = tap[c].emitted /\ \A d \in Core : d # c => tap'[d] = tap[d]
      BY <2>0, <2>1 DEF SpoolTypeOK
    <2>5. SpoolTypeOK'
      <3>2. spool' \in [Core -> [kept : Seq(Nat), read : Nat]]
        BY <2>0, <2>1, <2>2 DEF SpoolTypeOK
      <3>3. tap' \in [Core -> [emitted : Nat, taken : Nat, ran : SUBSET Nat]]
        BY ZenonT(60), <2>0, <2>1, <2>2 DEF SpoolTypeOK
      <3>4. QED
        BY <3>2, <3>3 DEF SpoolTypeOK
    <2>6. SpoolInv(c)'
      <3>0. EPF_TAP_SPOOL_EVENTS \in Nat \ {0}
        BY EpfAssumption
      <3>1. CASE Len(k) < EPF_TAP_SPOOL_EVENTS
        <4>1. l = Append(k, e) /\ Len(k) = tap[c].taken
          BY <2>0, <3>0, <3>1 DEF SpoolInv
        <4>2. /\ Len(l) = Len(k) + 1 /\ l[Len(k) + 1] = e
              /\ \A n \in 1..Len(k) : l[n] = k[n]
          BY SMTT(40), <2>0, <4>1, AppendProperties
        <4>3. ASSUME NEW n \in 1..Len(l) PROVE l[n] = n
          <5>1. CASE n \in 1..Len(k)
            BY <2>0, <4>2, <5>1 DEF SpoolInv
          <5>2. CASE n = Len(k) + 1
            BY <4>1, <4>2, <5>2
          <5>3. QED
            BY <2>0, <4>2, <5>1, <5>2
        <4>4. /\ spool[c].read <= Len(l)
              /\ Len(l) = IF e < EPF_TAP_SPOOL_EVENTS THEN e ELSE EPF_TAP_SPOOL_EVENTS
          BY <2>0, <3>0, <3>1, <4>1, <4>2 DEF SpoolInv, SpoolTypeOK
        <4>5. 1..spool[c].read \subseteq r /\ e <= tap[c].emitted
          BY <2>0, <2>1, <2>2 DEF SpoolInv
        <4>6. QED
          BY <2>3, <2>4, <4>3, <4>4, <4>5 DEF SpoolInv
      <3>2. CASE ~(Len(k) < EPF_TAP_SPOOL_EVENTS)
        <4>1. l = k /\ Len(k) = EPF_TAP_SPOOL_EVENTS /\ ~(e < EPF_TAP_SPOOL_EVENTS)
          BY <2>0, <3>0, <3>2 DEF SpoolInv
        <4>2. 1..spool[c].read \subseteq r /\ e <= tap[c].emitted
          BY <2>0, <2>1, <2>2 DEF SpoolInv
        <4>3. QED
          BY <2>0, <2>3, <2>4, <4>1, <4>2 DEF SpoolInv
      <3>3. QED
        BY <3>1, <3>2
    <2>7. ASSUME NEW d \in Core, d # c PROVE SpoolInv(d)'
      BY <2>3, <2>4, <2>7 DEF SpoolInv, DiagnosticInv
    <2>8. QED
      BY <2>5, <2>6, <2>7 DEF DiagnosticInv
  <1>3. QED
    BY <1>1, <1>2

LEMMA EmitKeeps ==
  ASSUME DiagnosticInv, NEW c \in Core, Emit(c)
  PROVE  DiagnosticInv'
  <1>1. spool' = spool /\ tap' = [tap EXCEPT ![c].emitted = tap[c].emitted + 1]
    BY DEF Emit
  <1>2. SpoolTypeOK
    BY DEF DiagnosticInv
  <1>3. /\ tap'[c].ran = tap[c].ran /\ tap'[c].taken = tap[c].taken
        /\ tap'[c].emitted = tap[c].emitted + 1 /\ \A d \in Core : d # c => tap'[d] = tap[d]
        /\ tap[c].emitted \in Nat /\ tap[c].taken \in Nat
    BY <1>1, <1>2 DEF SpoolTypeOK
  <1>4. SpoolTypeOK'
    <2>1. tap[c].emitted + 1 \in Nat
      BY <1>3
    <2>2. tap' \in [Core -> [emitted: Nat, taken: Nat, ran: SUBSET Nat]]
      BY <1>1, <1>2, <2>1 DEF SpoolTypeOK
    <2>3. QED
      BY <1>1, <1>2, <2>2 DEF SpoolTypeOK
  <1>5. ASSUME NEW d \in Core PROVE SpoolInv(d)'
    BY <1>1, <1>3 DEF SpoolInv, DiagnosticInv
  <1>6. QED
    BY <1>4, <1>5 DEF DiagnosticInv

LEMMA DiagnosticStepKeeps == DiagnosticInv /\ [Next]_vars => DiagnosticInv'
  <1> SUFFICES ASSUME DiagnosticInv, [Next]_vars PROVE DiagnosticInv'
    OBVIOUS
  <1>1. ASSUME UNCHANGED diagnostics PROVE DiagnosticInv'
    BY <1>1 DEF diagnostics, DiagnosticInv, SpoolTypeOK, SpoolInv
  <1>2. CASE Next
    BY <1>1, <1>2, DiagnosticSteps, SpoolReads, TapTakes, EmitKeeps
  <1>3. CASE UNCHANGED vars
    BY <1>1, <1>3 DEF vars, epfVars
  <1>4. QED
    BY <1>2, <1>3

\* A tap event taken from Hibana's ring is in the spool still to be read, or it
\* ran through the VM, or it came when the spool was full: for any number of
\* events, any size of the spool and any moment at which an image arrives.
THEOREM EventsAreKept == Spec => []NoEventMissed
  <1>1. DiagnosticInv => NoEventMissed
    <2> SUFFICES ASSUME DiagnosticInv, NEW c \in Core, NEW e \in 1..tap[c].taken,
                        e \notin tap[c].ran, ~(e > EPF_TAP_SPOOL_EVENTS)
                 PROVE  \E n \in spool[c].read + 1..Len(spool[c].kept) : spool[c].kept[n] = e
      BY DEF NoEventMissed
    <2>1. /\ SpoolInv(c) /\ Len(spool[c].kept) \in Nat /\ spool[c].read \in Nat
          /\ tap[c].taken \in Nat /\ EPF_TAP_SPOOL_EVENTS \in Nat
      BY EpfAssumption DEF DiagnosticInv, SpoolTypeOK
    <2>2. e \in 1..Len(spool[c].kept)
      BY <2>1 DEF SpoolInv
    <2>3. ~(e \in 1..spool[c].read)
      BY <2>1 DEF SpoolInv
    <2>4. e \in spool[c].read + 1..Len(spool[c].kept) /\ spool[c].kept[e] = e
      BY <2>1, <2>2, <2>3 DEF SpoolInv
    <2>5. QED
      BY <2>4
  <1>2. QED
    BY <1>1, DiagnosticInit, DiagnosticStepKeeps, PTL DEF Spec

-----------------------------------------------------------------------------
(* The image words, where one image is on its way.                         *)

WordsInv ==
  /\ WordsTypeOK /\ UartTypeOK /\ ProbeInv /\ CommittedInv /\ NamedInv /\ TaskInv
  /\ FactFindsImage
  /\ \A c \in Core : LoadInv(c)

\* The image of the session is a proper one.
LEMMA ImageFacts ==
  ASSUME OneImage, site \in Site
  PROVE  /\ Cells \in Nat /\ Cells >= 1 /\ 1 \in Cell /\ Cells \in Cell /\ None # Mixed
         /\ TheImage \in Images /\ TheImage \notin {None, Mixed}
         /\ Full \in Held /\ Full # Blank /\ \A k \in Cell : Full[k] = TheImage
         /\ Digest(Full) = TheImage /\ Accepts(Full)
         /\ Len(site.commits) \in {0, 1} /\ (site.commits = <<>> <=> Len(site.commits) = 0)
         /\ site.capsule \in {"diagnostic", "policy"} /\ site.uart \in BOOLEAN
         /\ site.uart => site.commits = <<>>
         /\ site.commits = <<>> => TheImage = PolicyImage
         /\ site.commits # <<>> => /\ site.commits[1].image = TheImage
                                   /\ site.commits[1].fault \in {"none", "hash", "len"}
  <1>1. /\ Cells \in Nat /\ Cells >= 1 /\ None # Mixed
        /\ site.commits \in Seq([image : STRING \ {None, Mixed}, fault : {"none", "hash", "len"}])
        /\ site.capsule \in {"diagnostic", "policy"} /\ site.uart \in BOOLEAN
        /\ PolicyImage \notin {None, Mixed}
    <2>1. Cells \in Nat /\ Cells >= 1 /\ None # Mixed /\ PolicyImage \notin {None, Mixed}
      BY EpfAssumption
    <2>2. /\ site.commits \in Seq([image : STRING \ {None, Mixed}, fault : {"none", "hash", "len"}])
          /\ site.capsule \in {"diagnostic", "policy"} /\ site.uart \in BOOLEAN
      BY EpfAssumption, Zenon
    <2>3. QED
      BY <2>1, <2>2
  <1>2. Len(site.commits) <= 1
    BY DEF OneImage
  <1>a. site.uart => site.commits = <<>>
    BY DEF OneImage
  <1>3. /\ Len(site.commits) \in {0, 1} /\ (site.commits = <<>> <=> Len(site.commits) = 0)
        /\ site.commits # <<>> => /\ 1 \in DOMAIN site.commits
                                  /\ site.commits[1].image \notin {None, Mixed}
                                  /\ site.commits[1].fault \in {"none", "hash", "len"}
    <2> DEFINE Given == [image : STRING \ {None, Mixed}, fault : {"none", "hash", "len"}]
    <2>1. Len(site.commits) \in {0, 1} /\ (site.commits = <<>> <=> Len(site.commits) = 0)
      <3> HIDE DEF Given
      <3>1. site.commits \in Seq(Given)
        BY <1>1 DEF Given
      <3>2. Len(site.commits) \in Nat
        BY <3>1
      <3>3. site.commits = <<>> => Len(site.commits) = 0
        BY EmptySeq
      <3>4. site.commits # <<>> => Len(site.commits) # 0
        BY <3>1, EmptySeq
      <3>5. Len(site.commits) \in {0, 1}
        <4>1. \A n \in Nat : n <= 1 => n \in {0, 1}
          OBVIOUS
        <4>2. QED
          BY <1>2, <3>2, <4>1, Zenon
      <3>6. QED
        BY <3>3, <3>4, <3>5
    <2>2. site.commits # <<>> => 1 \in DOMAIN site.commits /\ site.commits[1] \in Given
      <3> HIDE DEF Given
      <3>1. site.commits \in Seq(Given)
        BY <1>1 DEF Given
      <3>2. QED
        BY <2>1, <3>1
    <2>3. \A g \in Given : g.image \notin {None, Mixed} /\ g.fault \in {"none", "hash", "len"}
      OBVIOUS
    <2>4. QED
      BY <2>1, <2>2, <2>3
  <1>4. TheImage \in Images /\ TheImage \notin {None, Mixed}
    BY <1>1, <1>3 DEF TheImage, Images
  <1>5. 1 \in Cell /\ Cells \in Cell
    BY <1>1 DEF Cell
  <1>6. Full \in Held /\ \A k \in Cell : Full[k] = TheImage
    BY <1>4 DEF Full, Whole, Held
  <1>7. Full # Blank
    BY <1>4, <1>5, <1>6 DEF Blank
  <1>8. Digest(Full) = TheImage
    BY <1>5, <1>6 DEF Digest
  <1>9. QED
    BY <1>1, <1>a, <1>3, <1>4, <1>5, <1>6, <1>7, <1>8 DEF Accepts, TheImage

\* The site does not change, and neither does what is read off it.
LEMMA SiteKept ==
  ASSUME site' = site
  PROVE  /\ TheImage' = TheImage /\ Full' = Full /\ Images' = Images /\ Held' = Held
         /\ Name' = Name /\ Job' = Job /\ Loadable' = Loadable
  BY DEF TheImage, Full, Whole, Images, Held, Name, Job, Loadable

\* The image words of a core say that its image is loaded.
LEMMA LoadedMeans ==
  ASSUME OneImage, site \in Site, NamedInv, NEW c \in Core
  PROVE  LoadedForCore(c) <=> local[c] = TheImage
  BY ImageFacts DEF LoadedForCore, NamedInv

\* Two images are the same when their cells are.
LEMMA SameCells ==
  ASSUME NEW a \in Held, \A k \in Cell : a[k] = TheImage
  PROVE  a = Full
  BY DEF Held, Full, Whole

\* A step of core c: the other core finds what it had, since words that name
\* the image only come to name it.
LEMMA CoreStep ==
  ASSUME OneImage, WordsInv, NEW c \in Core,
         UNCHANGED <<site, probe, len, hash, image>>,
         state' \in {state, "REJECTED", "LOADED"},
         WordsTypeOK', UartTypeOK', NamedInv', TaskInv', FactFindsImage', LoadInv(c)',
         \A d \in Core : d # c => job'[d] = job[d] /\ vm'[d] = vm[d] /\ local'[d] = local[d],
         \A k \in Cell : active[k] = TheImage => active'[k] = TheImage,
         activeLen = Cells => activeLen' = Cells,
         digest = TheImage => digest' = TheImage
  PROVE  WordsInv'
  <1>0. site \in Site /\ WordsTypeOK /\ ProbeInv /\ CommittedInv
    BY DEF WordsInv, WordsTypeOK
  <1>1. TheImage' = TheImage /\ Full' = Full /\ Held' = Held /\ Loadable' = Loadable
    BY SiteKept
  <1>2. ProbeInv'
    BY <1>0 DEF ProbeInv, Commit
  <1>3. CommittedInv'
    BY <1>0, <1>1 DEF CommittedInv
  <1>4. ASSUME NEW d \in Core, d # c PROVE LoadInv(d)'
    <2>1. active = Full => active' = Full
      <3>1. active' \in Held
        BY <1>1 DEF WordsTypeOK
      <3>2. active = Full => \A k \in Cell : active'[k] = TheImage
        BY <1>0, ImageFacts
      <3>3. QED
        BY <3>1, <3>2, SameCells
    <2>2. job'[d] = job[d] /\ vm'[d] = vm[d] /\ local'[d] = local[d] /\ LoadInv(d)
      BY <1>4 DEF WordsInv
    <2>3. \A k \in Cell : \A j \in 1..k - 1 : j \in Cell
      BY <1>0, ImageFacts DEF Cell
    <2>4. QED
      BY <1>1, <2>1, <2>2, <2>3 DEF LoadInv
  <1>5. QED
    BY <1>2, <1>3, <1>4 DEF WordsInv

\* What the localsides hold does not change with the words.
LEMMA TaskFrame ==
  ASSUME OneImage, WordsInv, NamedInv', site' = site,
         UNCHANGED <<task, message, uart>>,
         \A d \in Core : job'[d].held = job[d].held,
         \A d \in Core : local[d] = TheImage => local'[d] = TheImage
  PROVE  TaskInv' /\ FactFindsImage'
  <1>0. site \in Site /\ TaskInv /\ NamedInv /\ FactFindsImage
    BY DEF WordsInv, WordsTypeOK
  <1>1. TheImage' = TheImage /\ Full' = Full
    BY SiteKept
  <1>2. ASSUME NEW d \in Core PROVE LoadedForCore(d) => LoadedForCore(d)'
    <2>1. LoadedForCore(d) => local'[d] = TheImage
      BY <1>0, LoadedMeans
    <2>2. local'[d] = TheImage => LoadedForCore(d)'
      BY <1>0, <1>1, ImageFacts DEF LoadedForCore, NamedInv
    <2>3. QED
      BY <2>1, <2>2
  <1>3. 0 \in Core
    BY DEF Core
  <1>4. QED
    BY <1>0, <1>1, <1>2, <1>3 DEF TaskInv, FactFindsImage

\* The probe commits once.
LEMMA CommitFacts ==
  ASSUME OneImage, WordsInv
  PROVE  /\ probe.commits \in {0, 1} /\ (probe.commits = 1 => site.commits # <<>>)
         /\ state = "COMMIT" => probe.commits = 1
         /\ probe.at # "ready" => probe.commits = 0 /\ site.commits # <<>> /\ Commit = site.commits[1]
  <1>1. /\ site \in Site /\ ProbeInv /\ probe.commits \in Nat
    BY DEF WordsInv, WordsTypeOK
  <1>2. Len(site.commits) \in {0, 1} /\ (site.commits = <<>> <=> Len(site.commits) = 0)
    BY <1>1, ImageFacts
  <1>3. /\ probe.commits <= Len(site.commits)
        /\ probe.at # "ready" => probe.commits < Len(site.commits)
        /\ state = "COMMIT" => probe.commits > 0
    BY <1>1 DEF ProbeInv
  <1>4. \A n \in Nat, l \in {0, 1} : /\ n <= l => n \in {0, 1} /\ (n = 1 => l = 1)
                                     /\ n < l => n = 0 /\ l = 1 /\ n + 1 = 1
                                     /\ n > 0 /\ n <= l => n = 1
    OBVIOUS
  <1>5. probe.at # "ready" => probe.commits + 1 = 1
    BY <1>1, <1>2, <1>3, <1>4, Zenon
  <1>6. /\ probe.commits \in {0, 1} /\ (probe.commits = 1 => Len(site.commits) = 1)
        /\ state = "COMMIT" => probe.commits = 1
        /\ probe.at # "ready" => probe.commits = 0 /\ Len(site.commits) = 1
    BY <1>1, <1>2, <1>3, <1>4, Zenon
  <1>7. probe.at # "ready" => Commit = site.commits[1]
    BY <1>5, Zenon DEF Commit
  <1>8. Len(site.commits) = 1 => site.commits # <<>>
    BY <1>2
  <1>9. QED
    BY <1>6, <1>7, <1>8, Zenon

\* A step of core c that only changes where it stands.
LEMMA JobStep ==
  ASSUME OneImage, WordsInv, NEW c \in Core,
         UNCHANGED <<site, up, probe, len, hash, image, active, activeLen, digest, target, local,
                     vm, task, message, uart>>,
         state' \in {state, "REJECTED"},
         reason' \in {"NONE", "BAD_LEN", "BAD_HASH", "LOAD_ERROR"},
         job' \in [Core -> Job], job'[c].held = job[c].held,
         \A d \in Core : d # c => job'[d] = job[d],
         LoadInv(c)'
  PROVE  WordsInv'
  <1>0. /\ WordsTypeOK /\ UartTypeOK /\ NamedInv
    BY DEF WordsInv
  <1>1. /\ TheImage' = TheImage /\ Full' = Full /\ Held' = Held /\ Name' = Name
        /\ Job' = Job /\ Loadable' = Loadable
    BY SiteKept
  <1>2. WordsTypeOK' /\ UartTypeOK'
    BY <1>0, <1>1 DEF WordsTypeOK, UartTypeOK
  <1>3. NamedInv'
    BY <1>0, <1>1 DEF NamedInv
  <1>4. TaskInv' /\ FactFindsImage'
    BY <1>3, TaskFrame
  <1>5. QED
    BY <1>2, <1>3, <1>4, CoreStep

LEMMA PrepareKeeps ==
  ASSUME OneImage, WordsInv, NEW c \in Core, Prepare(c)
  PROVE  WordsInv'
  <1>1. /\ job' = [job EXCEPT ![c].at = IF state = "COMMIT" THEN "verify" ELSE "active"]
        /\ UNCHANGED <<site, up, probe, len, hash, image, active, activeLen, digest, target, local,
                       vm, task, message, uart, state, reason>>
    BY DEF Prepare, Goto, mailbox, published, signals
  <1>2. /\ job' \in [Core -> Job] /\ \A d \in Core : d # c => job'[d] = job[d]
        /\ job'[c].at = (IF state = "COMMIT" THEN "verify" ELSE "active")
        /\ job'[c].held = job[c].held
    BY <1>1 DEF WordsInv, WordsTypeOK, Job, Label
  <1>3. LoadInv(c)'
    BY <1>1, <1>2, CommitFacts DEF LoadInv
  <1>4. QED
    BY <1>1, <1>2, <1>3, JobStep DEF WordsInv, WordsTypeOK

\* What the hash check lets through is the image the probe committed, whole.
LEMMA VerifyKeeps ==
  ASSUME OneImage, WordsInv, NEW c \in Core, Verify(c)
  PROVE  WordsInv'
  <1>1. UNCHANGED <<site, up, probe, len, hash, image, active, activeLen, digest, target, local,
                    vm, task, message, uart>>
    BY DEF Verify, published, signals
  <1>2. job \in [Core -> Job] /\ job[c] \in Job /\ site \in Site
    BY DEF WordsInv, WordsTypeOK
  <1>3. CASE ~(len = 0 \/ len > Cells) /\ Digest(image) = hash
    <2>1. /\ job' = [job EXCEPT ![c].at = "copy", ![c].digest = hash] /\ UNCHANGED <<state, reason>>
      BY <1>3 DEF Verify
    <2>2. hash \in Name
      BY DEF WordsInv, WordsTypeOK
    <2>3. /\ job' \in [Core -> Job] /\ \A d \in Core : d # c => job'[d] = job[d]
          /\ job'[c].at = "copy" /\ job'[c].held = job[c].held /\ job'[c].digest = hash
      BY <1>2, <2>1, <2>2 DEF Job, Label
    <2>4. probe.commits = 1
      BY DEF Verify, At, WordsInv, LoadInv
    <2>5. image = Full /\ hash = TheImage /\ TheImage # Mixed
      BY <1>2, <1>3, <2>4, ImageFacts DEF WordsInv, CommittedInv
    <2>6. site.commits # <<>> /\ site.commits[1].fault \in {"none", "hash", "len"}
      BY <1>2, <2>4, CommitFacts, ImageFacts
    <2>a. len <= Cells
      BY <1>2, <1>3, ImageFacts DEF WordsInv, WordsTypeOK
    <2>7. Loadable
      BY <2>4, <2>5, <2>6, <2>a DEF Loadable, WordsInv, CommittedInv
    <2>8. LoadInv(c)'
      BY <1>1, <2>3, <2>4, <2>5, <2>7, SiteKept DEF LoadInv
    <2>9. QED
      BY <1>1, <2>1, <2>3, <2>8, JobStep DEF WordsInv, WordsTypeOK
  <1>4. CASE ~(~(len = 0 \/ len > Cells) /\ Digest(image) = hash)
    <2>1. /\ job' = [job EXCEPT ![c].at = "active"] /\ state' = "REJECTED"
          /\ reason' \in {"BAD_LEN", "BAD_HASH"}
      BY <1>4 DEF Verify, RejectLoad, Goto
    <2>2. /\ job' \in [Core -> Job] /\ \A d \in Core : d # c => job'[d] = job[d]
          /\ job'[c].at = "active" /\ job'[c].held = job[c].held
      BY <1>2, <2>1 DEF Job, Label
    <2>3. LoadInv(c)'
      BY <2>2 DEF LoadInv
    <2>4. QED
      BY <1>1, <2>1, <2>2, <2>3, JobStep
  <1>5. QED
    BY <1>3, <1>4
\* A core takes shared bytes into its copy.
LEMMA JobTakesBytes ==
  ASSUME NEW c \in Core, job \in [Core -> Job], NEW at \in Label, NEW bytes \in Held,
         job' = [job EXCEPT ![c].at = at, ![c].image = bytes]
  PROVE  /\ job' \in [Core -> Job] /\ \A d \in Core : d # c => job'[d] = job[d]
         /\ job'[c].at = at /\ job'[c].held = job[c].held /\ job'[c].image = bytes
         /\ job'[c].digest = job[c].digest
  <1> DEFINE r == [job[c] EXCEPT !.at = at, !.image = bytes]
  <1>1. job'[c] = r /\ job' = [job EXCEPT ![c] = r]
    OBVIOUS
  <1>2. /\ r \in Job /\ r.at = at /\ r.image = bytes /\ r.held = job[c].held
        /\ r.digest = job[c].digest
    BY DEF Job
  <1> HIDE DEF r
  <1>3. job' \in [Core -> Job] /\ \A d \in Core : d # c => job'[d] = job[d]
    BY ZenonT(60), <1>1, <1>2
  <1>4. QED
    BY <1>1, <1>2, <1>3


LEMMA CopyKeeps ==
  ASSUME OneImage, WordsInv, NEW c \in Core, Copy(c)
  PROVE  WordsInv'
  <1>1. /\ job' = [job EXCEPT ![c].at = "load", ![c].image = image] /\ job[c].at = "copy"
        /\ UNCHANGED <<site, up, probe, len, hash, image, active, activeLen, digest, target, local,
                       vm, task, message, uart, state, reason>>
    BY DEF Copy, At, mailbox, published, signals
  <1>2. /\ job' \in [Core -> Job] /\ \A d \in Core : d # c => job'[d] = job[d]
        /\ job'[c].at = "load" /\ job'[c].held = job[c].held /\ job'[c].image = image
        /\ job'[c].digest = job[c].digest
    <2>1. job \in [Core -> Job] /\ "load" \in Label /\ image \in Held
      BY DEF WordsInv, WordsTypeOK, Label
    <2>2. QED
      BY <1>1, <2>1, JobTakesBytes
  <1>3. Loadable /\ job[c].digest = TheImage /\ image = Full
    BY <1>1 DEF WordsInv, LoadInv, CommittedInv
  <1>4. LoadInv(c)'
    BY <1>1, <1>2, <1>3, SiteKept DEF LoadInv
  <1>5. QED
    BY <1>1, <1>2, <1>4, JobStep DEF WordsInv, WordsTypeOK

LEMMA ActiveKeeps ==
  ASSUME OneImage, WordsInv, NEW c \in Core, Active(c)
  PROVE  WordsInv'
  <1>1. UNCHANGED <<site, up, probe, len, hash, image, active, activeLen, digest, target, local,
                    vm, task, message, uart, state, reason>>
    BY DEF Active, mailbox, published, signals
  <1>2. /\ job \in [Core -> Job] /\ job[c].then \in {"idle", "spool", "arm"} /\ digest \in Name
        /\ activeLen \in {0, Cells}
    BY DEF WordsInv, WordsTypeOK, Job
  <1>3. CASE activeLen = 0 \/ digest = None \/ local[c] = digest
    <2>1. job' = [job EXCEPT ![c].at = job[c].then]
      BY <1>3 DEF Active, Goto
    <2>2. /\ job' \in [Core -> Job] /\ \A d \in Core : d # c => job'[d] = job[d]
          /\ job'[c].at \in {"idle", "spool", "arm"} /\ job'[c].held = job[c].held
      BY <1>2, <2>1 DEF Job, Label
    <2>3. LoadInv(c)'
      BY <2>2 DEF LoadInv
    <2>4. QED
      BY <1>1, <2>2, <2>3, JobStep DEF WordsInv, WordsTypeOK
  <1>4. CASE ~(activeLen = 0 \/ digest = None \/ local[c] = digest)
    <2>1. job' = [job EXCEPT ![c].at = "copyActive", ![c].digest = digest]
      BY <1>4 DEF Active
    <2>2. /\ job' \in [Core -> Job] /\ \A d \in Core : d # c => job'[d] = job[d]
          /\ job'[c].at = "copyActive" /\ job'[c].held = job[c].held /\ job'[c].digest = digest
      BY ZenonT(60), <1>2, <2>1 DEF Job, Label
    <2>3. activeLen = Cells /\ active = Full /\ Loadable /\ digest = TheImage
      BY <1>2, <1>4 DEF WordsInv, NamedInv
    <2>4. LoadInv(c)'
      BY <1>1, <2>2, <2>3, SiteKept DEF LoadInv
    <2>5. QED
      BY <1>1, <2>2, <2>4, JobStep DEF WordsInv, WordsTypeOK
  <1>5. QED
    BY <1>3, <1>4

LEMMA CopyActiveKeeps ==
  ASSUME OneImage, WordsInv, NEW c \in Core, CopyActive(c)
  PROVE  WordsInv'
  <1>1. /\ job' = [job EXCEPT ![c].at = "loadActive", ![c].image = active]
        /\ job[c].at = "copyActive"
        /\ UNCHANGED <<site, up, probe, len, hash, image, active, activeLen, digest, target, local,
                       vm, task, message, uart, state, reason>>
    BY DEF CopyActive, At, mailbox, published, signals
  <1>2. /\ job' \in [Core -> Job] /\ \A d \in Core : d # c => job'[d] = job[d]
        /\ job'[c].at = "loadActive" /\ job'[c].held = job[c].held /\ job'[c].image = active
        /\ job'[c].digest = job[c].digest
    <2>1. job \in [Core -> Job] /\ "loadActive" \in Label /\ active \in Held
      BY DEF WordsInv, WordsTypeOK, Label
    <2>2. QED
      BY <1>1, <2>1, JobTakesBytes
  <1>3. Loadable /\ job[c].digest = TheImage /\ active = Full /\ digest = TheImage
    BY <1>1 DEF WordsInv, LoadInv
  <1>4. LoadInv(c)'
    BY <1>1, <1>2, <1>3, SiteKept DEF LoadInv
  <1>5. QED
    BY <1>1, <1>2, <1>4, JobStep DEF WordsInv, WordsTypeOK

\* The service point and the spool.
LEMMA PollKeeps ==
  ASSUME OneImage, WordsInv, NEW c \in Core, DiagnosticStep(c)
  PROVE  WordsInv'
  <1>1. UNCHANGED <<site, up, probe, len, hash, image, active, activeLen, digest, target, local,
                    vm, task, message, uart, state, reason>>
    BY DEF DiagnosticStep, PollDiagnostic, SpoolStep, TapStep, mailbox, published, signals
  <1>2. job \in [Core -> Job] /\ job[c] \in Job /\ job[c].k + 1 \in Nat \ {0}
    BY DEF WordsInv, WordsTypeOK, Job
  <1>3. job[c].at \in {"idle", "spool", "tap"}
    BY DEF DiagnosticStep, PollDiagnostic, SpoolStep, TapStep, At
  <1>4. \/ job' = job \/ job' = [job EXCEPT ![c].at = "idle"] \/ job' = [job EXCEPT ![c].at = "wfe"]
        \/ job' = [job EXCEPT ![c].at = "prepare", ![c].then = "spool"]
        \/ job' = [job EXCEPT ![c].at = "tap", ![c].k = 1]
        \/ job' = [job EXCEPT ![c].at = "idle", ![c].k = 1]
        \/ job' = [job EXCEPT ![c].k = job[c].k + 1]
    BY DEF DiagnosticStep, PollDiagnostic, SpoolStep, TapStep, Goto, PassEnd
  <1>5. /\ job' \in [Core -> Job] /\ \A d \in Core : d # c => job'[d] = job[d]
        /\ job'[c].at \in {"idle", "prepare", "spool", "tap", "wfe"} /\ job'[c].held = job[c].held
    BY <1>2, <1>3, <1>4 DEF Job, Label
  <1>6. LoadInv(c)'
    BY <1>5 DEF LoadInv
  <1>7. QED
    BY <1>1, <1>5, <1>6, JobStep DEF WordsInv, WordsTypeOK

\* WFE and the delays: a core that has nothing in hand goes to or from sleep.
LEMMA SleepKeeps ==
  ASSUME OneImage, WordsInv, NEW c \in Core,
         WfeReturns(c) \/ DelayStep(c) \/ (c = 0 /\ DriverDelay)
  PROVE  WordsInv'
  <1>1. UNCHANGED <<site, up, probe, len, hash, image, active, activeLen, digest, target, local,
                    vm, task, message, uart, state, reason>>
    BY DEF WfeReturns, DelayStep, DelayArms, DelayEnds, DriverDelay, mailbox, published, signals
  <1>2. PICK label \in {"idle", "delay", "wfi", "arm"} : job' = [job EXCEPT ![c].at = label]
    BY DEF WfeReturns, DelayStep, DelayArms, DelayEnds, DriverDelay, Goto
  <1>3. /\ job' \in [Core -> Job] /\ \A d \in Core : d # c => job'[d] = job[d]
        /\ job'[c].at = label /\ job'[c].held = job[c].held
    BY <1>2 DEF WordsInv, WordsTypeOK, Job, Label
  <1>4. LoadInv(c)'
    BY <1>3 DEF LoadInv
  <1>5. QED
    BY <1>1, <1>3, <1>4, JobStep DEF WordsInv, WordsTypeOK

\* The VM of core c takes the image: what it has in hand is whole.
LEMMA LoadVmKeeps ==
  ASSUME OneImage, WordsInv, NEW c \in Core, LoadVm(c)
  PROVE  WordsInv'
  <1>0. /\ WordsTypeOK /\ UartTypeOK /\ NamedInv /\ site \in Site /\ job \in [Core -> Job]
        /\ vm \in [Core -> Held] /\ LoadInv(c)
    BY DEF WordsInv, WordsTypeOK
  <1>1. /\ job[c].at = "load" /\ job[c].image = Full /\ job[c].digest = TheImage /\ Loadable
    BY <1>0 DEF LoadVm, At, LoadInv
  <1>2. /\ vm' = [vm EXCEPT ![c] = Full] /\ job' = [job EXCEPT ![c].at = "cells", ![c].k = 1]
        /\ UNCHANGED <<site, up, probe, len, hash, image, active, activeLen, digest, target, local,
                       task, message, uart, state, reason>>
    BY <1>0, <1>1, ImageFacts DEF LoadVm, published, signals
  <1>3. /\ job' \in [Core -> Job] /\ \A d \in Core : d # c => job'[d] = job[d]
        /\ job'[c].at = "cells" /\ job'[c].k = 1 /\ job'[c].held = job[c].held
        /\ job'[c].image = Full /\ job'[c].digest = TheImage
    <2>1. job' \in [Core -> Job]
      <3>1. 1 \in Nat \ {0} /\ "cells" \in Label
        BY DEF Label
      <3>2. QED
        BY ZenonT(60), <1>0, <1>2, <3>1 DEF Job
    <2>2. QED
      BY <1>0, <1>1, <1>2, <2>1 DEF Job
  <1>4. /\ TheImage' = TheImage /\ Full' = Full /\ Held' = Held /\ Name' = Name
        /\ Job' = Job /\ Loadable' = Loadable
    BY <1>2, SiteKept
  <1>5. /\ vm' \in [Core -> Held] /\ vm'[c] = Full /\ \A d \in Core : d # c => vm'[d] = vm[d]
    BY <1>0, <1>2, ImageFacts
  <1>6. WordsTypeOK' /\ UartTypeOK'
    BY <1>0, <1>2, <1>3, <1>4, <1>5 DEF WordsTypeOK, UartTypeOK
  <1>7. NamedInv'
    BY <1>0, <1>1, <1>2, <1>4, <1>5 DEF NamedInv
  <1>8. TaskInv' /\ FactFindsImage'
    BY <1>2, <1>3, <1>7, TaskFrame
  <1>9. LoadInv(c)'
    <2>1. 1 \in Cell /\ \A j \in 1..1 - 1 : active'[j] = TheImage
      BY <1>0, ImageFacts
    <2>2. QED
      BY <1>1, <1>3, <1>4, <1>5, <2>1 DEF LoadInv
  <1>10. QED
    BY <1>2, <1>3, <1>5, <1>6, <1>7, <1>8, <1>9, CoreStep

\* The active image is written cell by cell; the other core may be writing the
\* same cells.
LEMMA PutCellKeeps ==
  ASSUME OneImage, WordsInv, NEW c \in Core, PutCell(c)
  PROVE  WordsInv'
  <1>0. /\ WordsTypeOK /\ UartTypeOK /\ NamedInv /\ site \in Site /\ job \in [Core -> Job]
        /\ active \in Held /\ LoadInv(c)
    BY DEF WordsInv, WordsTypeOK
  <1>1. /\ job[c].at = "cells" /\ job[c].image = Full /\ job[c].digest = TheImage /\ Loadable
        /\ vm[c] = Full /\ job[c].k \in Cell /\ \A j \in 1..job[c].k - 1 : active[j] = TheImage
    BY <1>0 DEF PutCell, At, LoadInv
  <1>2. /\ active' = [active EXCEPT ![job[c].k] = TheImage]
        /\ job' = IF job[c].k = Cells THEN [job EXCEPT ![c].at = "len"]
                  ELSE [job EXCEPT ![c].k = job[c].k + 1]
        /\ UNCHANGED <<site, up, probe, len, hash, image, activeLen, digest, target, local,
                       vm, task, message, uart, state, reason>>
    BY <1>0, <1>1, ImageFacts DEF PutCell, mailbox, signals
  <1>3. /\ job' \in [Core -> Job] /\ \A d \in Core : d # c => job'[d] = job[d]
        /\ job'[c].at = (IF job[c].k = Cells THEN "len" ELSE "cells")
        /\ job[c].k # Cells => job'[c].k = job[c].k + 1
        /\ job'[c].held = job[c].held /\ job'[c].image = Full /\ job'[c].digest = TheImage
    <2>1. job[c].k + 1 \in Nat \ {0}
      BY <1>0, <1>1, ImageFacts DEF Cell
    <2>2. QED
      BY <1>0, <1>1, <1>2, <2>1 DEF Job, Label
  <1>4. /\ TheImage' = TheImage /\ Full' = Full /\ Held' = Held /\ Name' = Name
        /\ Job' = Job /\ Loadable' = Loadable
    BY <1>2, SiteKept
  <1>5. /\ active' \in Held /\ active'[job[c].k] = TheImage
        /\ \A k \in Cell : k # job[c].k => active'[k] = active[k]
        /\ \A k \in Cell : active[k] = TheImage => active'[k] = TheImage
    BY <1>0, <1>1, <1>2, ImageFacts DEF Held
  <1>6. active = Full => active' = Full
    BY <1>0, <1>5, ImageFacts, SameCells
  <1>7. WordsTypeOK' /\ UartTypeOK'
    BY <1>0, <1>2, <1>3, <1>4, <1>5 DEF WordsTypeOK, UartTypeOK
  <1>8. NamedInv'
    <2>1. \A k \in Cell : active'[k] \in {None, TheImage}
      BY <1>0, <1>5 DEF NamedInv
    <2>2. QED
      BY <1>0, <1>2, <1>4, <1>6, <2>1 DEF NamedInv
  <1>9. TaskInv' /\ FactFindsImage'
    BY <1>2, <1>3, <1>8, TaskFrame
  <1>10. LoadInv(c)'
    <2>1. CASE job[c].k = Cells
      <3>1. \A k \in Cell : k = Cells \/ k \in 1..job[c].k - 1
        BY <1>0, <2>1, ImageFacts DEF Cell
      <3>2. \A k \in Cell : active'[k] = TheImage
        BY <1>1, <1>5, <2>1, <3>1
      <3>3. active' = Full
        BY <1>5, <3>2, SameCells
      <3>4. QED
        BY <1>1, <1>2, <1>3, <1>4, <2>1, <3>3 DEF LoadInv
    <2>2. CASE job[c].k # Cells
      <3>1. /\ job[c].k + 1 \in Cell
            /\ \A j \in 1..job[c].k + 1 - 1 : j \in Cell /\ (j = job[c].k \/ j \in 1..job[c].k - 1)
        BY <1>0, <1>1, <2>2, ImageFacts DEF Cell
      <3>2. \A j \in 1..job[c].k + 1 - 1 : active'[j] = TheImage
        BY <1>1, <1>5, <3>1
      <3>3. job'[c].k \in Cell /\ \A j \in 1..job'[c].k - 1 : active'[j] = TheImage
        <4>1. job'[c].k = job[c].k + 1
          BY <1>3, <2>2
        <4>2. ASSUME NEW j \in 1..job'[c].k - 1 PROVE active'[j] = TheImage
          <5>1. j \in 1..job[c].k + 1 - 1
            <6>1. job[c].k \in Nat
              BY <1>1 DEF Cell
            <6>2. QED
              BY <4>1, <4>2, <6>1
          <5>2. QED
            BY <3>2, <5>1
        <4>3. job'[c].k \in Cell
          BY <3>1, <4>1
        <4>4. QED
          BY <4>2, <4>3
      <3>4. job'[c].at = "cells" /\ vm'[c] = Full
        BY <1>1, <1>2, <1>3, <2>2
      <3>5. QED
        BY <1>1, <1>3, <1>4, <3>3, <3>4 DEF LoadInv
    <2>3. QED
      BY <2>1, <2>2
  <1>11. QED
    BY <1>2, <1>3, <1>5, <1>7, <1>8, <1>9, <1>10, CoreStep

LEMMA PutLenKeeps ==
  ASSUME OneImage, WordsInv, NEW c \in Core, PutLen(c)
  PROVE  WordsInv'
  <1>0. /\ WordsTypeOK /\ UartTypeOK /\ NamedInv /\ site \in Site /\ job \in [Core -> Job]
        /\ LoadInv(c)
    BY DEF WordsInv, WordsTypeOK
  <1>1. /\ job[c].at = "len" /\ job[c].image = Full /\ job[c].digest = TheImage /\ Loadable
        /\ vm[c] = Full /\ active = Full
    BY <1>0 DEF PutLen, At, LoadInv
  <1>2. /\ activeLen' = Cells /\ job' = [job EXCEPT ![c].at = "digest"]
        /\ UNCHANGED <<site, up, probe, len, hash, image, active, digest, target, local, vm, task,
                       message, uart, state, reason>>
    BY DEF PutLen, Goto, mailbox, signals
  <1>3. /\ job' \in [Core -> Job] /\ \A d \in Core : d # c => job'[d] = job[d]
        /\ job'[c].at = "digest"
        /\ job'[c].held = job[c].held /\ job'[c].image = Full /\ job'[c].digest = TheImage
    BY <1>0, <1>1, <1>2 DEF Job, Label
  <1>4. /\ TheImage' = TheImage /\ Full' = Full /\ Held' = Held /\ Name' = Name
        /\ Job' = Job /\ Loadable' = Loadable
    BY <1>2, SiteKept
  <1>5. WordsTypeOK' /\ UartTypeOK'
    BY <1>0, <1>2, <1>3, <1>4 DEF WordsTypeOK, UartTypeOK
  <1>6. NamedInv'
    BY <1>0, <1>1, <1>2, <1>4 DEF NamedInv
  <1>7. TaskInv' /\ FactFindsImage'
    BY <1>2, <1>3, <1>6, TaskFrame
  <1>8. LoadInv(c)'
    BY <1>1, <1>2, <1>3, <1>4 DEF LoadInv
  <1>9. QED
    BY <1>2, <1>3, <1>5, <1>6, <1>7, <1>8, CoreStep

LEMMA PutDigestKeeps ==
  ASSUME OneImage, WordsInv, NEW c \in Core, PutDigest(c)
  PROVE  WordsInv'
  <1>0. /\ WordsTypeOK /\ UartTypeOK /\ NamedInv /\ site \in Site /\ job \in [Core -> Job]
        /\ LoadInv(c)
    BY DEF WordsInv, WordsTypeOK
  <1>1. /\ job[c].at = "digest" /\ job[c].image = Full /\ job[c].digest = TheImage /\ Loadable
        /\ vm[c] = Full /\ activeLen = Cells
    BY <1>0 DEF PutDigest, At, LoadInv
  <1>2. /\ digest' = TheImage /\ job' = [job EXCEPT ![c].at = "local"]
        /\ UNCHANGED <<site, up, probe, len, hash, image, active, activeLen, target, local, vm, task,
                       message, uart, state, reason>>
    BY <1>1 DEF PutDigest, Goto, mailbox, signals
  <1>3. /\ job' \in [Core -> Job] /\ \A d \in Core : d # c => job'[d] = job[d]
        /\ job'[c].at = "local"
        /\ job'[c].held = job[c].held /\ job'[c].image = Full /\ job'[c].digest = TheImage
    BY <1>0, <1>1, <1>2 DEF Job, Label
  <1>4. /\ TheImage' = TheImage /\ Full' = Full /\ Held' = Held /\ Name' = Name
        /\ Job' = Job /\ Loadable' = Loadable /\ TheImage \in Name
    BY <1>0, <1>2, SiteKept, ImageFacts DEF Name
  <1>5. WordsTypeOK' /\ UartTypeOK'
    BY <1>0, <1>2, <1>3, <1>4 DEF WordsTypeOK, UartTypeOK
  <1>6. NamedInv'
    BY <1>0, <1>1, <1>2, <1>4 DEF NamedInv
  <1>7. TaskInv' /\ FactFindsImage'
    BY <1>2, <1>3, <1>6, TaskFrame
  <1>8. LoadInv(c)'
    BY <1>1, <1>2, <1>3, <1>4 DEF LoadInv
  <1>9. QED
    BY <1>2, <1>3, <1>5, <1>6, <1>7, <1>8, CoreStep

LEMMA PutLocalKeeps ==
  ASSUME OneImage, WordsInv, NEW c \in Core, PutLocal(c)
  PROVE  WordsInv'
  <1>0. /\ WordsTypeOK /\ UartTypeOK /\ NamedInv /\ site \in Site /\ job \in [Core -> Job]
        /\ local \in [Core -> Name] /\ LoadInv(c)
    BY DEF WordsInv, WordsTypeOK
  <1>1. /\ job[c].at = "local" /\ job[c].image = Full /\ job[c].digest = TheImage /\ Loadable
        /\ vm[c] = Full /\ activeLen = Cells /\ digest = TheImage
    BY <1>0 DEF PutLocal, At, LoadInv
  <1>2. /\ local' = [local EXCEPT ![c] = TheImage] /\ target' = TheImage
        /\ job' = [job EXCEPT ![c].at = "loaded"]
        /\ UNCHANGED <<site, up, probe, len, hash, image, active, activeLen, digest, vm, task,
                       message, uart, state, reason>>
    BY <1>0, <1>1, ImageFacts DEF PutLocal, Goto, mailbox, signals
  <1>3. /\ job' \in [Core -> Job] /\ \A d \in Core : d # c => job'[d] = job[d]
        /\ job'[c].at = "loaded"
        /\ job'[c].held = job[c].held /\ job'[c].image = Full /\ job'[c].digest = TheImage
    BY <1>0, <1>1, <1>2 DEF Job, Label
  <1>4. /\ TheImage' = TheImage /\ Full' = Full /\ Held' = Held /\ Name' = Name
        /\ Job' = Job /\ Loadable' = Loadable /\ TheImage \in Name
    BY <1>0, <1>2, SiteKept, ImageFacts DEF Name
  <1>5. /\ local' \in [Core -> Name] /\ local'[c] = TheImage
        /\ \A d \in Core : d # c => local'[d] = local[d]
    BY <1>0, <1>2, <1>4
  <1>6. WordsTypeOK' /\ UartTypeOK'
    BY <1>0, <1>2, <1>3, <1>4, <1>5 DEF WordsTypeOK, UartTypeOK
  <1>7. NamedInv'
    BY <1>0, <1>1, <1>2, <1>4, <1>5 DEF NamedInv
  <1>8. TaskInv' /\ FactFindsImage'
    BY <1>2, <1>3, <1>5, <1>7, TaskFrame
  <1>9. LoadInv(c)'
    BY <1>1, <1>2, <1>3, <1>4, <1>5 DEF LoadInv
  <1>10. QED
    BY <1>2, <1>3, <1>5, <1>6, <1>7, <1>8, <1>9, CoreStep

LEMMA LoadActiveKeeps ==
  ASSUME OneImage, WordsInv, NEW c \in Core, LoadActive(c)
  PROVE  WordsInv'
  <1>0. /\ WordsTypeOK /\ UartTypeOK /\ NamedInv /\ site \in Site /\ job \in [Core -> Job]
        /\ local \in [Core -> Name] /\ vm \in [Core -> Held] /\ LoadInv(c)
        /\ job[c].then \in {"idle", "spool", "arm"}
    BY DEF WordsInv, WordsTypeOK, Job
  <1>1. /\ job[c].at = "loadActive" /\ job[c].image = Full /\ job[c].digest = TheImage /\ Loadable
        /\ digest = TheImage
    BY <1>0 DEF LoadActive, At, LoadInv
  <1>2. /\ local' = [local EXCEPT ![c] = TheImage] /\ vm' = [vm EXCEPT ![c] = Full]
        /\ job' = [job EXCEPT ![c].at = job[c].then]
        /\ UNCHANGED <<site, up, probe, len, hash, image, active, activeLen, digest, target, task,
                       message, uart, state, reason>>
    BY <1>0, <1>1, ImageFacts DEF LoadActive, Goto, published, signals
  <1>3. /\ job' \in [Core -> Job] /\ \A d \in Core : d # c => job'[d] = job[d]
        /\ job'[c].at \in {"idle", "spool", "arm"} /\ job'[c].held = job[c].held
    BY <1>0, <1>2 DEF Job, Label
  <1>4. /\ TheImage' = TheImage /\ Full' = Full /\ Held' = Held /\ Name' = Name
        /\ Job' = Job /\ Loadable' = Loadable /\ TheImage \in Name
    BY <1>0, <1>2, SiteKept, ImageFacts DEF Name
  <1>5. /\ local' \in [Core -> Name] /\ local'[c] = TheImage /\ vm' \in [Core -> Held]
        /\ vm'[c] = Full /\ \A d \in Core : d # c => local'[d] = local[d] /\ vm'[d] = vm[d]
    BY <1>0, <1>2, <1>4, ImageFacts
  <1>6. WordsTypeOK' /\ UartTypeOK'
    BY <1>0, <1>2, <1>3, <1>4, <1>5 DEF WordsTypeOK, UartTypeOK
  <1>7. NamedInv'
    BY <1>0, <1>1, <1>2, <1>4, <1>5 DEF NamedInv
  <1>8. TaskInv' /\ FactFindsImage'
    BY <1>2, <1>3, <1>5, <1>7, TaskFrame
  <1>9. LoadInv(c)'
    BY <1>3 DEF LoadInv
  <1>10. QED
    BY <1>2, <1>3, <1>5, <1>6, <1>7, <1>8, <1>9, CoreStep

\* LOADED comes last; a localside that brought the image goes on.
LEMMA PutLoadedKeeps ==
  ASSUME OneImage, WordsInv, NEW c \in Core, PutLoaded(c)
  PROVE  WordsInv'
  <1>0. /\ WordsTypeOK /\ UartTypeOK /\ NamedInv /\ site \in Site /\ job \in [Core -> Job]
        /\ LoadInv(c) /\ job[c].then \in {"idle", "spool", "arm"} /\ TaskInv /\ FactFindsImage
        /\ task \in [Core -> Part]
    BY DEF WordsInv, WordsTypeOK, Job
  <1>1. /\ job[c].at = "loaded" /\ Loadable /\ digest = TheImage /\ local[c] = TheImage
    BY <1>0 DEF PutLoaded, At, LoadInv
  <1>2. /\ job' = [job EXCEPT ![c].at = job[c].then] /\ state' = "LOADED" /\ reason' = "NONE"
        /\ uart' = [uart EXCEPT !.ready = uart.ready /\ task[c] # "uartLoading"]
        /\ UNCHANGED <<site, up, probe, len, hash, image, active, activeLen, digest, target, local,
                       vm, message>>
    BY DEF PutLoaded, Goto, published, signals
  <1>3. task' = [task EXCEPT ![c] = CASE task[c] = "loading" -> IF c = 1 THEN "policy" ELSE "irq"
                                       [] task[c] = "uartLoading" -> "sendLoaded"
                                       [] OTHER -> task[c]]
    BY DEF PutLoaded
  <1>4. /\ job' \in [Core -> Job] /\ \A d \in Core : d # c => job'[d] = job[d]
        /\ job'[c].at \in {"idle", "spool", "arm"} /\ \A d \in Core : job'[d].held = job[d].held
    BY <1>0, <1>2 DEF Job, Label
  <1>5. /\ TheImage' = TheImage /\ Full' = Full /\ Held' = Held /\ Name' = Name
        /\ Job' = Job /\ Loadable' = Loadable /\ TheImage # None
    BY <1>0, <1>2, SiteKept, ImageFacts
  <1>6. /\ \A d \in Core : d # c => task'[d] = task[d]
        /\ task[c] = "loading" => task'[c] = IF c = 1 THEN "policy" ELSE "irq"
        /\ task[c] = "uartLoading" => task'[c] = "sendLoaded"
        /\ task[c] \notin {"loading", "uartLoading"} => task'[c] = task[c]
    BY <1>0, <1>3
  <1>7. task' \in [Core -> Part]
    <2>1. (CASE task[c] = "loading" -> IF c = 1 THEN "policy" ELSE "irq"
             [] task[c] = "uartLoading" -> "sendLoaded"
             [] OTHER -> task[c]) \in Part
      BY <1>0 DEF Part
    <2>2. QED
      BY <1>0, <1>3, <2>1
  <1>8. WordsTypeOK'
    BY <1>0, <1>2, <1>4, <1>5, <1>7 DEF WordsTypeOK
  <1>9. UartTypeOK'
    <2>1. (uart.ready /\ task[c] # "uartLoading") \in BOOLEAN
      OBVIOUS
    <2>2. QED
      BY <1>0, <1>2, <2>1, Zenon DEF UartTypeOK, Uart
  <1>10. NamedInv'
    BY <1>0, <1>1, <1>2, <1>5 DEF NamedInv
  <1>11. \A d \in Core : LoadedForCore(d)' <=> LoadedForCore(d)
    BY <1>2 DEF LoadedForCore
  <1>12. LoadedForCore(c)
    BY <1>0, <1>1, LoadedMeans
  <1>13. uart = NoUart => uart' = NoUart
    <2> SUFFICES ASSUME uart = NoUart PROVE uart' = NoUart
      OBVIOUS
    <2>1. (uart.ready /\ task[c] # "uartLoading") = FALSE
      BY DEF NoUart
    <2>2. uart' = [NoUart EXCEPT !.ready = FALSE]
      BY <1>2, <2>1, Zenon
    <2>3. QED
      BY <2>2 DEF NoUart
  <1>14. TaskInv'
    <2>1. 0 \in Core /\ 1 \in Core
      BY DEF Core
    <2>2. site.capsule = "diagnostic" => \A d \in Core : task'[d] \in {"other", "panic"}
      BY <1>0, <1>6 DEF TaskInv
    <2>3. task'[0] \in {"send", "uartLoading", "sendLoaded"} => job'[0].held = Full
      BY <1>0, <1>4, <1>6, <2>1 DEF TaskInv
    <2>4. \A d \in Core : task'[d] \in {"route", "alarm", "irq", "fact"} => LoadedForCore(d)
      BY <1>0, <1>6, <1>12 DEF TaskInv
    <2>5. task'[0] = "sendLoaded" => LoadedForCore(0)
      BY <1>0, <1>6, <1>12, <2>1 DEF TaskInv
    <2>6. QED
      BY <1>0, <1>2, <1>5, <1>11, <1>13, <2>1, <2>2, <2>3, <2>4, <2>5 DEF TaskInv
  <1>15. FactFindsImage'
    BY <1>0, <1>6 DEF FactFindsImage
  <1>16. LoadInv(c)'
    BY <1>4 DEF LoadInv
  <1>17. QED
    BY <1>2, <1>4, <1>8, <1>9, <1>10, <1>14, <1>15, <1>16, CoreStep

\* A step of the localside on core c that leaves the words alone.
LEMMA TaskStep ==
  ASSUME OneImage, WordsInv, NEW c \in Core, NEW label \in Part,
         task' = [task EXCEPT ![c] = label],
         UNCHANGED <<site, up, mailbox, published, local, reason, vm, job, message, probe, uart>>,
         label \notin {"unloaded", "send", "uartLoading", "sendLoaded"},
         site.capsule = "diagnostic" => label \in {"other", "panic"},
         label \in {"route", "alarm", "irq", "fact"} => LoadedForCore(c)
  PROVE  WordsInv'
  <1>0. /\ WordsTypeOK /\ UartTypeOK /\ NamedInv /\ TaskInv /\ FactFindsImage
        /\ task \in [Core -> Part] /\ LoadInv(c) /\ 0 \in Core
    BY DEF WordsInv, WordsTypeOK, Core
  <1>1. /\ TheImage' = TheImage /\ Full' = Full /\ Held' = Held /\ Name' = Name
        /\ Job' = Job /\ Loadable' = Loadable
    BY SiteKept
  <1>2. task' \in [Core -> Part] /\ task'[c] = label /\ \A d \in Core : d # c => task'[d] = task[d]
    BY <1>0
  <1>3. WordsTypeOK' /\ UartTypeOK'
    BY <1>0, <1>1, <1>2 DEF WordsTypeOK, UartTypeOK, mailbox, published, signals
  <1>4. NamedInv' /\ LoadInv(c)'
    BY <1>0, <1>1 DEF NamedInv, LoadInv, mailbox, published, signals
  <1>5. \A d \in Core : LoadedForCore(d)' <=> LoadedForCore(d)
    BY DEF LoadedForCore, published, signals
  <1>6. TaskInv'
    BY <1>0, <1>1, <1>2, <1>5 DEF TaskInv
  <1>7. FactFindsImage'
    BY <1>0, <1>2 DEF FactFindsImage
  <1>8. QED
    BY <1>3, <1>4, <1>6, <1>7, CoreStep DEF mailbox, published, signals

\* Panic, the waits for the timer, TimerFact, Answer, DriverWait and DriverGiveUp.
LEMMA TaskStepsKeep ==
  ASSUME OneImage, WordsInv,
         \/ \E c \in Core : Panic(c) \/ TimerFact(c)
         \/ DriverWait \/ DriverGiveUp \/ DriverDone \/ EngineAck \/ DriverSuccess
         \/ EngineArms \/ EngineIrq \/ DriverIrq
  PROVE  WordsInv'
  <1>0. /\ TaskInv /\ 0 \in Core /\ 1 \in Core
    BY DEF WordsInv, Core
  <1>1. ASSUME NEW c \in Core, Panic(c) PROVE WordsInv'
    <2>1. "panic" \in Part
      BY DEF Part
    <2>2. QED
      BY <1>1, <2>1, TaskStep DEF Panic, signals
  <1>2. ASSUME NEW c \in Core, NEW label \in {"unloaded", "ready", "response"},
               task[c] = "fact", task' = [task EXCEPT ![c] = label],
               LoadedForCore(c) => label # "unloaded",
               UNCHANGED <<site, up, mailbox, published, local, reason, vm, job, message, probe, uart>>
        PROVE  WordsInv'
    <2>1. label \in Part /\ site.capsule # "diagnostic" /\ LoadedForCore(c)
      BY <1>0, <1>2 DEF TaskInv, Part
    <2>2. QED
      BY <1>2, <2>1, TaskStep
  <1>3. ASSUME NEW c \in Core, TimerFact(c) PROVE WordsInv'
    BY <1>2, <1>3 DEF TimerFact, Task, Become, Core
  <1>4. ASSUME NEW c \in Core, NEW label \in {"read", "noImage", "ack", "done", "success"},
               task[c] \in {"wait", "response", "ready", "ack"}, task' = [task EXCEPT ![c] = label],
               UNCHANGED <<site, up, mailbox, published, local, reason, vm, job, message, probe, uart>>
        PROVE  WordsInv'
    <2>1. label \in Part /\ site.capsule # "diagnostic"
      BY <1>0, <1>4 DEF TaskInv, Part
    <2>2. QED
      BY <1>4, <2>1, TaskStep
  <1>5. ASSUME DriverWait \/ DriverGiveUp PROVE WordsInv'
    BY <1>0, <1>4, <1>5 DEF DriverWait, DriverGiveUp, Task, Become, signals
  <1>6. ASSUME DriverDone \/ EngineAck \/ DriverSuccess PROVE WordsInv'
    BY <1>0, <1>4, <1>6 DEF DriverDone, EngineAck, DriverSuccess, Answer, Task, Become
  <1>7. ASSUME NEW c \in Core, NEW label \in {"alarm", "fact", "late"},
               task[c] \in {"route", "alarm", "irq"}, task' = [task EXCEPT ![c] = label],
               UNCHANGED <<site, up, mailbox, published, local, reason, vm, job, message, probe, uart>>
        PROVE  WordsInv'
    <2>1. label \in Part /\ site.capsule # "diagnostic" /\ LoadedForCore(c)
      BY <1>0, <1>7 DEF TaskInv, Part
    <2>2. QED
      BY <1>7, <2>1, TaskStep
  <1>8. ASSUME EngineArms \/ EngineIrq \/ DriverIrq PROVE WordsInv'
    BY <1>0, <1>7, <1>8 DEF EngineArms, EngineIrq, DriverIrq, Task, Become, signals
  <1>9. QED
    BY <1>1, <1>3, <1>5, <1>6, <1>8

\* A localside of core c takes the image in hand, on its way to the VM.
LEMMA TakeStep ==
  ASSUME OneImage, WordsInv, NEW c \in Core, NEW label \in Part,
         task' = [task EXCEPT ![c] = label],
         UNCHANGED <<site, up, mailbox, published, local, reason, vm, probe, uart>>,
         job' \in [Core -> Job], \A d \in Core : d # c => job'[d] = job[d],
         message' \in {message, Full},
         label \notin {"unloaded", "sendLoaded"},
         site.capsule = "diagnostic" => label \in {"other", "panic"},
         label \in {"route", "alarm", "irq", "fact"} => LoadedForCore(c),
         c = 0 /\ label \in {"send", "uartLoading"} => job'[0].held = Full,
         LoadInv(c)'
  PROVE  WordsInv'
  <1>0. /\ WordsTypeOK /\ UartTypeOK /\ NamedInv /\ TaskInv /\ FactFindsImage /\ site \in Site
        /\ task \in [Core -> Part] /\ 0 \in Core /\ message \in Held /\ message \in {Blank, Full}
    BY DEF WordsInv, WordsTypeOK, Core, TaskInv
  <1>1. /\ TheImage' = TheImage /\ Full' = Full /\ Held' = Held /\ Name' = Name
        /\ Job' = Job /\ Loadable' = Loadable /\ Full \in Held
    BY <1>0, SiteKept, ImageFacts
  <1>2. task' \in [Core -> Part] /\ task'[c] = label /\ \A d \in Core : d # c => task'[d] = task[d]
    BY <1>0
  <1>3. WordsTypeOK' /\ UartTypeOK'
    BY <1>0, <1>1, <1>2 DEF WordsTypeOK, UartTypeOK, mailbox, published, signals
  <1>4. NamedInv'
    BY <1>0, <1>1 DEF NamedInv, mailbox, published, signals
  <1>5. \A d \in Core : LoadedForCore(d)' <=> LoadedForCore(d)
    BY DEF LoadedForCore, published, signals
  <1>6. TaskInv'
    <2>1. site.capsule = "diagnostic" => \A d \in Core : task'[d] \in {"other", "panic"}
      BY <1>0, <1>2 DEF TaskInv
    <2>2. task'[0] \in {"send", "uartLoading", "sendLoaded"} => job'[0].held = Full
      BY <1>0, <1>2 DEF TaskInv
    <2>3. \A d \in Core : task'[d] \in {"route", "alarm", "irq", "fact"} => LoadedForCore(d)
      BY <1>0, <1>2 DEF TaskInv
    <2>4. task'[0] = "sendLoaded" => LoadedForCore(0)
      BY <1>0, <1>2 DEF TaskInv
    <2>5. QED
      BY <1>0, <1>1, <1>5, <2>1, <2>2, <2>3, <2>4 DEF TaskInv
  <1>7. FactFindsImage'
    BY <1>0, <1>2 DEF FactFindsImage
  <1>8. QED
    BY <1>3, <1>4, <1>6, <1>7, CoreStep DEF mailbox, published, signals

\* What a localside puts into its job.
LEMMA JobUartLoad ==
  ASSUME NEW c \in Core, job \in [Core -> Job], NEW i \in Held, NEW n \in Name,
         job' = [job EXCEPT ![c].at = "load", ![c].then = "idle", ![c].image = i, ![c].digest = n,
                            ![c].held = i]
  PROVE  /\ job' \in [Core -> Job] /\ \A d \in Core : d # c => job'[d] = job[d]
         /\ job'[c].at = "load" /\ job'[c].image = i /\ job'[c].digest = n /\ job'[c].held = i
  <1> DEFINE r == [job[c] EXCEPT !.at = "load", !.then = "idle", !.image = i, !.digest = n, !.held = i]
  <1>1. job[c] \in Job /\ "load" \in Label
    BY DEF Label
  <1>2. job'[c] = r /\ job' = [job EXCEPT ![c] = r]
    OBVIOUS
  <1>3. r \in Job /\ r.at = "load" /\ r.image = i /\ r.digest = n /\ r.held = i
    BY <1>1 DEF Job
  <1> HIDE DEF r
  <1>4. job' \in [Core -> Job] /\ \A d \in Core : d # c => job'[d] = job[d]
    BY ZenonT(60), <1>2, <1>3
  <1>5. QED
    BY <1>2, <1>3, <1>4

LEMMA JobPrepare ==
  ASSUME NEW c \in Core, job \in [Core -> Job],
         job' = [job EXCEPT ![c].at = "prepare", ![c].then = "arm"]
  PROVE  /\ job' \in [Core -> Job] /\ \A d \in Core : d # c => job'[d] = job[d]
         /\ job'[c].at = "prepare" /\ job'[c].held = job[c].held
  <1>0. "prepare" \in Label
    BY DEF Label
  <1>1. QED
    BY ZenonT(60), <1>0 DEF Job

\* The policy capsule may run any image.
LEMMA PolicyLoadable ==
  ASSUME TaskInv, NEW c \in Core, task[c] \notin {"other", "panic"}
  PROVE  site.capsule # "diagnostic" /\ Loadable
  BY DEF TaskInv, Loadable

\* A whole image in hand may go to the VM.
LEMMA LoadsFull ==
  ASSUME OneImage, WordsInv, NEW c \in Core, Load(c, Full), Loadable, site' = site
  PROVE  /\ job' \in [Core -> Job] /\ \A d \in Core : d # c => job'[d] = job[d]
         /\ LoadInv(c)'
  <1>1. job \in [Core -> Job] /\ site \in Site
    BY DEF WordsInv, WordsTypeOK
  <1>2. TheImage \in Name /\ Full \in Held /\ Digest(Full) = TheImage
    BY <1>1, ImageFacts DEF Name
  <1>3. job' = [job EXCEPT ![c].at = "load", ![c].then = "idle", ![c].image = Full,
                           ![c].digest = TheImage]
    BY <1>2 DEF Load
  <1>4. /\ job' \in [Core -> Job] /\ \A d \in Core : d # c => job'[d] = job[d]
        /\ job'[c].at = "load" /\ job'[c].image = Full /\ job'[c].digest = TheImage
    <2> DEFINE r == [job[c] EXCEPT !.at = "load", !.then = "idle", !.image = Full,
                                   !.digest = TheImage]
    <2>1. job[c] \in Job /\ "load" \in Label
      BY <1>1 DEF Label
    <2>2. job'[c] = r /\ job' = [job EXCEPT ![c] = r]
      BY <1>1, <1>3
    <2>3. r \in Job /\ r.at = "load" /\ r.image = Full /\ r.digest = TheImage
      BY <1>2, <2>1 DEF Job
    <2> HIDE DEF r
    <2>4. job' \in [Core -> Job] /\ \A d \in Core : d # c => job'[d] = job[d]
      BY <1>1, <2>2, <2>3
    <2>5. QED
      BY <2>2, <2>3, <2>4
  <1>5. QED
    BY <1>4, SiteKept DEF LoadInv

\* What the driver finds ready is the image of the session.
LEMMA DriverReadKeeps ==
  ASSUME OneImage, WordsInv, DriverRead
  PROVE  WordsInv'
  <1>0. /\ TaskInv /\ NamedInv /\ site \in Site /\ job \in [Core -> Job] /\ 0 \in Core /\ LoadInv(0)
        /\ image \in Held /\ active \in Held /\ task \in [Core -> Part]
    BY DEF WordsInv, WordsTypeOK, Core
  <1>1. /\ task[0] = "read" /\ job[0].at = "idle" /\ message' = message
        /\ UNCHANGED <<site, up, mailbox, published, local, reason, vm, probe, uart>>
    BY DEF DriverRead, Task, At, signals
  <1>2. site.capsule # "diagnostic"
    BY <1>0, <1>1, PolicyLoadable
  <1>3. CASE ImageReady
    <2>1. /\ job' = [job EXCEPT ![0].held = IF state = "COMMIT" /\ len = Cells THEN image ELSE active]
          /\ task' = [task EXCEPT ![0] = "send"]
      BY <1>3 DEF DriverRead, Become
    <2>2. (IF state = "COMMIT" /\ len = Cells THEN image ELSE active) = Full
      <3>1. state = "COMMIT" => image = Full
        BY CommitFacts DEF WordsInv, CommittedInv
      <3>2. QED
        BY <1>0, <1>3, <3>1 DEF ImageReady, NamedInv
    <2>3. /\ job' \in [Core -> Job] /\ job'[0].held = Full /\ job'[0].at = "idle"
          /\ \A d \in Core : d # 0 => job'[d] = job[d]
      BY ZenonT(60), <1>0, <1>1, <2>1, <2>2, ImageFacts DEF Job
    <2>4. LoadInv(0)'
      BY <2>3 DEF LoadInv
    <2>5. "send" \in Part
      BY DEF Part
    <2>6. QED
      BY <1>0, <1>1, <1>2, <2>1, <2>3, <2>4, <2>5, TakeStep
  <1>4. CASE ~ImageReady
    <2>1. job' = job /\ task' = [task EXCEPT ![0] = "noImage"] /\ "noImage" \in Part
      BY <1>4 DEF DriverRead, Become, Part
    <2>2. QED
      BY <1>0, <1>1, <1>2, <2>1, TaskStep
  <1>5. QED
    BY <1>3, <1>4

LEMMA DriverSendKeeps ==
  ASSUME OneImage, WordsInv, DriverSend
  PROVE  WordsInv'
  <1>0. /\ TaskInv /\ site \in Site /\ job \in [Core -> Job] /\ 0 \in Core
        /\ task \in [Core -> Part]
    BY DEF WordsInv, WordsTypeOK, Core
  <1>1. /\ task[0] \in {"send", "sendLoaded"} /\ job[0].at = "idle"
        /\ UNCHANGED <<site, up, mailbox, published, local, reason, vm, probe, uart>>
    BY DEF DriverSend, At
  <1>2. site.capsule # "diagnostic" /\ Loadable
    BY <1>0, <1>1, PolicyLoadable
  <1>3. job[0].held = Full /\ (task[0] = "sendLoaded" => LoadedForCore(0))
    BY <1>0, <1>1 DEF TaskInv
  <1>4. CASE ~ImageReady
    <2>1. /\ job' = job /\ task' = [task EXCEPT ![0] = "noImage"] /\ message' = message
          /\ "noImage" \in Part
      BY <1>4 DEF DriverSend, Become, Part
    <2>2. QED
      BY <1>0, <1>1, <1>2, <2>1, TaskStep
  <1>5. CASE ImageReady /\ task[0] = "sendLoaded"
    <2>1. /\ job' = job /\ task' = [task EXCEPT ![0] = "irq"] /\ message' = Full /\ "irq" \in Part
      BY <1>3, <1>5 DEF DriverSend, Become, Part
    <2>2. LoadInv(0)'
      BY <1>1, <2>1 DEF LoadInv
    <2>3. QED
      BY <1>0, <1>1, <1>2, <1>3, <1>5, <2>1, <2>2, TakeStep
  <1>6. CASE ImageReady /\ task[0] # "sendLoaded"
    <2>1. /\ task' = [task EXCEPT ![0] = "loading"] /\ message' = Full /\ "loading" \in Part
          /\ Load(0, Full)
      BY <1>3, <1>6 DEF DriverSend, Become, Part
    <2>2. /\ job' \in [Core -> Job] /\ \A d \in Core : d # 0 => job'[d] = job[d]
          /\ LoadInv(0)'
      BY <1>0, <1>1, <1>2, <2>1, LoadsFull
    <2>3. QED
      BY <1>0, <1>1, <1>2, <2>1, <2>2, TakeStep
  <1>7. QED
    BY <1>4, <1>5, <1>6

LEMMA EngineRecvKeeps ==
  ASSUME OneImage, WordsInv, EngineRecv
  PROVE  WordsInv'
  <1>0. /\ TaskInv /\ site \in Site /\ job \in [Core -> Job] /\ 1 \in Core
        /\ task \in [Core -> Part]
    BY DEF WordsInv, WordsTypeOK, Core
  <1>1. /\ task[1] = "recv" /\ job[1].at = "idle" /\ message # Blank /\ message' = message
        /\ UNCHANGED <<site, up, mailbox, published, local, reason, vm, probe, uart>>
    BY DEF EngineRecv, Task, At, signals
  <1>2. site.capsule # "diagnostic" /\ Loadable
    BY <1>0, <1>1, PolicyLoadable
  <1>3. message = Full
    BY <1>0, <1>1 DEF TaskInv
  <1>4. task' = [task EXCEPT ![1] = "loading"] /\ "loading" \in Part /\ Load(1, Full)
    BY <1>3 DEF EngineRecv, Become, Part
  <1>5. /\ job' \in [Core -> Job] /\ \A d \in Core : d # 1 => job'[d] = job[d]
        /\ LoadInv(1)'
    BY <1>0, <1>1, <1>2, <1>4, LoadsFull
  <1>6. /\ 1 # 0 /\ "loading" \notin {"unloaded", "send", "sendLoaded", "uartLoading", "route", "alarm",
                                       "irq", "fact"}
        /\ message' \in {message, Full}
    BY <1>1
  <1>7. QED
    BY <1>0, <1>1, <1>2, <1>4, <1>5, <1>6, TakeStep

LEMMA EnginePolicyKeeps ==
  ASSUME OneImage, WordsInv, EnginePolicy
  PROVE  WordsInv'
  <1>0. /\ TaskInv /\ site \in Site /\ job \in [Core -> Job] /\ 1 \in Core
        /\ task \in [Core -> Part]
    BY DEF WordsInv, WordsTypeOK, Core
  <1>1. /\ task[1] = "policy" /\ job[1].at = "idle"
        /\ UNCHANGED <<site, up, mailbox, published, local, reason, vm, message, probe, uart>>
    BY DEF EnginePolicy, Task, At, signals
  <1>2. site.capsule # "diagnostic"
    BY <1>0, <1>1, PolicyLoadable
  <1>3. CASE LoadedForCore(1) /\ target = PolicyImage
    <2>1. job' = job /\ task' = [task EXCEPT ![1] = "route"] /\ "route" \in Part
      BY <1>3 DEF EnginePolicy, Become, Part
    <2>2. QED
      BY <1>0, <1>1, <1>2, <1>3, <2>1, TaskStep
  <1>4. CASE ~(LoadedForCore(1) /\ target = PolicyImage)
    <2>1. task' = task /\ job' = [job EXCEPT ![1].at = "prepare", ![1].then = "arm"]
      BY <1>4 DEF EnginePolicy
    <2>2. /\ job' \in [Core -> Job] /\ \A d \in Core : d # 1 => job'[d] = job[d]
          /\ job'[1].at = "prepare" /\ job'[1].held = job[1].held
      BY <1>0, <2>1, JobPrepare
    <2>3. LoadInv(1)'
      BY <2>2 DEF LoadInv
    <2>4. QED
      BY <1>0, <1>1, <2>1, <2>2, <2>3, JobStep DEF mailbox, published, signals, WordsInv, WordsTypeOK
  <1>5. QED
    BY <1>3, <1>4

\* What UART0 brought is the policy image, the only one of such a session.
LEMMA DriverUartLoadKeeps ==
  ASSUME OneImage, WordsInv, DriverUartLoad
  PROVE  WordsInv'
  <1>0. /\ TaskInv /\ site \in Site /\ job \in [Core -> Job] /\ 0 \in Core
        /\ task \in [Core -> Part]
    BY DEF WordsInv, WordsTypeOK, Core
  <1>1. /\ task[0] = "wait" /\ job[0].at = "idle" /\ uart.ready /\ message' = message
        /\ UNCHANGED <<site, up, mailbox, published, local, reason, vm, probe, uart>>
    BY DEF DriverUartLoad, Task, At, signals
  <1>2. site.capsule # "diagnostic" /\ Loadable
    BY <1>0, <1>1, PolicyLoadable
  <1>3. site.uart
    BY <1>0, <1>1 DEF TaskInv, NoUart
  <1>4. TheImage = PolicyImage /\ Whole(PolicyImage) = Full /\ TheImage \in Name /\ Full \in Held
    BY <1>0, <1>3, ImageFacts DEF Name, Full
  <1>5. /\ task' = [task EXCEPT ![0] = "uartLoading"] /\ "uartLoading" \in Part
        /\ job' = [job EXCEPT ![0].at = "load", ![0].then = "idle", ![0].image = Full,
                              ![0].digest = TheImage, ![0].held = Full]
    BY <1>4 DEF DriverUartLoad, Become, Part
  <1>6. /\ job' \in [Core -> Job] /\ \A d \in Core : d # 0 => job'[d] = job[d]
        /\ job'[0].at = "load" /\ job'[0].image = Full /\ job'[0].digest = TheImage
        /\ job'[0].held = Full
    <2>1. job' = [job EXCEPT ![0].at = "load", ![0].then = "idle", ![0].image = Full,
                             ![0].digest = TheImage, ![0].held = Full]
      BY <1>5
    <2>2. job \in [Core -> Job] /\ 0 \in Core /\ TheImage \in Name /\ Full \in Held
      BY <1>0, <1>4
    <2>3. QED
      BY <2>1, <2>2, JobUartLoad
  <1>7. LoadInv(0)'
    BY <1>1, <1>2, <1>6, SiteKept DEF LoadInv
  <1>8. /\ "uartLoading" \notin {"unloaded", "sendLoaded", "route", "alarm", "irq", "fact"}
        /\ message' \in {message, Full}
    BY <1>1
  <1>9. QED
    BY ZenonT(60), <1>0, <1>1, <1>2, <1>5, <1>6, <1>7, <1>8, TakeStep

\* UART0 changes nothing else, but that it wakes core 0.
LEMMA UartStep ==
  ASSUME WordsInv, site.uart, UartTypeOK',
         UNCHANGED <<site, up, mailbox, published, local, reason, vm, task, message, probe>>,
         job' = job \/ job' = [job EXCEPT ![0].at = "idle"]
  PROVE  WordsInv'
  <1>0. /\ WordsTypeOK /\ ProbeInv /\ CommittedInv /\ NamedInv /\ TaskInv /\ FactFindsImage
        /\ \A c \in Core : LoadInv(c)
    BY DEF WordsInv
  <1>1. /\ TheImage' = TheImage /\ Full' = Full /\ Held' = Held /\ Name' = Name
        /\ Job' = Job /\ Loadable' = Loadable
    BY SiteKept
  <1>a. /\ job' \in [Core -> Job] /\ \A c \in Core : job'[c].held = job[c].held
        /\ \A c \in Core : job'[c] = job[c] \/ job'[c].at = "idle"
    BY SMTT(40), <1>0 DEF WordsTypeOK, Job, Label
  <1>2. WordsTypeOK'
    BY <1>0, <1>a, <1>1 DEF WordsTypeOK, mailbox, published, signals
  <1>3. ProbeInv' /\ CommittedInv'
    BY <1>0, <1>1 DEF ProbeInv, CommittedInv, Commit, mailbox
  <1>4. NamedInv' /\ FactFindsImage'
    BY <1>0, <1>1 DEF NamedInv, FactFindsImage, mailbox, published, signals
  <1>5. TaskInv'
    <2>1. \A d \in Core : LoadedForCore(d)' <=> LoadedForCore(d)
      BY DEF LoadedForCore, published, signals
    <2>2. 0 \in Core
      BY DEF Core
    <2>3. QED
      BY <1>0, <1>a, <1>1, <2>1, <2>2 DEF TaskInv
  <1>6. \A c \in Core : LoadInv(c)'
    BY <1>0, <1>a, <1>1 DEF LoadInv, published
  <1>7. QED
    BY <1>2, <1>3, <1>4, <1>5, <1>6 DEF WordsInv

\* The parser of the ingress keeps its types.
LEMMA RxByteTyped ==
  ASSUME NEW u \in Uart, NEW p \in Nat
  PROVE  RxByte(u, p) \in Uart
  <1>1. u.ingress \in Seq(Nat) /\ <<>> \in Seq(Nat)
    BY DEF Uart
  <1>2. Push(u.ingress, p) \in Seq(Nat)
    BY <1>1 DEF Push
  <1>3. (u.ready \/ Push(u.ingress, p) = Upload) \in BOOLEAN
    OBVIOUS
  <1>4. [u EXCEPT !.ingress = Push(u.ingress, p)] \in Uart
    BY <1>2 DEF Uart
  <1>5. [u EXCEPT !.ingress = <<>>, !.ready = u.ready \/ Push(u.ingress, p) = Upload] \in Uart
    <2>1. ASSUME NEW b \in BOOLEAN PROVE [u EXCEPT !.ingress = <<>>, !.ready = b] \in Uart
      BY <1>1 DEF Uart
    <2>2. QED
      BY <1>3, <2>1, Zenon
  <1>6. QED
    BY <1>4, <1>5, Zenon DEF RxByte

LEMMA UartKeeps ==
  ASSUME WordsInv, UartHost \/ UartIrq \/ DriverDrain
  PROVE  WordsInv'
  <1>0. UartTypeOK /\ uart \in Uart /\ TaskInv /\ Cells \in Nat
    BY EpfAssumption DEF WordsInv, UartTypeOK
  <1>1. site.uart
    <2>1. NoUart.line = <<>> /\ NoUart.held = <<>>
      BY DEF NoUart
    <2>2. site.uart \/ uart.line # <<>> \/ uart.held # <<>>
      BY DEF UartHost, UartIrq, DriverDrain
    <2>3. QED
      BY <1>0, <2>1, <2>2 DEF TaskInv
  <1>2. /\ UNCHANGED <<site, up, mailbox, published, local, reason, vm, task, message, probe>>
        /\ job' = job \/ job' = [job EXCEPT ![0].at = "idle"]
    BY DEF UartHost, UartIrq, DriverDrain, signals
  <1>a. uart.line \in Seq(Nat) /\ uart.held \in Seq(Nat) /\ uart.uploads \in Nat
    BY <1>0 DEF Uart
  <1>b. uart.line # <<>> => /\ Head(uart.line) \in Nat /\ Tail(uart.line) \in Seq(Nat)
                            /\ <<Head(uart.line)>> \in Seq(Nat)
    BY <1>a
  <1>3. CASE UartHost
    <2>1. Upload \in Seq(Nat) /\ uart.uploads + 1 \in Nat
      <3>1. Cells + 1 \in Nat /\ \A k \in 1..Cells + 1 : k \in Nat
        BY <1>0
      <3>2. Upload \in Seq(Nat)
        BY <3>1 DEF Upload
      <3>3. QED
        BY <1>a, <3>2
    <2>2. uart' \in Uart
      BY <1>0, <1>3, <2>1 DEF UartHost, Uart
    <2>3. QED
      BY <1>1, <1>2, <2>2, UartStep DEF UartTypeOK
  <1>4. CASE UartIrq
    <2>1. [uart EXCEPT !.line = Tail(uart.line)] \in Uart
      BY <1>0, <1>4, <1>b DEF UartIrq, Uart
    <2>2. uart' \in Uart
      BY <1>4, <1>b, <2>1, RxByteTyped DEF UartIrq
    <2>3. QED
      BY <1>1, <1>2, <2>2, UartStep DEF UartTypeOK
  <1>5. CASE DriverDrain
    <2>1. CASE uart.held # <<>>
      <3>1. [uart EXCEPT !.held = <<>>] \in Uart /\ uart.held[1] \in Nat
        <4>1. <<>> \in Seq(Nat)
          OBVIOUS
        <4>2. [uart EXCEPT !.held = <<>>] \in Uart
          BY <1>0, <4>1 DEF Uart
        <4>3. uart.held[1] \in Nat
          <5>1. Len(uart.held) \in Nat \ {0}
            BY <1>a, <2>1, EmptySeq
          <5>2. QED
            BY <1>a, <5>1
        <4>4. QED
          BY <4>2, <4>3
      <3>2. uart' \in Uart
        BY <1>5, <2>1, <3>1, RxByteTyped DEF DriverDrain
      <3>3. QED
        BY <1>1, <1>2, <3>2, UartStep DEF UartTypeOK
    <2>2. CASE uart.held = <<>>
      <3>1. uart' \in Uart
        BY <1>0, <1>5, <1>b, <2>2 DEF DriverDrain, Uart
      <3>2. QED
        BY <1>1, <1>2, <3>1, UartStep DEF UartTypeOK
    <2>3. QED
      BY <2>1, <2>2
  <1>6. QED
    BY <1>3, <1>4, <1>5

\* A step of the probe: no core has the committed words in hand before the
\* commit, and none are written after it.
LEMMA ProbeStep ==
  ASSUME WordsInv, WordsTypeOK', ProbeInv', CommittedInv',
         UNCHANGED <<site, up, published, local, reason, vm, job, task, message, uart>>,
         state' \in {state, "EMPTY", "COMMIT"},
         probe.commits = 1 => probe'.commits = 1
  PROVE  WordsInv'
  <1>0. /\ UartTypeOK /\ NamedInv /\ TaskInv /\ FactFindsImage /\ \A c \in Core : LoadInv(c)
    BY DEF WordsInv
  <1>1. /\ TheImage' = TheImage /\ Full' = Full /\ Held' = Held /\ Name' = Name
        /\ Job' = Job /\ Loadable' = Loadable
    BY SiteKept
  <1>2. NamedInv' /\ FactFindsImage' /\ UartTypeOK'
    BY <1>0, <1>1 DEF NamedInv, FactFindsImage, UartTypeOK, published, signals
  <1>3. TaskInv'
    <2>1. \A d \in Core : LoadedForCore(d)' <=> LoadedForCore(d)
      BY DEF LoadedForCore, published, signals
    <2>2. 0 \in Core
      BY DEF Core
    <2>3. QED
      BY <1>0, <1>1, <2>1, <2>2 DEF TaskInv
  <1>4. \A c \in Core : LoadInv(c)'
    BY <1>0, <1>1 DEF LoadInv, published, signals
  <1>5. QED
    BY <1>2, <1>3, <1>4 DEF WordsInv

LEMMA ProbeKeeps ==
  ASSUME OneImage, WordsInv, Probe
  PROVE  WordsInv'
  <1>0. /\ WordsTypeOK /\ ProbeInv /\ CommittedInv /\ site \in Site /\ image \in Held
        /\ probe \in [at : {"ready", "image", "length", "commit"}, k : Cell, commits : Nat]
    BY DEF WordsInv, WordsTypeOK
  <1>1. /\ UNCHANGED <<site, up, published, local, reason, vm, job, task, message, uart>>
        /\ TheImage' = TheImage /\ Full' = Full /\ Held' = Held /\ Name' = Name /\ Job' = Job
    <2>1. UNCHANGED <<site, up, published, local, reason, vm, job, task, message, uart>>
      BY DEF Probe, ProbeBegin, ProbeCell, ProbeLength, ProbeCommit, signals
    <2>2. QED
      BY <2>1, SiteKept
  <1>2. Len(site.commits) = 1 /\ probe.commits = 0 /\ site.commits # <<>>
    <2>1. probe.commits < Len(site.commits)
      BY <1>0 DEF Probe, ProbeBegin, ProbeCell, ProbeLength, ProbeCommit, ProbeInv
    <2>2. Len(site.commits) \in {0, 1} /\ probe.commits \in {0, 1}
      BY <1>0, ImageFacts, CommitFacts
    <2>3. Len(site.commits) = 1 /\ probe.commits = 0
      <3>1. \A l, n \in {0, 1} : n < l => l = 1 /\ n = 0
        OBVIOUS
      <3>2. QED
        BY <2>1, <2>2, <3>1, Zenon
    <2>4. Len(<<>>) = 0
      OBVIOUS
    <2>5. QED
      BY <2>3, <2>4
  <1>3. /\ Commit = site.commits[1] /\ Commit.image = TheImage
        /\ Commit.fault \in {"none", "hash", "len"}
        /\ Cells \in Nat /\ Cells >= 1 /\ 1 \in Cell /\ TheImage \in Name /\ TheImage \in Images
        /\ Mixed \in Name /\ TheImage # Mixed /\ Full \in Held /\ \A k \in Cell : Full[k] = TheImage
    <2>1. Commit = site.commits[1]
      BY <1>2 DEF Commit
    <2>2. QED
      BY <1>0, <1>2, <2>1, ImageFacts DEF Name
  <1>4. CASE ProbeBegin
    <2>1. /\ state' = "EMPTY" /\ UNCHANGED <<len, hash, image>>
          /\ probe' = [probe EXCEPT !.at = "image", !.k = 1]
      BY <1>4 DEF ProbeBegin
    <2>2. /\ probe' \in [at : {"ready", "image", "length", "commit"}, k : Cell, commits : Nat]
          /\ probe'.at = "image" /\ probe'.k = 1 /\ probe'.commits = 0
      BY <1>0, <1>2, <1>3, <2>1
    <2>3. WordsTypeOK'
      BY <1>0, <1>1, <2>1, <2>2 DEF WordsTypeOK, published, signals
    <2>4. ProbeInv'
      BY <1>1, <1>2, <2>1, <2>2 DEF ProbeInv
    <2>5. CommittedInv'
      BY <2>2 DEF CommittedInv
    <2>6. QED
      BY <1>1, <1>2, <2>1, <2>3, <2>4, <2>5, ProbeStep
  <1>5. CASE ProbeCell
    <2>1. /\ UNCHANGED <<state, len, hash>> /\ probe.at = "image"
          /\ image' = [image EXCEPT ![probe.k] = TheImage]
          /\ probe' = IF probe.k = Cells THEN [probe EXCEPT !.at = "length"]
                      ELSE [probe EXCEPT !.k = probe.k + 1]
      BY <1>3, <1>5 DEF ProbeCell
    <2>2. probe.k \in Cell /\ \A j \in 1..probe.k - 1 : image[j] = TheImage
      BY <1>0, <1>3, <2>1 DEF ProbeInv
    <2>3. /\ probe.k # Cells => probe.k + 1 \in Cell
          /\ \A j \in Cell : j \in 1..probe.k - 1 \/ j = probe.k \/ j > probe.k
          /\ \A j \in 1..probe.k : j \in Cell /\ (j = probe.k \/ j \in 1..probe.k - 1)
          /\ probe.k + 1 - 1 = probe.k
      BY <1>3, <2>2 DEF Cell
    <2>4. /\ probe' \in [at : {"ready", "image", "length", "commit"}, k : Cell, commits : Nat]
          /\ probe'.at = (IF probe.k = Cells THEN "length" ELSE "image") /\ probe'.commits = 0
          /\ probe.k # Cells => probe'.k = probe.k + 1
      BY <1>0, <1>2, <2>1, <2>3
    <2>5. /\ image' \in Held /\ image'[probe.k] = TheImage
          /\ \A j \in Cell : j # probe.k => image'[j] = image[j]
      BY <1>0, <1>3, <2>1, <2>2 DEF Held
    <2>6. \A j \in 1..probe.k : image'[j] = TheImage
      BY <2>2, <2>3, <2>5
    <2>7. WordsTypeOK'
      BY <1>0, <1>1, <2>1, <2>4, <2>5 DEF WordsTypeOK, published, signals
    <2>8. probe.k = Cells => image' = Full
      BY <2>5, <2>6, SameCells DEF Cell
    <2>9. ProbeInv'
      <3>1. Commit' = Commit /\ Whole(Commit.image) = Full
        BY <1>1, <1>2, <1>3, <2>4 DEF Commit, Full
      <3>2. probe.k # Cells => \A j \in 1..probe'.k - 1 : image'[j] = Commit.image
        <4>1. probe.k # Cells => probe'.k = probe.k + 1
          BY <2>4
        <4>2. probe.k # Cells => \A j \in 1..probe'.k - 1 : j \in 1..probe.k
          BY <2>2, <4>1 DEF Cell
        <4>3. QED
          BY <1>3, <2>6, <4>2
      <3>3. probe.k = Cells => image' = Whole(Commit.image)
        BY <2>8, <3>1
      <3>4. state' # "COMMIT"
        BY <1>0, <1>2, <2>1 DEF ProbeInv
      <3>5. QED
        BY <1>1, <1>2, <2>1, <2>4, <3>1, <3>2, <3>3, <3>4 DEF ProbeInv
    <2>10. CommittedInv'
      BY <2>4 DEF CommittedInv
    <2>11. QED
      BY <1>1, <1>2, <2>1, <2>7, <2>9, <2>10, ProbeStep
  <1>6. CASE ProbeLength
    <2>1. /\ UNCHANGED <<state, image>> /\ probe.at = "length"
          /\ len' = (IF Commit.fault = "len" THEN Cells + 1 ELSE Cells)
          /\ hash' = (IF Commit.fault = "hash" THEN Mixed ELSE TheImage)
          /\ probe' = [probe EXCEPT !.at = "commit"]
      BY <1>3, <1>6 DEF ProbeLength
    <2>2. /\ probe' \in [at : {"ready", "image", "length", "commit"}, k : Cell, commits : Nat]
          /\ probe'.at = "commit" /\ probe'.commits = 0
      BY <1>0, <1>2, <2>1
    <2>3. /\ len' \in 0..Cells + 1 /\ hash' \in {Mixed, TheImage} /\ hash' \in Name
          /\ len' <= Cells => Commit.fault # "len"
          /\ hash' # Mixed => Commit.fault # "hash"
      <3>1. Cells + 1 \in 0..Cells + 1 /\ Cells \in 0..Cells + 1 /\ ~(Cells + 1 <= Cells)
        BY <1>3
      <3>2. QED
        BY <1>3, <2>1, <3>1
    <2>4. WordsTypeOK'
      BY <1>0, <1>1, <2>1, <2>2, <2>3 DEF WordsTypeOK, published, signals
    <2>5. Commit' = Commit /\ image = Whole(Commit.image) /\ state # "COMMIT"
      BY <1>0, <1>1, <1>2, <2>1, <2>2 DEF Commit, ProbeInv
    <2>6. ProbeInv'
      BY <1>1, <1>2, <1>3, <2>1, <2>2, <2>3, <2>5 DEF ProbeInv, Whole
    <2>7. CommittedInv'
      BY <2>2 DEF CommittedInv
    <2>8. QED
      BY <1>1, <1>2, <2>1, <2>4, <2>6, <2>7, ProbeStep
  <1>7. CASE ProbeCommit
    <2>1. /\ UNCHANGED <<len, hash, image>> /\ probe.at = "commit" /\ state' = "COMMIT"
          /\ probe' = [probe EXCEPT !.at = "ready", !.commits = probe.commits + 1]
      BY <1>7 DEF ProbeCommit
    <2>2. /\ probe' \in [at : {"ready", "image", "length", "commit"}, k : Cell, commits : Nat]
          /\ probe'.at = "ready" /\ probe'.commits = 1
      <3>1. probe.commits + 1 = 1
        BY <1>2
      <3>2. probe' = [probe EXCEPT !.at = "ready", !.commits = 1]
        BY <2>1, <3>1
      <3>3. QED
        BY <1>0, <3>2
    <2>3. /\ image = Full /\ hash \in {Mixed, TheImage}
          /\ len <= Cells => site.commits[1].fault # "len"
          /\ hash # Mixed => site.commits[1].fault # "hash"
      BY <1>0, <1>3, <2>1 DEF ProbeInv, Full
    <2>4. WordsTypeOK'
      BY <1>0, <1>1, <2>1, <2>2 DEF WordsTypeOK, published, signals
    <2>5. ProbeInv'
      BY <1>1, <1>2, <2>1, <2>2 DEF ProbeInv
    <2>6. CommittedInv'
      BY <1>1, <2>1, <2>2, <2>3 DEF CommittedInv
    <2>7. QED
      BY <1>1, <1>2, <2>1, <2>4, <2>5, <2>6, ProbeStep
  <1>8. QED
    BY <1>4, <1>5, <1>6, <1>7 DEF Probe

\* Launching changes which cores are up, and no word.
LEMMA BootKeeps ==
  ASSUME WordsInv, Boot \/ UNCHANGED vars
  PROVE  WordsInv'
  <1>0. /\ WordsTypeOK /\ UartTypeOK /\ ProbeInv /\ CommittedInv /\ NamedInv /\ TaskInv
        /\ FactFindsImage /\ \A c \in Core : LoadInv(c)
    BY DEF WordsInv
  <1>1. UNCHANGED epfButUp
    BY DEF Boot, CoreZero, CoreOne, Reset, ForceOff, ForceOn, Drain, PushWord, PopWord, Wake,
           RomWord, Entry, Start, OldWord, BootAt, RomAt, epfVars, epfButUp, vars
  <1>2. up' \in {up, up \cup {0}, up \cup {1}}
    BY DEF Boot, CoreZero, CoreOne, Reset, ForceOff, ForceOn, Drain, PushWord, PopWord, Wake,
           RomWord, Entry, Start, OldWord, BootAt, RomAt, epfVars, vars
  <1>3. UNCHANGED <<site, state, len, hash, image, active, activeLen, digest, target, local, reason,
                    vm, job, task, message, probe, uart>>
    BY <1>1 DEF epfButUp, mailbox, published, signals
  <1>4. up' \subseteq Core
    BY <1>0, <1>2 DEF WordsTypeOK, Core
  <1>5. /\ TheImage' = TheImage /\ Full' = Full /\ Held' = Held /\ Name' = Name
        /\ Job' = Job /\ Loadable' = Loadable
    BY <1>3, SiteKept
  <1>6. WordsTypeOK' /\ UartTypeOK'
    BY <1>0, <1>3, <1>4, <1>5 DEF WordsTypeOK, UartTypeOK
  <1>7. ProbeInv' /\ CommittedInv'
    BY <1>0, <1>3, <1>5 DEF ProbeInv, CommittedInv, Commit
  <1>8. NamedInv' /\ FactFindsImage'
    BY <1>0, <1>3, <1>5 DEF NamedInv, FactFindsImage
  <1>9. TaskInv'
    <2>1. \A d \in Core : LoadedForCore(d)' <=> LoadedForCore(d)
      BY <1>3 DEF LoadedForCore
    <2>2. 0 \in Core
      BY DEF Core
    <2>3. QED
      BY <1>0, <1>3, <1>5, <2>1, <2>2 DEF TaskInv
  <1>10. \A c \in Core : LoadInv(c)'
    BY <1>0, <1>3, <1>5 DEF LoadInv
  <1>11. QED
    BY <1>6, <1>7, <1>8, <1>9, <1>10 DEF WordsInv

\* Hibana's event is no matter of the words.
LEMMA EmitKeepsWords ==
  ASSUME OneImage, WordsInv, NEW c \in Core, Emit(c)
  PROVE  WordsInv'
  <1>1. UNCHANGED <<site, up, probe, len, hash, image, active, activeLen, digest, target, local,
                    vm, task, message, uart, state, reason, job>>
    BY DEF Emit, mailbox, published, signals
  <1>2. LoadInv(c)'
    BY <1>1, SiteKept DEF WordsInv, LoadInv
  <1>3. QED
    BY <1>1, <1>2, JobStep DEF WordsInv, WordsTypeOK

\* Nor is the interrupt of the timer.
LEMMA RouteAlarmKeeps ==
  ASSUME OneImage, WordsInv, RouteAlarm
  PROVE  WordsInv'
  <1>1. UNCHANGED <<site, up, probe, len, hash, image, active, activeLen, digest, target, local,
                    vm, task, message, uart, state, reason, job>>
    BY DEF RouteAlarm, mailbox, published
  <1>2. 0 \in Core /\ LoadInv(0)'
    BY <1>1, SiteKept DEF WordsInv, LoadInv, Core
  <1>3. QED
    BY <1>1, <1>2, JobStep DEF WordsInv, WordsTypeOK

LEMMA WordsInit == OneImage /\ Init => WordsInv
  <1> SUFFICES ASSUME OneImage, Init PROVE WordsInv
    OBVIOUS
  <1>1. site \in Site
    BY DEF Init, EpfInit
  <1>2. /\ Cells \in Nat /\ Cells >= 1 /\ 1 \in Cell /\ None # TheImage
        /\ Blank # Full /\ site.capsule \in {"diagnostic", "policy"}
        /\ Len(site.commits) \in {0, 1}
    BY <1>1, ImageFacts
  <1>3. Blank \in Held /\ None \in Name /\ \A k \in Cell : Blank[k] = None
    BY DEF Blank, Held, Name
  <1>4. job = [c \in Core |-> Idle] /\ Idle \in Job /\ Idle.at = "idle"
    <2>1. Idle \in Job
      BY <1>3 DEF Idle, Job, Label
    <2>2. QED
      BY <2>1 DEF Init, EpfInit, Idle
  <1>5. \A c \in Core : job[c].at = "idle" /\ vm[c] = Blank /\ local[c] = None
    BY <1>4 DEF Init, EpfInit
  <1>6. /\ task \in [Core -> Part]
        /\ \A c \in Core : task[c] \in {"other", "wait", "recv"}
        /\ site.capsule = "diagnostic" => \A c \in Core : task[c] = "other"
    BY DEF Init, EpfInit, Part
  <1>7. WordsTypeOK
    <2>1. /\ probe \in [at : {"ready", "image", "length", "commit"}, k : Cell, commits : Nat]
      BY <1>2 DEF Init, EpfInit
    <2>2. /\ job \in [Core -> Job] /\ vm \in [Core -> Held] /\ local \in [Core -> Name]
      BY <1>3, <1>4 DEF Init, EpfInit
    <2>3. 0 \in 0..Cells + 1
      BY <1>2
    <2>4. QED
      BY <1>1, <1>3, <1>6, <2>1, <2>2, <2>3 DEF Init, EpfInit, WordsTypeOK
  <1>8. UartTypeOK /\ uart = NoUart
    BY DEF Init, EpfInit, UartTypeOK, Uart, NoUart
  <1>9. ProbeInv
    BY <1>2 DEF Init, EpfInit, ProbeInv
  <1>10. CommittedInv
    BY DEF Init, EpfInit, CommittedInv
  <1>11. NamedInv
    BY <1>2, <1>3, <1>5 DEF Init, EpfInit, NamedInv
  <1>12. TaskInv /\ FactFindsImage
    <2>1. 0 \in Core
      BY DEF Core
    <2>2. message = Blank
      BY DEF Init, EpfInit
    <2>3. QED
      BY <1>6, <1>8, <2>1, <2>2 DEF TaskInv, FactFindsImage
  <1>13. \A c \in Core : LoadInv(c)
    BY <1>5 DEF LoadInv
  <1>14. QED
    BY <1>7, <1>8, <1>9, <1>10, <1>11, <1>12, <1>13 DEF WordsInv

LEMMA WordsStep == OneImage /\ WordsInv /\ [Next]_vars => WordsInv'
  <1> SUFFICES ASSUME OneImage, WordsInv, [Next]_vars PROVE WordsInv'
    OBVIOUS
  <1>1. ASSUME NEW c \in Core, LoadStep(c) PROVE WordsInv'
    BY <1>1, PrepareKeeps, VerifyKeeps, CopyKeeps, LoadVmKeeps, PutCellKeeps, PutLenKeeps,
       PutDigestKeeps, PutLocalKeeps, PutLoadedKeeps, ActiveKeeps, CopyActiveKeeps,
       LoadActiveKeeps DEF LoadStep
  <1>2. ASSUME NEW c \in Core,
               DiagnosticStep(c) \/ WfeReturns(c) \/ DelayStep(c) \/ Emit(c) \/ Panic(c)
        PROVE  WordsInv'
    BY <1>2, PollKeeps, SleepKeeps, EmitKeepsWords, TaskStepsKeep
  <1>3. 0 \in Core /\ 1 \in Core
    BY DEF Core
  <1>4. ASSUME DriverStep PROVE WordsInv'
    BY <1>3, <1>4, TaskStepsKeep, SleepKeeps, DriverReadKeeps, DriverSendKeeps,
       DriverUartLoadKeeps, UartKeeps DEF DriverStep
  <1>5. ASSUME EngineStep PROVE WordsInv'
    BY <1>3, <1>5, TaskStepsKeep, EngineRecvKeeps, EnginePolicyKeeps, RouteAlarmKeeps
       DEF EngineStep
  <1>6. CASE Running
    BY <1>1, <1>2, <1>4, <1>5, <1>6, ProbeKeeps, TaskStepsKeep, UartKeeps DEF Running, EpfNext
  <1>7. QED
    BY <1>6, BootKeeps DEF Next

\* The event registers and the ready word keep their types.
LEMMA SignalsStep == SignalTypeOK /\ [Next]_vars => SignalTypeOK'
  <1> SUFFICES ASSUME SignalTypeOK, [Next]_vars PROVE SignalTypeOK'
    OBVIOUS
  <1>1. ASSUME UNCHANGED signals PROVE SignalTypeOK'
    BY <1>1 DEF signals, SignalTypeOK
  <1>2. ASSUME owed' \in {owed, [c \in Core |-> TRUE]}, irqSeen' \in {irqSeen, TRUE, FALSE}
        PROVE  SignalTypeOK'
    BY <1>2 DEF SignalTypeOK
  <1>3. ASSUME NEW c \in Core, LoadStep(c) PROVE SignalTypeOK'
    BY <1>1, <1>3 DEF LoadStep, Prepare, Verify, Copy, LoadVm, PutCell, PutLen, PutDigest, PutLocal,
                PutLoaded, Active, CopyActive, LoadActive
  <1>4. ASSUME NEW c \in Core, DiagnosticStep(c) \/ Emit(c) \/ Panic(c) PROVE SignalTypeOK'
    BY <1>1, <1>4 DEF DiagnosticStep, PollDiagnostic, SpoolStep, TapStep, Emit, Panic
  <1>5. ASSUME NEW c \in Core, WfeReturns(c) PROVE SignalTypeOK'
    BY <1>5 DEF WfeReturns, SignalTypeOK
  <1>6. ASSUME NEW c \in Core, DelayStep(c) PROVE SignalTypeOK'
    BY <1>2, <1>6 DEF DelayStep, DelayArms, DelayEnds, Arm, AlarmIrq, SignalCores
  <1>7. ASSUME Probe \/ DriverWait \/ DriverDelay \/ DriverRead \/ DriverIrq \/ DriverUartLoad
               \/ DriverDrain \/ DriverGiveUp \/ EngineRecv \/ EnginePolicy \/ EngineIrq \/ UartHost
        PROVE  SignalTypeOK'
    BY <1>1, <1>7 DEF Probe, ProbeBegin, ProbeCell, ProbeLength, ProbeCommit, DriverWait, DriverDelay,
                DriverRead, DriverIrq, DriverUartLoad, DriverDrain, DriverGiveUp, EngineRecv,
                EnginePolicy, EngineIrq, UartHost
  <1>8. ASSUME DriverSend \/ DriverDone \/ DriverSuccess \/ EngineArms \/ RouteAlarm \/ EngineAck
               \/ UartIrq \/ \E c \in Core : TimerFact(c)
        PROVE  SignalTypeOK'
    BY <1>2, <1>8 DEF DriverSend, DriverDone, DriverSuccess, EngineArms, RouteAlarm, EngineAck, Answer,
                UartIrq, TimerFact, Arm, AlarmIrq, SignalCores
  <1>9. CASE Running
    <2>1. 0 \in Core /\ 1 \in Core
      BY DEF Core
    <2>2. QED
      BY <1>3, <1>4, <1>5, <1>6, <1>7, <1>8, <1>9, <2>1 DEF Running, EpfNext, DriverStep, EngineStep
  <1>10. CASE Boot \/ UNCHANGED vars
    BY <1>1, <1>10 DEF Boot, CoreZero, CoreOne, Reset, ForceOff, ForceOn, Drain, PushWord, PopWord,
                Wake, RomWord, Entry, Start, OldWord, BootAt, RomAt, epfVars, epfButUp, vars
  <1>11. QED
    BY <1>9, <1>10 DEF Next

\* The words say what the cores run.
LEMMA WordsSay ==
  ASSUME OneImage, WordsInv
  PROVE  DigestMatches /\ LoadedIsWhole /\ OnlyVerified
  <1>0. NamedInv /\ site \in Site
    BY DEF WordsInv, WordsTypeOK
  <1>1. DigestMatches
    BY <1>0 DEF NamedInv, DigestMatches, Full
  <1>2. LoadedIsWhole
    BY <1>0, ImageFacts DEF NamedInv, LoadedIsWhole, Full
  <1>3. OnlyVerified
    <2> SUFFICES ASSUME NEW c \in Core, NEW n \in DOMAIN site.commits, site.capsule = "diagnostic",
                        site.commits[n].fault # "none", vm[c] = Whole(site.commits[n].image)
                 PROVE  FALSE
      BY DEF OnlyVerified
    <2>1. n = 1 /\ site.commits # <<>>
      <3>1. DOMAIN site.commits = 1..Len(site.commits)
        BY <1>0, EpfAssumption
      <3>2. Len(site.commits) \in {0, 1} /\ Len(<<>>) = 0
        BY <1>0, ImageFacts
      <3>3. n \in 1..Len(site.commits)
        BY <3>1
      <3>4. n = 1 /\ Len(site.commits) = 1
        BY <3>2, <3>3
      <3>5. QED
        BY <3>2, <3>4
    <2>2. vm[c] = Full
      BY <1>0, <2>1, ImageFacts DEF Full
    <2>3. QED
      BY <1>0, <2>1, <2>2 DEF NamedInv, Loadable
  <1>4. QED
    BY <1>1, <1>2, <1>3

\* A core whose digest word names an image runs exactly that image, for any
\* number of cells and any interleaving of the two cores, the probe and UART0,
\* where one image is on its way in a session.
THEOREM ImageIsNamed == ASSUME OneImage PROVE Spec => []DigestMatches
  <1>1. Init => WordsInv
    BY WordsInit
  <1>2. WordsInv /\ [Next]_vars => WordsInv'
    BY WordsStep
  <1>3. WordsInv => DigestMatches
    BY WordsSay
  <1>4. QED
    BY <1>1, <1>2, <1>3, PTL DEF Spec

\* The invariant of the board: the handshake of the launch, the image words, what
\* the localsides hold and the spools, with LOADED only for a whole image, no
\* refused image in a VM and an image under every timer fact.
THEOREM BoardInvariant == ASSUME OneImage PROVE Spec => []BoardInv
  <1> DEFINE All == LaunchInv /\ DiagnosticInv /\ WordsInv /\ SignalTypeOK
  <1>0. Init => SignalTypeOK
    <2>1. [c \in Core |-> FALSE] \in [Core -> BOOLEAN]
      OBVIOUS
    <2>2. Init => owed = [c \in Core |-> FALSE] /\ irqSeen = FALSE
      BY DEF Init, EpfInit
    <2>3. QED
      BY <2>1, <2>2, Zenon DEF SignalTypeOK
  <1>1. Init => All
    BY <1>0, LaunchInit, DiagnosticInit, WordsInit
  <1>2. All /\ [Next]_vars => All'
    BY LaunchStep, DiagnosticStepKeeps, WordsStep, SignalsStep
  <1>3. All => BoardInv
    <2> SUFFICES ASSUME All PROVE BoardInv
      OBVIOUS
    <2>1. LoadedIsWhole /\ OnlyVerified
      BY WordsSay
    <2>2. TypeOK
      BY DEF WordsInv, DiagnosticInv, TypeOK
    <2>3. QED
      BY <2>1, <2>2 DEF BoardInv, ImageInv, WordsInv, DiagnosticInv
  <1> HIDE DEF All
  <1>4. QED
    BY <1>1, <1>2, <1>3, PTL DEF Spec
=============================================================================
