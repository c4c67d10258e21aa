--------------------------- MODULE UartLinkProofs ---------------------------
(***************************************************************************)
(* What holds of the carriers of the Uno Q and of the split example for    *)
(* any ports, frames, payload and queue lengths, and however many bytes    *)
(* the line loses.  First the pieces: queues, the unread bytes, the        *)
(* parser.  Then one lemma per action for FramesInv (names in ...Keeps),   *)
(* and one per action for StreamInv and AcceptedInv (names in ...Carries); *)
(* MisreadInv and the theorems are at the end.                             *)
(***************************************************************************)
EXTENDS UartLink, WellFoundedInduction, FiniteSetTheorems, TLAPS

\* What the constants are.
LEMMA Constants ==
  /\ PROOF_CARRIER_QUEUE_DEPTH \in Nat \ {0} /\ PayloadLen \subseteq Nat
  /\ MAGIC_LEN \in Nat /\ MAGIC_LEN > 1
  /\ UART_CARRIER_HEADER_BYTES \in Nat /\ UART_CARRIER_HEADER_BYTES > MAGIC_LEN
  /\ None \notin Frame /\ None \notin LineByte /\ None \notin Nat
<1>1. PayloadLen \subseteq Nat /\ None \notin LineByte
  BY UartAssumption DEF LineByte
<1>2. None \notin [id : Nat, from : Nat, to : Nat, lane : Nat, len : Nat]
  BY UartAssumption
<1>3. ASSUME NEW f \in Frame
      PROVE  f \in [id : Nat, from : Nat, to : Nat, lane : Nat, len : Nat]
  <2>0. f.id \in Nat /\ f.from \in 0..5 /\ f.to \in 0..4 /\ f.lane \in Nat /\ f.len \in PayloadLen
    BY DEF Frame, Nobody, PROOF_CARRIER_ROLES
  <2>1. f.id \in Nat /\ f.from \in Nat /\ f.to \in Nat /\ f.lane \in Nat /\ f.len \in Nat
    <3>1. f.len \in Nat
      BY <2>0, <1>1, Zenon
    <3> QED
      BY <2>0, <3>1
  <2>2. f = [id |-> f.id, from |-> f.from, to |-> f.to, lane |-> f.lane, len |-> f.len]
    BY DEF Frame
  <2> QED
    BY <2>1, <2>2
<1>4. None \notin Frame
  BY <1>2, <1>3
<1> QED
  BY <1>1, <1>4, UartAssumption

\* Two numbers below n, added in the circle of n.
LEMMA Remainder ==
  ASSUME NEW n \in Nat \ {0}, NEW a \in 0..(n - 1), NEW b \in 0..(n - 1)
  PROVE  (a + b) % n = IF a + b < n THEN a + b ELSE a + b - n
  OBVIOUS

-----------------------------------------------------------------------------
(* The queues. *)

\* The cells of a queue, from its head on, are all different.
LEMMA AtCell ==
  ASSUME NEW q, q.head \in QueueSlots, NEW i \in QueueSlots
  PROVE  /\ At(q, i) = IF q.head + i < PROOF_CARRIER_QUEUE_DEPTH THEN q.head + i
                       ELSE q.head + i - PROOF_CARRIER_QUEUE_DEPTH
         /\ At(q, i) \in QueueSlots
         /\ \A j \in QueueSlots : At(q, j) = At(q, i) => j = i
<1> DEFINE D == PROOF_CARRIER_QUEUE_DEPTH
<1>1. D \in Nat \ {0}
  BY Constants
<1>2. \A j \in QueueSlots : At(q, j) = IF q.head + j < D THEN q.head + j ELSE q.head + j - D
  <2> TAKE j \in QueueSlots
  <2> QED
    BY <1>1, Remainder DEF At, QueueSlots
<1> QED
  BY <1>1, <1>2 DEF QueueSlots

\* push_back puts the frame behind the others.
LEMMA PushBackKeeps ==
  ASSUME NEW q, QueueOK(q), ~Full(q), NEW f \in Frame
  PROVE  LET n == PushBack(q, f)
         IN  /\ QueueOK(n) /\ n.len = q.len + 1 /\ Contents(n)[n.len] = f
             /\ \A i \in 1..q.len : Contents(n)[i] = Contents(q)[i]
<1> DEFINE n == PushBack(q, f)
           D == PROOF_CARRIER_QUEUE_DEPTH
<1>0. D \in Nat \ {0} /\ q.head \in QueueSlots /\ q.len \in 0..(D - 1) /\ q.len \in QueueSlots
  BY Constants DEF QueueOK, Queue, Full, QueueSlots
<1>1. /\ n = [frames |-> [q.frames EXCEPT ![At(q, q.len)] = f], head |-> q.head, len |-> q.len + 1]
      /\ q.frames \in [QueueSlots -> Frame \cup {None}]
  BY DEF QueueOK, Queue, PushBack
<1>2. At(q, q.len) \in QueueSlots
  BY <1>0, AtCell
<1>3. \A i \in QueueSlots : At(n, i) = At(q, i) /\ At(q, i) \in QueueSlots
  BY <1>0, <1>1, AtCell DEF At
<1>4. n \in Queue
  BY <1>0, <1>1, <1>2 DEF Queue
<1>5. ASSUME NEW i \in QueueSlots
      PROVE  n.frames[i] # None <=> \E j \in 0..(n.len - 1) : At(n, j) = i
  <2>1. CASE i = At(q, q.len)
    <3>1. n.frames[i] = f /\ f # None
      BY <2>1, <1>1, Constants
    <3>2. q.len \in 0..(n.len - 1) /\ At(n, q.len) = i
      BY <1>0, <1>1, <1>3, <2>1
    <3> QED
      BY <3>1, <3>2
  <2>2. CASE i # At(q, q.len)
    <3>1. n.frames[i] = q.frames[i]
      BY <2>2, <1>1
    <3>2. n.frames[i] # None <=> \E j \in 0..(q.len - 1) : At(q, j) = i
      BY <3>1 DEF QueueOK
    <3>3. \A j \in 0..(n.len - 1) : At(n, j) = i => j \in 0..(q.len - 1)
      BY <1>0, <1>1, <1>3, <2>2 DEF QueueSlots
    <3>4. \A j \in 0..(q.len - 1) : j \in QueueSlots /\ j \in 0..(n.len - 1)
      BY <1>0, <1>1 DEF QueueSlots
    <3> QED
      BY <3>2, <3>3, <3>4, <1>3
  <2> QED
    BY <2>1, <2>2
<1>6. Contents(n)[n.len] = f
  BY <1>0, <1>1, <1>2, <1>3 DEF Contents
<1>7. ASSUME NEW i \in 1..q.len
      PROVE  Contents(n)[i] = Contents(q)[i]
  <2>1. i - 1 \in QueueSlots /\ i - 1 # q.len
    BY <1>0 DEF QueueSlots
  <2>2. At(q, i - 1) # At(q, q.len)
    BY <1>0, <2>1, AtCell
  <2>3. Contents(n)[i] = n.frames[At(n, i - 1)] /\ Contents(q)[i] = q.frames[At(q, i - 1)]
    BY <1>0, <1>1 DEF Contents
  <2> QED
    BY <1>1, <1>3, <2>1, <2>2, <2>3
<1> QED
  BY <1>1, <1>4, <1>5, <1>6, <1>7 DEF QueueOK

\* push_front puts it before them.
LEMMA PushFrontKeeps ==
  ASSUME NEW q, QueueOK(q), ~Full(q), NEW f \in Frame
  PROVE  LET n == PushFront(q, f)
         IN  /\ QueueOK(n) /\ n.len = q.len + 1 /\ Contents(n)[1] = f
             /\ \A i \in 1..q.len : Contents(n)[i + 1] = Contents(q)[i]
<1> DEFINE n == PushFront(q, f)
           D == PROOF_CARRIER_QUEUE_DEPTH
           h == IF q.head = 0 THEN D - 1 ELSE q.head - 1
<1>0. D \in Nat \ {0} /\ q.head \in QueueSlots /\ q.len \in 0..(D - 1) /\ q.len \in QueueSlots
  BY Constants DEF QueueOK, Queue, Full, QueueSlots
<1>1. /\ n = [frames |-> [q.frames EXCEPT ![h] = f], head |-> h, len |-> q.len + 1]
      /\ q.frames \in [QueueSlots -> Frame \cup {None}]
  BY DEF QueueOK, Queue, PushFront
<1>2. h \in QueueSlots
  BY <1>0 DEF QueueSlots
<1>3. \A i \in QueueSlots : /\ At(n, i) \in QueueSlots
                            /\ At(n, i) = IF i = 0 THEN h ELSE At(q, i - 1)
  <2> TAKE i \in QueueSlots
  <2>1. n.head = h
    BY <1>1
  <2>2. /\ At(n, i) \in QueueSlots
        /\ At(n, i) = IF h + i < D THEN h + i ELSE h + i - D
    BY <2>1, <1>2, AtCell
  <2>3. i # 0 => /\ i - 1 \in QueueSlots
                 /\ At(q, i - 1) = IF q.head + (i - 1) < D THEN q.head + (i - 1) ELSE q.head + (i - 1) - D
    BY <1>0, AtCell DEF QueueSlots
  <2> QED
    BY <1>0, <2>2, <2>3 DEF QueueSlots
<1>4. \A i \in 0..(q.len - 1) : i \in QueueSlots /\ i + 1 \in QueueSlots /\ At(q, i) # h
  <2> TAKE i \in 0..(q.len - 1)
  <2>1. i \in QueueSlots /\ i + 1 \in QueueSlots
    BY <1>0 DEF QueueSlots
  <2>2. At(q, i) = IF q.head + i < D THEN q.head + i ELSE q.head + i - D
    BY <1>0, <2>1, AtCell
  <2> QED
    BY <1>0, <2>1, <2>2 DEF QueueSlots
<1>5. n \in Queue
  BY <1>0, <1>1, <1>2 DEF Queue
<1>6. ASSUME NEW i \in QueueSlots
      PROVE  n.frames[i] # None <=> \E j \in 0..(n.len - 1) : At(n, j) = i
  <2>0. 0 \in QueueSlots /\ 0 \in 0..(n.len - 1)
    BY <1>0, <1>1 DEF QueueSlots
  <2>1. CASE i = h
    <3>1. n.frames[i] = f /\ f # None
      BY <2>1, <1>1, Constants
    <3> QED
      BY <3>1, <2>0, <2>1, <1>3
  <2>2. CASE i # h
    <3>1. n.frames[i] = q.frames[i]
      BY <2>2, <1>1
    <3>2. n.frames[i] # None <=> \E j \in 0..(q.len - 1) : At(q, j) = i
      BY <3>1 DEF QueueOK
    <3>3. ASSUME NEW j \in 0..(n.len - 1), At(n, j) = i
          PROVE  j - 1 \in 0..(q.len - 1) /\ At(q, j - 1) = i
      <4>1. j \in QueueSlots
        BY <1>0, <1>1 DEF QueueSlots
      <4> QED
        BY <4>1, <1>0, <1>1, <1>3, <2>2, <3>3
    <3>4. ASSUME NEW j \in 0..(q.len - 1), At(q, j) = i
          PROVE  j + 1 \in 0..(n.len - 1) /\ At(n, j + 1) = i
      BY <1>0, <1>1, <1>3, <1>4, <3>4
    <3> QED
      BY <3>2, <3>3, <3>4
  <2> QED
    BY <2>1, <2>2
<1>7. Contents(n)[1] = f
  <2>1. 0 \in QueueSlots /\ At(n, 0) = h
    BY <1>0, <1>3 DEF QueueSlots
  <2> QED
    BY <1>0, <1>1, <1>2, <2>1 DEF Contents
<1>8. ASSUME NEW i \in 1..q.len
      PROVE  Contents(n)[i + 1] = Contents(q)[i]
  <2>1. i - 1 \in 0..(q.len - 1) /\ i \in QueueSlots
    BY <1>0 DEF QueueSlots
  <2>2. At(n, i) = At(q, i - 1) /\ At(q, i - 1) # h
    BY <1>0, <2>1, <1>3, <1>4
  <2>3. Contents(n)[i + 1] = n.frames[At(n, i)] /\ Contents(q)[i] = q.frames[At(q, i - 1)]
    BY <1>0, <1>1 DEF Contents
  <2>4. At(n, i) \in QueueSlots
    BY <1>3, <2>1
  <2> QED
    BY <1>1, <2>2, <2>3, <2>4
<1> QED
  BY <1>1, <1>5, <1>6, <1>7, <1>8 DEF QueueOK

\* A lane with a frame has a first one.
LEMMA FirstOnLane ==
  ASSUME NEW q, QueueOK(q), NEW lane, OnLane(q, lane) # {}
  PROVE  LET i == First(q, lane)
         IN  /\ i \in 0..(q.len - 1) /\ Contents(q)[i + 1].lane = lane
             /\ \A j \in 1..i : Contents(q)[j].lane # lane
<1> DEFINE S == OnLane(q, lane)
           R == OpToRel(<, Nat)
<1>0. q.len \in Nat /\ S \subseteq 0..(q.len - 1)
  BY Constants DEF QueueOK, Queue, OnLane
<1>1. IsWellFoundedOn(R, Nat)
  BY NatLessThanWellFounded
<1>2. \A x, y \in Nat : y < x => <<y, x>> \in R
  BY DEF OpToRel
<1> HIDE DEF R
<1>3. PICK x \in S : \A y \in S : ~(<<y, x>> \in R)
  <2>1. S \subseteq Nat /\ S # {}
    BY <1>0
  <2> QED
    BY <1>1, <2>1, WFMin
<1>4. ASSUME NEW y \in S
      PROVE  x <= y
  <2>1. x \in Nat /\ y \in Nat
    BY <1>0
  <2>2. ~(y < x)
    BY <2>1, <1>2, <1>3
  <2> QED
    BY <2>1, <2>2
<1>5. First(q, lane) \in S /\ \A y \in S : First(q, lane) <= y
  BY <1>4 DEF First
<1>6. ASSUME NEW j \in 1..First(q, lane)
      PROVE  Contents(q)[j].lane # lane
  <2>1. j - 1 \in 0..(q.len - 1) /\ j - 1 \notin S /\ j \in 1..q.len
    BY <1>0, <1>5
  <2> QED
    BY <2>1 DEF OnLane, Contents
<1>7. Contents(q)[First(q, lane) + 1].lane = lane
  <2>1. First(q, lane) + 1 \in 1..q.len /\ (First(q, lane) + 1) - 1 = First(q, lane)
    BY <1>0, <1>5
  <2> QED
    BY <2>1, <1>5 DEF OnLane, Contents
<1> QED
  BY <1>0, <1>5, <1>6, <1>7

\* pop_front takes it out of the queue and leaves the others in their order.
LEMMA PopFrontKeeps ==
  ASSUME NEW q, QueueOK(q), NEW lane, OnLane(q, lane) # {}
  PROVE  LET n == PopFront(q, lane)
             i == First(q, lane)
         IN  /\ QueueOK(n) /\ n.len = q.len - 1
             /\ \A j \in 1..n.len : Contents(n)[j] = Contents(q)[IF j <= i THEN j ELSE j + 1]
<1> DEFINE D == PROOF_CARRIER_QUEUE_DEPTH
           n == PopFront(q, lane)
           i == First(q, lane)
           up(j) == IF j < i THEN j ELSE j + 1
           moved == [j \in 0..(q.len - 2) |-> q.frames[At(q, up(j))]]
<1>0. /\ D \in Nat \ {0} /\ q.head \in QueueSlots /\ q.len \in 1..D /\ q.len - 1 \in QueueSlots
      /\ i \in 0..(q.len - 1) /\ q.frames \in [QueueSlots -> Frame \cup {None}]
  BY SMTT(40), Constants, FirstOnLane DEF QueueOK, Queue, QueueSlots
<1>1. /\ n = [frames |-> [k \in QueueSlots |->
                            IF \E j \in 0..(q.len - 2) : At(q, j) = k
                            THEN moved[CHOOSE j \in 0..(q.len - 2) : At(q, j) = k]
                            ELSE IF k = At(q, q.len - 1) THEN None ELSE q.frames[k]],
              head |-> IF q.len = 1 THEN 0 ELSE q.head, len |-> q.len - 1]
      /\ 0 \in QueueSlots
  <2>1. DOMAIN q.frames = QueueSlots /\ DOMAIN moved = 0..(q.len - 2) /\ 0 \in QueueSlots
    BY <1>0 DEF QueueSlots
  <2> QED
    BY <2>1 DEF PopFront
<1> HIDE DEF n
<1>2. \A j \in 0..(q.len - 1) : j \in QueueSlots /\ At(q, j) \in QueueSlots
  <2>1. \A j \in 0..(q.len - 1) : j \in QueueSlots
    BY <1>0 DEF QueueSlots
  <2> QED
    BY <1>0, <2>1, AtCell
<1>3. \A j, l \in 0..(q.len - 1) : At(q, j) = At(q, l) => j = l
  BY <1>0, <1>2, AtCell
<1>4. \A j \in 0..(q.len - 2) : At(n, j) = At(q, j) /\ j \in 0..(q.len - 1) /\ up(j) \in 0..(q.len - 1)
  BY <1>0, <1>1 DEF At
<1>5. ASSUME NEW j \in 0..(q.len - 2)
      PROVE  n.frames[At(n, j)] = q.frames[At(q, up(j))]
  <2>1. (CHOOSE l \in 0..(q.len - 2) : At(q, l) = At(q, j)) = j
    BY <1>3, <1>4
  <2>2. n.frames[At(q, j)] = moved[j]
    BY <1>1, <1>2, <1>4, <2>1
  <2> QED
    BY <2>2, <1>4
<1>6. \A j \in 0..(q.len - 1) : q.frames[At(q, j)] \in Frame
  BY <1>0, <1>2 DEF QueueOK
<1>7. ASSUME NEW k \in QueueSlots
      PROVE  /\ n.frames[k] \in Frame \cup {None}
             /\ n.frames[k] # None <=> \E j \in 0..(n.len - 1) : At(n, j) = k
  <2>0. n.len - 1 = q.len - 2
    BY <1>0, <1>1
  <2>1. CASE \E j \in 0..(q.len - 2) : At(q, j) = k
    <3>1. PICK j \in 0..(q.len - 2) : At(q, j) = k
      BY <2>1
    <3>2. At(n, j) = k /\ n.frames[k] \in Frame
      BY <3>1, <1>4, <1>5, <1>6
    <3> QED
      BY <3>2, <2>0, Constants
  <2>2. CASE ~ \E j \in 0..(q.len - 2) : At(q, j) = k
    <3>1. ~ \E j \in 0..(n.len - 1) : At(n, j) = k
      BY <2>2, <2>0, <1>4
    <3>2. n.frames[k] = IF k = At(q, q.len - 1) THEN None ELSE q.frames[k]
      BY <1>1, <2>2
    <3>3. k # At(q, q.len - 1) => ~ \E j \in 0..(q.len - 1) : At(q, j) = k
      BY <2>2, <1>0
    <3>4. k # At(q, q.len - 1) => q.frames[k] = None
      BY <3>3 DEF QueueOK
    <3> QED
      BY <3>1, <3>2, <3>4
  <2> QED
    BY <2>1, <2>2
<1>8. QueueOK(n)
  <2>1. n.frames \in [QueueSlots -> Frame \cup {None}]
    <3>1. n.frames = [k \in QueueSlots |-> n.frames[k]]
      BY <1>1
    <3> QED
      BY <3>1, <1>7
  <2>2. n.head \in QueueSlots /\ n.len \in 0..D /\ n = [frames |-> n.frames, head |-> n.head, len |-> n.len]
    BY <1>0, <1>1
  <2> QED
    BY <2>1, <2>2, <1>7 DEF QueueOK, Queue
<1>9. ASSUME NEW j \in 1..n.len
      PROVE  Contents(n)[j] = Contents(q)[IF j <= i THEN j ELSE j + 1]
  <2>1. n.len = q.len - 1 /\ j - 1 \in 0..(q.len - 2)
    BY <1>0, <1>1
  <2>2. Contents(n)[j] = q.frames[At(q, up(j - 1))]
    BY <2>1, <1>5 DEF Contents
  <2>3. /\ (IF j <= i THEN j ELSE j + 1) \in 1..q.len
        /\ (IF j <= i THEN j ELSE j + 1) - 1 = up(j - 1)
    BY <2>1, <1>0
  <2> QED
    BY <2>2, <2>3 DEF Contents
<1>10. n.len = q.len - 1
  BY <1>1
<1> QED
  BY <1>8, <1>9, <1>10 DEF n

\* Two sequences one after the other, and three.
LEMMA TwoSeqs ==
  ASSUME NEW S, NEW a \in Seq(S), NEW b \in Seq(S)
  PROVE  /\ a \o b \in Seq(S) /\ Len(a \o b) = Len(a) + Len(b)
         /\ \A i \in 1..Len(a) : (a \o b)[i] = a[i]
         /\ \A i \in 1..Len(b) : (a \o b)[Len(a) + i] = b[i]
  OBVIOUS

\* Three sequences one behind the other.
LEMMA ThreeSeqs ==
  ASSUME NEW S, NEW a \in Seq(S), NEW b \in Seq(S), NEW c \in Seq(S)
  PROVE  LET s == a \o b \o c
         IN  /\ s \in Seq(S) /\ Len(s) = Len(a) + Len(b) + Len(c)
             /\ \A i \in 1..Len(a) : s[i] = a[i]
             /\ \A i \in 1..Len(b) : s[Len(a) + i] = b[i]
             /\ \A i \in 1..Len(c) : s[Len(a) + Len(b) + i] = c[i]
<1> DEFINE d == a \o b
<1>1. /\ Len(d) = Len(a) + Len(b)
      /\ \A i \in 1..Len(a) : d[i] = a[i]
      /\ \A i \in 1..Len(b) : d[Len(a) + i] = b[i]
  BY TwoSeqs
<1>2. d \in Seq(S)
  OBVIOUS
<1> HIDE DEF d
<1> DEFINE s == d \o c
<1>3. /\ s \in Seq(S) /\ Len(s) = Len(d) + Len(c)
      /\ \A i \in 1..Len(d) : s[i] = d[i]
      /\ \A i \in 1..Len(c) : s[Len(d) + i] = c[i]
  BY <1>2, TwoSeqs
<1> HIDE DEF s
<1>4. Len(a) \in Nat /\ Len(b) \in Nat /\ Len(c) \in Nat
  OBVIOUS
<1>5. Len(s) = Len(a) + Len(b) + Len(c) /\ \A i \in 1..Len(c) : s[Len(a) + Len(b) + i] = c[i]
  BY <1>1, <1>3, <1>4
<1>6. \A i \in 1..Len(a) : s[i] = a[i]
  BY <1>1, <1>3, <1>4
<1>7. \A i \in 1..Len(b) : s[Len(a) + i] = b[i]
  BY <1>1, <1>3, <1>4
<1> QED
  BY <1>3, <1>5, <1>6, <1>7 DEF s, d

Bytes == Seq(LineByte)
Optional == LineByte \cup {None}

\* What the M33 has not read, place by place.
LEMMA JoinedPlaces ==
  ASSUME NEW r \in Bytes, NEW g \in Optional, NEW w \in Bytes
  PROVE  LET s == Joined(r, g, w)
             n == Len(r) + IF g = None THEN 0 ELSE 1
         IN  /\ s \in Bytes /\ Len(s) = n + Len(w)
             /\ \A i \in 1..Len(r) : s[i] = r[i]
             /\ g # None => s[Len(r) + 1] = g
             /\ \A i \in 1..Len(w) : s[n + i] = w[i]
<1> DEFINE o == IF g = None THEN <<>> ELSE <<g>>
<1>1. /\ o \in Seq(LineByte) /\ Len(o) = IF g = None THEN 0 ELSE 1
      /\ g # None => o[1] = g
  BY DEF Optional
<1>2. r \in Seq(LineByte) /\ w \in Seq(LineByte)
  BY DEF Bytes
<1>3. Joined(r, g, w) = r \o o \o w
  BY DEF Joined
<1> HIDE DEF o
<1>4. LET s == Joined(r, g, w)
      IN  /\ s \in Seq(LineByte) /\ Len(s) = Len(r) + Len(o) + Len(w)
          /\ \A i \in 1..Len(r) : s[i] = r[i]
          /\ \A i \in 1..Len(o) : s[Len(r) + i] = o[i]
          /\ \A i \in 1..Len(w) : s[Len(r) + Len(o) + i] = w[i]
  <2>1. o \in Seq(LineByte)
    BY <1>1
  <2> QED
    BY <2>1, <1>2, <1>3, ThreeSeqs
<1> DEFINE s == Joined(r, g, w)
<1> HIDE DEF s
<1>5. g # None => s[Len(r) + 1] = g
  <2>1. g # None => 1 \in 1..Len(o)
    BY <1>1
  <2> QED
    BY <2>1, <1>1, <1>4 DEF s
<1>6. s \in Bytes /\ Len(s) = Len(r) + (IF g = None THEN 0 ELSE 1) + Len(w)
  BY <1>1, <1>4 DEF s, Bytes
<1>7. \A i \in 1..Len(w) : s[Len(r) + (IF g = None THEN 0 ELSE 1) + i] = w[i]
  BY <1>1, <1>4 DEF s
<1>8. \A i \in 1..Len(r) : s[i] = r[i]
  BY <1>4 DEF s
<1> QED
  BY <1>5, <1>6, <1>7, <1>8 DEF s

\* The same with the register empty, and with a byte in it.
LEMMA JoinedEmpty ==
  ASSUME NEW r \in Bytes, NEW w \in Bytes
  PROVE  LET s == Joined(r, None, w)
         IN  /\ s \in Bytes /\ Len(s) = Len(r) + Len(w)
             /\ \A i \in 1..Len(r) : s[i] = r[i]
             /\ \A i \in 1..Len(w) : s[Len(r) + i] = w[i]
<1> DEFINE s == Joined(r, None, w)
           k == Len(r) + IF None = None THEN 0 ELSE 1
<1>1. None \in Optional
  BY DEF Optional
<1>2. /\ s \in Bytes /\ Len(s) = k + Len(w)
      /\ \A i \in 1..Len(r) : s[i] = r[i]
      /\ \A i \in 1..Len(w) : s[k + i] = w[i]
  BY <1>1, JoinedPlaces
<1>3. k = Len(r)
  BY DEF Bytes
<1> HIDE DEF k
<1> QED
  BY <1>2, <1>3

\* What is unread, with a byte in the register.
LEMMA JoinedFull ==
  ASSUME NEW r \in Bytes, NEW g \in LineByte, NEW w \in Bytes
  PROVE  LET s == Joined(r, g, w)
             n == Len(r) + 1
         IN  /\ s \in Bytes /\ Len(s) = n + Len(w)
             /\ \A i \in 1..Len(r) : s[i] = r[i]
             /\ s[n] = g
             /\ \A i \in 1..Len(w) : s[n + i] = w[i]
<1> DEFINE s == Joined(r, g, w)
           k == Len(r) + IF g = None THEN 0 ELSE 1
<1>1. g \in Optional
  BY DEF Optional
<1>2. /\ s \in Bytes /\ Len(s) = k + Len(w)
      /\ \A i \in 1..Len(r) : s[i] = r[i]
      /\ g # None => s[Len(r) + 1] = g
      /\ \A i \in 1..Len(w) : s[k + i] = w[i]
  BY <1>1, JoinedPlaces
<1>3. g # None
  BY UartAssumption DEF LineByte
<1>4. k = Len(r) + 1
  BY <1>3
<1> HIDE DEF k
<1> QED
  BY <1>2, <1>3, <1>4

\* Sequence t is s with x behind it; s without its place x; s itself.
Grown(s, t, x) ==
  Len(t) = Len(s) + 1 /\ t[Len(t)] = x /\ \A i \in 1..Len(s) : t[i] = s[i]
Shrunk(s, t, x) ==
  x \in 1..Len(s) /\ Len(t) = Len(s) - 1 /\ \A i \in 1..Len(t) : t[i] = s[IF i < x THEN i ELSE i + 1]
Same(s, t) == Len(t) = Len(s) /\ \A i \in 1..Len(s) : t[i] = s[i]

\* Appending, and taking the head.
LEMMA AppendGrows ==
  ASSUME NEW w \in Bytes, NEW b \in LineByte
  PROVE  Append(w, b) \in Bytes /\ Grown(w, Append(w, b), b)
  BY DEF Grown, Bytes

\* The line without its first byte.
LEMMA TailShrinks ==
  ASSUME NEW w \in Bytes, w # <<>>
  PROVE  /\ Tail(w) \in Bytes /\ Shrunk(w, Tail(w), 1)
         /\ Head(w) = w[1] /\ Head(w) \in LineByte
  BY DEF Shrunk, Bytes

\* A byte is written.
LEMMA WriteGrows ==
  ASSUME NEW r \in Bytes, NEW g \in Optional, NEW w \in Bytes, NEW b \in LineByte
  PROVE  Grown(Joined(r, g, w), Joined(r, g, Append(w, b)), b)
<1> DEFINE v == Append(w, b)
           s == Joined(r, g, w)
           t == Joined(r, g, v)
           n == Len(r) + IF g = None THEN 0 ELSE 1
<1>0. v \in Bytes
  BY DEF Bytes
<1>1. Len(v) = Len(w) + 1 /\ v[Len(w) + 1] = b /\ \A i \in 1..Len(w) : v[i] = w[i]
  BY DEF Bytes
<1>2. Len(r) \in Nat /\ Len(w) \in Nat
  BY DEF Bytes
<1> HIDE DEF v
<1>3. /\ Len(s) = n + Len(w)
      /\ \A i \in 1..Len(r) : s[i] = r[i]
      /\ g # None => s[Len(r) + 1] = g
      /\ \A i \in 1..Len(w) : s[n + i] = w[i]
  BY JoinedPlaces
<1>4. /\ Len(t) = n + Len(v)
      /\ \A i \in 1..Len(r) : t[i] = r[i]
      /\ g # None => t[Len(r) + 1] = g
      /\ \A i \in 1..Len(v) : t[n + i] = v[i]
  BY <1>0, JoinedPlaces
<1> HIDE DEF s, t
<1>5. Len(t) = Len(s) + 1 /\ t[Len(t)] = b
  <2>1. n \in Nat /\ Len(v) \in 1..Len(v) /\ Len(t) = n + Len(v)
    BY <1>1, <1>2, <1>4
  <2>2. t[n + Len(v)] = v[Len(v)]
    BY <2>1, <1>4
  <2>3. v[Len(v)] = b
    BY <1>1
  <2> HIDE DEF n
  <2>4. Len(t) = Len(s) + 1
    BY <2>1, <1>1, <1>2, <1>3
  <2> QED
    BY <2>1, <2>2, <2>3, <2>4
<1>6. ASSUME NEW i \in 1..Len(s)
      PROVE  t[i] = s[i]
  <2>1. CASE i > n
    <3>1. i - n \in 1..Len(w) /\ n + (i - n) = i /\ i - n \in 1..Len(v)
      BY <2>1, <1>1, <1>2, <1>3
    <3> QED
      BY ZenonT(60), <3>1, <1>1, <1>3, <1>4
  <2>2. CASE i \in 1..Len(r)
    BY <2>2, <1>3, <1>4
  <2>3. CASE g # None /\ i = Len(r) + 1
    BY <2>3, <1>3, <1>4
  <2> QED
    BY <2>1, <2>2, <2>3, <1>2, <1>3
<1> QED
  BY <1>5, <1>6 DEF Grown, s, t, v

\* A byte reaches the register.
LEMMA ArriveKeeps ==
  ASSUME NEW r \in Bytes, NEW w \in Bytes, w # <<>>
  PROVE  Same(Joined(r, None, w), Joined(r, Head(w), Tail(w)))
<1> DEFINE v == Tail(w)
           g == Head(w)
           s == Joined(r, None, w)
           t == Joined(r, g, v)
           n == Len(r)
<1>0. v \in Bytes
  BY DEF Bytes
<1>1. /\ Len(v) = Len(w) - 1 /\ \A i \in 1..Len(v) : v[i] = w[i + 1]
      /\ g = w[1] /\ Len(w) > 0 /\ Len(w) \in Nat
  BY DEF Bytes
<1>2. n \in Nat
  BY DEF Bytes
<1>3. g \in LineByte
  BY DEF Bytes
<1> HIDE DEF v, g
<1>4. /\ Len(s) = n + Len(w)
      /\ \A i \in 1..n : s[i] = r[i]
      /\ \A i \in 1..Len(w) : s[n + i] = w[i]
  BY JoinedEmpty
<1>5. /\ Len(t) = n + 1 + Len(v)
      /\ \A i \in 1..n : t[i] = r[i]
      /\ t[n + 1] = g
      /\ \A i \in 1..Len(v) : t[n + 1 + i] = v[i]
  BY <1>0, <1>3, JoinedFull
<1> HIDE DEF s, t, n
<1>6. ASSUME NEW i \in 1..Len(s)
      PROVE  t[i] = s[i]
  <2>1. CASE i \in 1..n
    BY <2>1, <1>4, <1>5
  <2>2. CASE i = n + 1
    <3>1. 1 \in 1..Len(w)
      BY <1>1
    <3> QED
      BY <2>2, <3>1, <1>1, <1>4, <1>5
  <2>3. CASE i > n + 1
    <3>1. /\ i - n - 1 \in 1..Len(v) /\ n + 1 + (i - n - 1) = i
          /\ i - n \in 1..Len(w) /\ n + (i - n) = i /\ (i - n - 1) + 1 = i - n
      BY <2>3, <1>1, <1>2, <1>4
    <3> QED
      BY <3>1, <1>1, <1>4, <1>5
  <2> QED
    BY <2>1, <2>2, <2>3, <1>2, <1>4
<1> QED
  BY <1>1, <1>2, <1>4, <1>5, <1>6 DEF Same, s, t, v, g

\* A byte finds the register full.
LEMMA OverrunShrinks ==
  ASSUME NEW r \in Bytes, NEW g \in LineByte, NEW w \in Bytes, w # <<>>
  PROVE  /\ Shrunk(Joined(r, g, w), Joined(r, g, Tail(w)), Len(r) + 2)
         /\ Joined(r, g, w)[Len(r) + 2] = Head(w)
<1> DEFINE v == Tail(w)
           s == Joined(r, g, w)
           t == Joined(r, g, v)
           n == Len(r) + 1
<1>0. v \in Bytes
  BY DEF Bytes
<1>1. /\ Len(v) = Len(w) - 1 /\ \A i \in 1..Len(v) : v[i] = w[i + 1]
      /\ Head(w) = w[1] /\ Len(w) > 0 /\ Len(w) \in Nat
  BY DEF Bytes
<1>2. Len(r) \in Nat
  BY DEF Bytes
<1> HIDE DEF v
<1>3. /\ Len(s) = n + Len(w)
      /\ \A i \in 1..Len(r) : s[i] = r[i]
      /\ s[n] = g
      /\ \A i \in 1..Len(w) : s[n + i] = w[i]
  BY JoinedFull
<1>4. /\ Len(t) = n + Len(v)
      /\ \A i \in 1..Len(r) : t[i] = r[i]
      /\ t[n] = g
      /\ \A i \in 1..Len(v) : t[n + i] = v[i]
  BY <1>0, JoinedFull
<1> HIDE DEF s, t
<1>5. ASSUME NEW i \in 1..Len(t)
      PROVE  t[i] = s[IF i < n + 1 THEN i ELSE i + 1]
  <2>1. CASE i \in 1..Len(r)
    BY <2>1, <1>2, <1>3, <1>4
  <2>2. CASE i = n
    BY <2>2, <1>2, <1>3, <1>4
  <2>3. CASE i > n
    <3>1. /\ i - n \in 1..Len(v) /\ n + (i - n) = i
          /\ i - n + 1 \in 1..Len(w) /\ n + (i - n + 1) = i + 1
      BY <2>3, <1>1, <1>2, <1>4
    <3>2. t[i] = v[i - n] /\ v[i - n] = w[i - n + 1] /\ s[i + 1] = w[i - n + 1]
      BY SMTT(40), <3>1, <1>1, <1>3, <1>4
    <3> QED
      BY <2>3, <3>2, <1>2
  <2> QED
    BY <2>1, <2>2, <2>3, <1>2, <1>4
<1>6. n + 1 \in 1..Len(s) /\ Len(t) = Len(s) - 1 /\ s[n + 1] = Head(w)
  <2>1. 1 \in 1..Len(w)
    BY <1>1
  <2> QED
    BY <2>1, <1>1, <1>2, <1>3, <1>4
<1>7. n + 1 = Len(r) + 2
  BY <1>2
<1> QED
  BY <1>5, <1>6, <1>7 DEF Shrunk, s, t, v

\* The byte in the register is dropped, or read.
LEMMA RegisterShrinks ==
  ASSUME NEW r \in Bytes, NEW g \in LineByte, NEW w \in Bytes
  PROVE  /\ Shrunk(Joined(r, g, w), Joined(r, None, w), Len(r) + 1)
         /\ Joined(r, g, w)[Len(r) + 1] = g
<1> DEFINE s == Joined(r, g, w)
           t == Joined(r, None, w)
           n == Len(r) + 1
<1>1. Len(r) \in Nat /\ Len(w) \in Nat
  BY DEF Bytes
<1>2. /\ Len(s) = n + Len(w)
      /\ \A i \in 1..Len(r) : s[i] = r[i]
      /\ s[n] = g
      /\ \A i \in 1..Len(w) : s[n + i] = w[i]
  BY JoinedFull
<1>3. /\ Len(t) = Len(r) + Len(w)
      /\ \A i \in 1..Len(r) : t[i] = r[i]
      /\ \A i \in 1..Len(w) : t[Len(r) + i] = w[i]
  BY JoinedEmpty
<1> HIDE DEF s, t
<1>4. ASSUME NEW i \in 1..Len(t)
      PROVE  t[i] = s[IF i < n THEN i ELSE i + 1]
  <2>1. CASE i \in 1..Len(r)
    BY <2>1, <1>1, <1>2, <1>3
  <2>2. CASE i > Len(r)
    <3>1. /\ i - Len(r) \in 1..Len(w)
          /\ Len(r) + (i - Len(r)) = i /\ n + (i - Len(r)) = i + 1
      BY <2>2, <1>1, <1>3
    <3>2. t[i] = w[i - Len(r)] /\ s[i + 1] = w[i - Len(r)]
      BY <3>1, <1>2, <1>3
    <3> QED
      BY <3>2, <2>2, <1>1
  <2> QED
    BY <2>1, <2>2, <1>1
<1>5. n \in 1..Len(s) /\ Len(t) = Len(s) - 1
  BY <1>1, <1>2, <1>3
<1> QED
  BY <1>2, <1>4, <1>5 DEF Shrunk, s, t

\* The byte in the register moves to the ring.
LEMMA PumpKeeps ==
  ASSUME NEW r \in Bytes, NEW g \in LineByte, NEW w \in Bytes
  PROVE  Same(Joined(r, g, w), Joined(Append(r, g), None, w))
<1> DEFINE q == Append(r, g)
           s == Joined(r, g, w)
           t == Joined(q, None, w)
           n == Len(r) + 1
<1>0. q \in Bytes
  BY DEF Bytes
<1>1. /\ Len(r) \in Nat /\ Len(w) \in Nat
      /\ Len(q) = n /\ q[n] = g /\ \A i \in 1..Len(r) : q[i] = r[i]
  BY DEF Bytes
<1> HIDE DEF q
<1>2. /\ Len(s) = n + Len(w)
      /\ \A i \in 1..Len(r) : s[i] = r[i]
      /\ s[n] = g
      /\ \A i \in 1..Len(w) : s[n + i] = w[i]
  BY JoinedFull
<1>3. /\ Len(t) = Len(q) + Len(w)
      /\ \A i \in 1..Len(q) : t[i] = q[i]
      /\ \A i \in 1..Len(w) : t[Len(q) + i] = w[i]
  BY <1>0, JoinedEmpty
<1> HIDE DEF s, t
<1>4. ASSUME NEW i \in 1..Len(s)
      PROVE  t[i] = s[i]
  <2>1. CASE i \in 1..Len(r)
    BY <2>1, <1>1, <1>2, <1>3
  <2>2. CASE i = n
    BY <2>2, <1>1, <1>2, <1>3
  <2>3. CASE i > n
    <3>1. PICK j \in 1..Len(w) : i = n + j
      <4>1. i - n \in 1..Len(w) /\ i = n + (i - n)
        BY <2>3, <1>1, <1>2
      <4> QED
        BY <4>1
    <3>2. s[n + j] = w[j] /\ t[n + j] = w[j]
      BY <1>1, <1>2, <1>3
    <3> QED
      BY <3>1, <3>2
  <2> QED
    BY <2>1, <2>2, <2>3, <1>1
<1> QED
  BY <1>1, <1>2, <1>3, <1>4 DEF Same, s, t, q

\* The first byte of the ring is read.
LEMMA RingShrinks ==
  ASSUME NEW r \in Bytes, r # <<>>, NEW g \in Optional, NEW w \in Bytes
  PROVE  /\ Shrunk(Joined(r, g, w), Joined(Tail(r), g, w), 1)
         /\ Joined(r, g, w)[1] = Head(r)
<1> DEFINE q == Tail(r)
           s == Joined(r, g, w)
           t == Joined(q, g, w)
           n == IF g = None THEN 0 ELSE 1
<1>0. q \in Bytes
  BY DEF Bytes
<1>1. /\ Len(r) \in Nat /\ Len(w) \in Nat /\ Len(r) > 0
      /\ Len(q) = Len(r) - 1 /\ Head(r) = r[1] /\ \A i \in 1..Len(q) : q[i] = r[i + 1]
  BY DEF Bytes
<1> HIDE DEF q
<1>2. /\ Len(s) = Len(r) + n + Len(w)
      /\ \A i \in 1..Len(r) : s[i] = r[i]
      /\ g # None => s[Len(r) + 1] = g
      /\ \A i \in 1..Len(w) : s[Len(r) + n + i] = w[i]
  BY JoinedPlaces
<1>3. /\ Len(t) = Len(q) + n + Len(w)
      /\ \A i \in 1..Len(q) : t[i] = q[i]
      /\ g # None => t[Len(q) + 1] = g
      /\ \A i \in 1..Len(w) : t[Len(q) + n + i] = w[i]
  BY <1>0, JoinedPlaces
<1>4. n \in {0, 1} /\ (n = 1 => g # None)
  OBVIOUS
<1> HIDE DEF s, t, n
<1>5. ASSUME NEW i \in 1..Len(t)
      PROVE  t[i] = s[i + 1]
  <2>1. CASE i \in 1..Len(q)
    <3>1. i + 1 \in 1..Len(r)
      BY <2>1, <1>1
    <3> QED
      BY <2>1, <3>1, <1>1, <1>2, <1>3
  <2>2. CASE i = Len(q) + 1 /\ n = 1
    BY <2>2, <1>1, <1>2, <1>3, <1>4
  <2>3. CASE i > Len(q) + n
    <3>1. /\ i - (Len(q) + n) \in 1..Len(w) /\ Len(q) + n + (i - (Len(q) + n)) = i
          /\ Len(r) + n + (i - (Len(q) + n)) = i + 1
      BY <2>3, <1>1, <1>3, <1>4
    <3> QED
      BY <3>1, <1>2, <1>3
  <2> QED
    BY <2>1, <2>2, <2>3, <1>1, <1>4
<1>6. /\ 1 \in 1..Len(s) /\ Len(t) = Len(s) - 1 /\ s[1] = Head(r)
      /\ \A i \in 1..Len(t) : (IF i < 1 THEN i ELSE i + 1) = i + 1
  BY <1>1, <1>2, <1>3, <1>4
<1> QED
  BY <1>5, <1>6 DEF Shrunk, s, t, q

\* What is unread has its type.
LEMMA UnreadType ==
  ASSUME TypeOK, NEW m \in Machine
  PROVE  Unread(m) \in Bytes /\ parser[m].buf \in Bytes /\ ParserOK(parser[m])
<1>1. ring \in Bytes /\ wire["host"] \in Bytes /\ wire["m33"] \in Bytes
  BY DEF TypeOK, Bytes, Machine
<1>2. rdr \in Optional
  BY DEF TypeOK, Optional
<1>3. Joined(ring, rdr, wire["m33"]) \in Bytes
  BY <1>1, <1>2, JoinedPlaces
<1>4. Unread(m) \in Bytes
  BY <1>1, <1>3 DEF Unread, Machine
<1> QED
  BY <1>4 DEF TypeOK, ParserOK, Bytes

\* What the machine reads next is the first of it.
LEMMA ReadableFirst ==
  ASSUME TypeOK, BusyInv, NEW m \in Machine, Draining(m), Readable(m) # <<>>, TakeByte(m)
  PROVE  /\ Head(Readable(m)) = Unread(m)[1] /\ Head(Readable(m)) \in LineByte
         /\ Shrunk(Unread(m), Unread(m)', 1)
         /\ Unread(Other(m))' = Unread(Other(m))
         /\ Unread(m) # <<>>
<1>1. ring \in Bytes /\ wire["host"] \in Bytes /\ wire["m33"] \in Bytes /\ rdr \in Optional
  BY DEF TypeOK, Bytes, Machine, Optional
<1>2. CASE m = "host"
  <2>1. busy["host"].left \in Nat /\ busy["host"].left <= Len(wire["host"])
    BY <1>2 DEF TypeOK, BusyInv, Draining, Machine, Writes, Drains
  <2>2. Readable(m) = SubSeq(wire["host"], 1, busy["host"].left)
    BY <1>2 DEF Readable
  <2>3. wire["host"] # <<>> /\ Head(Readable(m)) = wire["host"][1]
    BY <1>1, <2>1, <2>2 DEF Bytes
  <2>4. /\ wire' = [wire EXCEPT !["host"] = Tail(@)] /\ UNCHANGED <<rdr, ring>>
        /\ wire \in [Machine -> Seq(LineByte)]
    BY <1>2 DEF TakeByte, TypeOK
  <2>5. wire'["host"] = Tail(wire["host"]) /\ wire'["m33"] = wire["m33"]
    BY <2>4 DEF Machine
  <2>6. Shrunk(wire["host"], Tail(wire["host"]), 1) /\ wire["host"][1] \in LineByte
    BY <1>1, <2>3, TailShrinks
  <2> QED
    BY <1>2, <2>3, <2>4, <2>5, <2>6 DEF Unread, Other
<1>3. CASE m = "m33" /\ ring # <<>>
  <2>1. Readable(m) = ring /\ ring' = Tail(ring) /\ UNCHANGED <<wire, rdr>>
    BY <1>3 DEF Readable, TakeByte
  <2>2. /\ Shrunk(Joined(ring, rdr, wire["m33"]), Joined(Tail(ring), rdr, wire["m33"]), 1)
        /\ Joined(ring, rdr, wire["m33"])[1] = Head(ring) /\ Head(ring) \in LineByte
    BY <1>1, <1>3, RingShrinks, TailShrinks
  <2> QED
    BY <1>3, <2>1, <2>2, <1>1 DEF Unread, Other, Shrunk
<1>4. CASE m = "m33" /\ ring = <<>>
  <2>1. rdr # None /\ Readable(m) = <<rdr>> /\ rdr' = None /\ UNCHANGED <<wire, ring>>
    BY <1>4 DEF Readable, TakeByte
  <2>2. rdr \in LineByte /\ Len(ring) + 1 = 1 /\ Head(Readable(m)) = rdr
    BY <1>1, <1>4, <2>1 DEF Optional
  <2>3. /\ Shrunk(Joined(ring, rdr, wire["m33"]), Joined(ring, None, wire["m33"]), 1)
        /\ Joined(ring, rdr, wire["m33"])[1] = rdr
    BY <1>1, <2>2, RegisterShrinks
  <2> QED
    BY <1>4, <2>1, <2>2, <2>3 DEF Unread, Other, Shrunk
<1> QED
  BY <1>2, <1>3, <1>4 DEF Machine

h == UART_CARRIER_HEADER_BYTES

NeedOK(a) == Len(a.buf) >= h /\ a.buf[h].k = h => a.need = TotalLen(LenOf(a.buf[h].id))

\* The length of a frame, this session's or the one before.
LEMMA LengthOf ==
  ASSUME TypeOK, NEW id \in Ids \cup {0}
  PROVE  /\ LenOf(id) \in PayloadLen \cup {StaleLen} /\ LenOf(id) \in Nat
         /\ TotalLen(LenOf(id)) \in Nat /\ TotalLen(LenOf(id)) > h
         /\ id # 0 => offered[id] \in Frame /\ LenOf(id) = offered[id].len
<1>1. CASE id = 0
  BY <1>1, Constants DEF LenOf, StaleLen, TotalLen, h
<1>2. CASE id # 0
  <2>1. offered[id] \in Frame /\ id \in Ids
    BY <1>2 DEF TypeOK, Ids
  <2>2. LenOf(id) = offered[id].len /\ offered[id].len \in PayloadLen
    BY <2>1, <1>2 DEF LenOf, Frame
  <2>3. LenOf(id) \in Nat
    BY <2>2, Constants, Zenon
  <2> QED
    BY <2>1, <2>2, <2>3, <1>2, Constants DEF TotalLen, h
<1> QED
  BY <1>1, <1>2

\* What the parser does with a byte: it starts again, keeps the byte, or has
\* as many bytes as the header said, of one frame or not.
Restarts(a, b, res) ==
  /\ res.id = None /\ res.parser = EmptyParser
  /\ \/ Len(a.buf) < MAGIC_LEN /\ b.k # Len(a.buf) + 1
     \/ a.need = 0 /\ Len(a.buf) + 1 = h /\ b.k # h
     \/ a.need = Len(a.buf) + 1 /\ ~Intact(Append(a.buf, b))

Keeps(a, b, res, n) ==
  /\ res.id = None /\ res.parser = [buf |-> Append(a.buf, b), need |-> n]
  /\ Len(a.buf) < MAGIC_LEN => b.k = Len(a.buf) + 1 \/ b.id # 0
  /\ \/ n = 0 /\ a.need = 0 /\ Len(a.buf) + 1 < h
     \/ /\ a.need = 0 /\ Len(a.buf) + 1 = h
        /\ n \in {TotalLen(l) : l \in PayloadLen \cup {StaleLen}} /\ n > h
        /\ b.k = h => n = TotalLen(LenOf(b.id))
     \/ n = a.need /\ a.need # 0 /\ Len(a.buf) + 1 < a.need

Completes(a, b, res) ==
  /\ res.parser = EmptyParser /\ a.need = Len(a.buf) + 1
  /\ Intact(Append(a.buf, b)) /\ res.id = Append(a.buf, b)[h].id

MakesUp(a, b, res) ==
  /\ res.parser = EmptyParser /\ a.need = Len(a.buf) + 1
  /\ ~Intact(Append(a.buf, b)) /\ res.id = NextId

\* A push starts again, keeps the byte, completes a frame or makes one up.
LEMMA PushCases ==
  ASSUME TypeOK, NEW a, ParserOK(a), NEW b \in LineByte, b.id \in Ids \cup {0},
         NEW res \in ParserPush(a, b)
  PROVE  \/ Restarts(a, b, res) \/ (\E n \in Nat : Keeps(a, b, res, n))
         \/ Completes(a, b, res) \/ MakesUp(a, b, res)
<1> DEFINE buf == Append(a.buf, b)
           place == Len(buf)
           result(p, id) == [parser |-> p, id |-> id]
           lens == IF a.need # 0 THEN {a.need - TotalLen(0)}
                   ELSE IF b.k = h THEN {LenOf(b.id)} ELSE PayloadLen
           again == \/ place <= MAGIC_LEN /\ b.k # place
                    \/ place = h /\ b.k # h
           out(l) == IF place < TotalLen(l) THEN {result([buf |-> buf, need |-> TotalLen(l)], None)}
                     ELSE {result(EmptyParser, id) : id \in Verdict(buf)}
<1>1. /\ a.buf \in Seq(LineByte) /\ a.need \in Nat /\ Len(a.buf) \in Nat
      /\ place = Len(a.buf) + 1
      /\ a.need = 0 => Len(a.buf) < h
      /\ a.need # 0 => h <= Len(a.buf) /\ Len(a.buf) < a.need
  BY Constants DEF ParserOK, h
<1>2. h \in Nat /\ MAGIC_LEN \in Nat /\ MAGIC_LEN < h /\ PayloadLen \subseteq Nat /\ LenOf(b.id) \in Nat
  BY Constants, LengthOf DEF h
<1>3. \/ again /\ res = result(EmptyParser, None)
      \/ /\ ~(place <= MAGIC_LEN /\ ~Matches(b, place))
         /\ place < h /\ res = result([buf |-> buf, need |-> 0], None)
      \/ ~(place < h) /\ \E l \in lens : res \in out(l)
  BY Zenon DEF ParserPush, h
<1>4. Len(a.buf) < MAGIC_LEN => place <= MAGIC_LEN
  BY <1>1, <1>2
<1>5. CASE again /\ res = result(EmptyParser, None)
  <2>1. res.id = None /\ res.parser = EmptyParser
    BY <1>5
  <2>2. \/ Len(a.buf) < MAGIC_LEN /\ b.k # Len(a.buf) + 1
        \/ a.need = 0 /\ Len(a.buf) + 1 = h /\ b.k # h
    BY <1>1, <1>2, <1>5
  <2> QED
    BY <2>1, <2>2 DEF Restarts
<1>6. CASE /\ ~(place <= MAGIC_LEN /\ ~Matches(b, place))
           /\ place < h /\ res = result([buf |-> buf, need |-> 0], None)
  <2>1. a.need = 0 /\ Len(a.buf) + 1 < h
    BY <1>1, <1>2, <1>6
  <2>2. res.id = None /\ res.parser = [buf |-> buf, need |-> 0]
    BY <1>6
  <2>3. Len(a.buf) < MAGIC_LEN => b.k = Len(a.buf) + 1 \/ b.id # 0
    BY <1>1, <1>4, <1>6 DEF Matches
  <2> HIDE DEF buf, place
  <2>4. Keeps(a, b, res, 0)
    BY <2>1, <2>2, <2>3 DEF Keeps, buf
  <2> QED
    BY <2>4
<1>7. CASE ~(place < h) /\ \E l \in lens : res \in out(l)
  <2>1. PICK l \in lens : res \in out(l)
    BY <1>7
  <2>2. ~(Len(a.buf) < MAGIC_LEN)
    BY <1>1, <1>2, <1>7
  <2>3. CASE a.need = 0
    <3>1. Len(a.buf) + 1 = h
      BY <2>3, <1>1, <1>2, <1>7
    <3>2. l \in IF b.k = h THEN {LenOf(b.id)} ELSE PayloadLen
      BY <2>3
    <3>3. LenOf(b.id) \in PayloadLen \cup {StaleLen}
      BY LengthOf
    <3>4. l \in PayloadLen \cup {StaleLen} /\ (b.k = h => l = LenOf(b.id))
      BY <3>2, <3>3
    <3>5. l \in Nat
      <4>1. CASE l \in PayloadLen
        BY <4>1, <1>2, Zenon
      <4>2. CASE l = StaleLen
        BY <4>2 DEF StaleLen
      <4> QED
        BY <3>4, <4>1, <4>2
    <3>6. place < TotalLen(l) /\ TotalLen(l) > h /\ TotalLen(l) \in Nat
      BY <3>1, <3>5, <1>1, <1>2 DEF TotalLen, h
    <3>7. res = result([buf |-> buf, need |-> TotalLen(l)], None)
      BY <2>1, <3>6
    <3>8. res.id = None /\ res.parser = [buf |-> buf, need |-> TotalLen(l)]
      BY <3>7
    <3>9. b.k = h => TotalLen(l) = TotalLen(LenOf(b.id))
      BY <3>4
    <3>10. TotalLen(l) \in {TotalLen(x) : x \in PayloadLen \cup {StaleLen}}
      BY <3>4
    <3> HIDE DEF buf, place, result, out, lens, again
    <3>11. Keeps(a, b, res, TotalLen(l))
      BY <2>2, <2>3, <3>1, <3>6, <3>8, <3>9, <3>10 DEF Keeps, buf
    <3> QED
      BY <3>6, <3>11
  <2>4. CASE a.need # 0
    <3>1. l = a.need - TotalLen(0)
      BY <2>4
    <3>2. TotalLen(l) = a.need
      BY <3>1, <1>1, <1>2 DEF TotalLen, h
    <3>3. CASE place < a.need
      <4>1. res = result([buf |-> buf, need |-> a.need], None)
        BY <2>1, <3>2, <3>3
      <4>2. res.id = None /\ res.parser = [buf |-> buf, need |-> a.need]
        BY <4>1
      <4>3. Keeps(a, b, res, a.need)
        BY <2>2, <4>2, <3>3, <2>4, <1>1 DEF Keeps
      <4> QED
        BY <4>3, <1>1
    <3>4. CASE ~(place < a.need)
      <4>1. PICK id \in Verdict(buf) : res = result(EmptyParser, id)
        BY <2>1, <3>2, <3>4
      <4>2. a.need = Len(a.buf) + 1
        BY <3>4, <2>4, <1>1
      <4>3. res.parser = EmptyParser /\ res.id \in Verdict(buf)
        BY <4>1
      <4> HIDE DEF place, result, out, lens, again
      <4>4. CASE Intact(buf)
        BY <4>2, <4>3, <4>4 DEF Completes, Verdict, h
      <4>5. CASE ~Intact(buf)
        BY <4>2, <4>3, <4>5 DEF Restarts, MakesUp, Verdict
      <4> QED
        BY <4>4, <4>5
    <3> QED
      BY <3>3, <3>4
  <2> QED
    BY <2>3, <2>4
<1> QED
  BY <1>3, <1>5, <1>6, <1>7

\* Append, place by place.
LEMMA Appended ==
  ASSUME NEW s \in Bytes, NEW b \in LineByte
  PROVE  /\ Append(s, b) \in Bytes /\ Len(Append(s, b)) = Len(s) + 1 /\ Len(s) \in Nat
         /\ Append(s, b)[Len(s) + 1] = b
         /\ \A i \in 1..Len(s) : Append(s, b)[i] = s[i]
         /\ BytesOf(Append(s, b)) = BytesOf(s) \cup {b}
<1>1. /\ Append(s, b) \in Bytes /\ Len(Append(s, b)) = Len(s) + 1 /\ Len(s) \in Nat
      /\ Append(s, b)[Len(s) + 1] = b
      /\ \A i \in 1..Len(s) : Append(s, b)[i] = s[i]
  BY DEF Bytes
<1> DEFINE t == Append(s, b)
<1> HIDE DEF t
<1>2. /\ Len(t) = Len(s) + 1 /\ Len(s) \in Nat /\ t[Len(s) + 1] = b
      /\ \A i \in 1..Len(s) : t[i] = s[i]
  BY <1>1 DEF t
<1>3. BytesOf(t) \subseteq BytesOf(s) \cup {b}
  <2> SUFFICES ASSUME NEW i \in 1..Len(t)
               PROVE  t[i] \in BytesOf(s) \cup {b}
    BY DEF BytesOf
  <2>1. i \in 1..Len(s) \/ i = Len(s) + 1
    BY <1>2
  <2> QED
    BY <2>1, <1>2 DEF BytesOf
<1>4. BytesOf(s) \subseteq BytesOf(t)
  <2> SUFFICES ASSUME NEW i \in 1..Len(s)
               PROVE  s[i] \in BytesOf(t)
    BY DEF BytesOf
  <2>1. i \in 1..Len(t) /\ t[i] = s[i]
    BY <1>2
  <2> QED
    BY <2>1 DEF BytesOf
<1>5. b \in BytesOf(t)
  <2>1. Len(s) + 1 \in 1..Len(t)
    BY <1>2
  <2> QED
    BY <2>1, <1>2 DEF BytesOf
<1>6. BytesOf(t) = BytesOf(s) \cup {b}
  BY <1>3, <1>4, <1>5
<1> QED
  BY <1>1, <1>6 DEF t

\* The parser after a byte: it is well formed, keeps only bytes it was given,
\* and goes by the length of the header.
LEMMA PushKeepsParser ==
  ASSUME TypeOK, NEW a, ParserOK(a), NEW b \in LineByte, b.id \in Ids \cup {0},
         NEW res \in ParserPush(a, b)
  PROVE  /\ ParserOK(res.parser) /\ BytesOf(res.parser.buf) \subseteq BytesOf(a.buf) \cup {b}
         /\ NeedOK(a) => NeedOK(res.parser)
<1>0. h \in Nat /\ h > 1
  BY Constants DEF h
<1>1. /\ a.buf \in Bytes /\ a.need \in Nat /\ Len(a.buf) \in Nat
      /\ a.need = 0 => Len(a.buf) < h
      /\ a.need # 0 => /\ h <= Len(a.buf) /\ Len(a.buf) < a.need
                       /\ a.need \in {TotalLen(l) : l \in PayloadLen \cup {StaleLen}}
  BY <1>0 DEF ParserOK, h, Bytes
<1>2. CASE res.parser = EmptyParser
  <2>1. /\ res.parser.buf = <<>> /\ res.parser.need = 0
        /\ res.parser = [buf |-> res.parser.buf, need |-> res.parser.need]
    BY <1>2 DEF EmptyParser
  <2>2. Len(res.parser.buf) = 0 /\ BytesOf(res.parser.buf) = {} /\ res.parser.buf \in Seq(LineByte)
    BY <2>1 DEF BytesOf
  <2>3. ~(Len(res.parser.buf) >= h) /\ Len(res.parser.buf) < h
    BY <2>2, <1>0
  <2>4. NeedOK(res.parser)
    BY <2>3 DEF NeedOK
  <2>5. res.parser \in [buf : Seq(LineByte), need : Nat]
    <3>1. <<>> \in Seq(LineByte) /\ 0 \in Nat
      OBVIOUS
    <3>2. res.parser = [buf |-> <<>>, need |-> 0]
      BY <1>2 DEF EmptyParser
    <3> QED
      BY <3>1, <3>2
  <2>6. ParserOK(res.parser)
    BY <2>1, <2>3, <2>5 DEF ParserOK, h
  <2> QED
    BY <2>2, <2>4, <2>6
<1>3. CASE \E n \in Nat : Keeps(a, b, res, n)
  <2>1. PICK n \in Nat : Keeps(a, b, res, n)
    BY <1>3
  <2> DEFINE buf == Append(a.buf, b)
  <2>2. res.parser = [buf |-> buf, need |-> n]
    BY <2>1 DEF Keeps
  <2>3. /\ buf \in Bytes /\ Len(buf) = Len(a.buf) + 1 /\ buf[Len(a.buf) + 1] = b
        /\ \A i \in 1..Len(a.buf) : buf[i] = a.buf[i]
        /\ BytesOf(buf) = BytesOf(a.buf) \cup {b}
    BY <1>1, Appended
  <2>4. /\ \/ n = 0 /\ a.need = 0 /\ Len(a.buf) + 1 < h
           \/ /\ a.need = 0 /\ Len(a.buf) + 1 = h
              /\ n \in {TotalLen(l) : l \in PayloadLen \cup {StaleLen}} /\ n > h
              /\ b.k = h => n = TotalLen(LenOf(b.id))
           \/ n = a.need /\ a.need # 0 /\ Len(a.buf) + 1 < a.need
    BY <2>1 DEF Keeps
  <2> HIDE DEF buf
  <2>5. res.parser.buf = buf /\ res.parser.need = n
    BY <2>2
  <2>6. ParserOK(res.parser)
    <3>1. res.parser \in [buf : Seq(LineByte), need : Nat]
      BY <2>2, <2>3 DEF Bytes
    <3>2. n = 0 => Len(buf) < h
      BY <2>3, <2>4, <1>0, <1>1
    <3>3. n # 0 => /\ Len(buf) \in h..(n - 1)
                   /\ n \in {TotalLen(l) : l \in PayloadLen \cup {StaleLen}}
      BY <2>3, <2>4, <1>0, <1>1
    <3> QED
      BY <3>1, <3>2, <3>3, <2>5 DEF ParserOK, h
  <2>7. ASSUME NeedOK(a), Len(buf) >= h, buf[h].k = h
        PROVE  n = TotalLen(LenOf(buf[h].id))
    <3>1. CASE Len(buf) = h
      <4>1. buf[h] = b /\ Len(a.buf) + 1 = h
        BY <3>1, <2>3, <1>0, <1>1
      <4>2. a.need = 0
        BY <4>1, <1>0, <1>1
      <4> QED
        BY <4>1, <4>2, <2>4, <2>7
    <3>2. CASE Len(buf) # h
      <4>1. h \in 1..Len(a.buf) /\ buf[h] = a.buf[h] /\ Len(a.buf) >= h
        BY <3>2, <2>3, <2>7, <1>0, <1>1
      <4>2. a.need = TotalLen(LenOf(buf[h].id))
        BY <4>1, <2>7 DEF NeedOK
      <4>3. n = a.need
        BY <4>1, <2>4, <1>0, <1>1
      <4> QED
        BY <4>2, <4>3
    <3> QED
      BY <3>1, <3>2
  <2> QED
    BY <2>3, <2>5, <2>6, <2>7 DEF NeedOK
<1> QED
  BY <1>2, <1>3, PushCases DEF Restarts, Completes, MakesUp

\* A frame is complete only with its last byte, and with all its others but
\* those of MAGIC kept.
LEMMA CompletesWhole ==
  ASSUME TypeOK, NEW a, ParserOK(a), NeedOK(a), NEW b \in LineByte, b.id \in Ids \cup {0},
         \A c \in BytesOf(a.buf) : c.id \in Ids \cup {0},
         NEW res \in ParserPush(a, b), res.id # None, res.id # NextId
  PROVE  /\ res.id \in Ids \cup {0} /\ res.parser = EmptyParser
         /\ b = Byte(res.id, TotalLen(LenOf(res.id)))
         /\ \A k \in (MAGIC_LEN + 1)..TotalLen(LenOf(res.id)) :
              k # TotalLen(LenOf(res.id)) => Byte(res.id, k) \in BytesOf(a.buf)
<1> DEFINE buf == Append(a.buf, b)
           id == res.id
<1>0. h \in Nat /\ MAGIC_LEN \in Nat /\ MAGIC_LEN < h /\ h > 1
  BY Constants DEF h
<1>1. Completes(a, b, res)
  BY PushCases DEF Restarts, Keeps, MakesUp
<1>2. /\ res.parser = EmptyParser /\ a.need = Len(a.buf) + 1
      /\ \A k \in (MAGIC_LEN + 1)..Len(buf) : buf[k] = Byte(buf[h].id, k)
      /\ id = buf[h].id
  BY <1>1 DEF Completes, Intact, h
<1>3. a.buf \in Bytes
  BY DEF ParserOK, Bytes
<1>4. /\ Len(buf) = Len(a.buf) + 1 /\ buf[Len(a.buf) + 1] = b /\ Len(a.buf) \in Nat
      /\ \A i \in 1..Len(a.buf) : buf[i] = a.buf[i]
  BY <1>3, Appended
<1>5. h <= Len(a.buf)
  BY <1>2, <1>4 DEF ParserOK, h
<1> HIDE DEF buf, id
<1>6. a.buf[h] = Byte(id, h) /\ h \in 1..Len(a.buf)
  <2>1. h \in (MAGIC_LEN + 1)..Len(buf) /\ h \in 1..Len(a.buf)
    BY <1>0, <1>4, <1>5
  <2> QED
    BY <2>1, <1>2, <1>4
<1>7. a.buf[h].k = h /\ a.buf[h].id = id
  BY <1>6 DEF Byte
<1>8. a.need = TotalLen(LenOf(id))
  BY <1>5, <1>7 DEF NeedOK
<1>9. id \in Ids \cup {0}
  BY <1>6, <1>7 DEF BytesOf
<1>10. b = Byte(id, TotalLen(LenOf(id)))
  <2>1. Len(a.buf) + 1 \in (MAGIC_LEN + 1)..Len(buf)
    BY <1>0, <1>4, <1>5
  <2> QED
    BY <2>1, <1>2, <1>4, <1>8
<1>11. ASSUME NEW k \in (MAGIC_LEN + 1)..TotalLen(LenOf(id)), k # TotalLen(LenOf(id))
       PROVE  Byte(id, k) \in BytesOf(a.buf)
  <2>1. k \in 1..Len(a.buf) /\ k \in (MAGIC_LEN + 1)..Len(buf)
    BY <1>0, <1>2, <1>4, <1>8, <1>11
  <2>2. a.buf[k] = Byte(id, k)
    BY <2>1, <1>2, <1>4
  <2> QED
    BY <2>1, <2>2 DEF BytesOf
<1> QED
  BY <1>2, <1>9, <1>10, <1>11 DEF id

-----------------------------------------------------------------------------
(* The bytes of the line. *)

Sorted(s) == \A i, j \in 1..Len(s) : i < j => Before(s[i], s[j])

\* Equal in every place.
LEMMA SameIsEqual ==
  ASSUME NEW s \in Bytes, NEW t \in Bytes, Same(s, t)
  PROVE  t = s
  BY DEF Same, Bytes

\* One byte gone: the others are those there were, in their order, and each
\* stood before or behind the one that is gone.
LEMMA ShrunkKeeps ==
  ASSUME NEW s \in Bytes, NEW t \in Bytes, NEW x, Shrunk(s, t, x)
  PROVE  /\ BytesOf(t) \subseteq BytesOf(s) /\ s[x] \in BytesOf(s)
         /\ Sorted(s) => /\ Sorted(t)
                         /\ \A c \in BytesOf(t) : Before(c, s[x]) \/ Before(s[x], c)
                         /\ x = 1 => \A c \in BytesOf(t) : Before(s[1], c)
<1> DEFINE up(i) == IF i < x THEN i ELSE i + 1
<1>1. /\ Len(s) \in Nat /\ Len(t) \in Nat /\ x \in 1..Len(s) /\ Len(t) = Len(s) - 1
      /\ \A i \in 1..Len(t) : t[i] = s[up(i)]
  BY DEF Shrunk, Bytes
<1>2. \A i \in 1..Len(t) : up(i) \in 1..Len(s) /\ (up(i) < x \/ x < up(i))
  BY <1>1
<1>3. \A i, j \in 1..Len(t) : i < j => up(i) < up(j)
  BY <1>1
<1>4. x = 1 => \A i \in 1..Len(t) : 1 < up(i) /\ 1 \in 1..Len(s)
  BY <1>1
<1> HIDE DEF up
<1>5. BytesOf(t) \subseteq BytesOf(s) /\ s[x] \in BytesOf(s)
  BY <1>1, <1>2 DEF BytesOf
<1>6. ASSUME Sorted(s)
      PROVE  Sorted(t)
  BY <1>1, <1>2, <1>3, <1>6 DEF Sorted
<1>7. ASSUME Sorted(s), NEW c \in BytesOf(t)
      PROVE  /\ Before(c, s[x]) \/ Before(s[x], c)
             /\ x = 1 => Before(s[1], c)
  <2>1. PICK i \in 1..Len(t) : c = t[i]
    BY DEF BytesOf
  <2> QED
    BY <2>1, <1>1, <1>2, <1>4, <1>7 DEF Sorted
<1> QED
  BY <1>5, <1>6, <1>7

\* One byte more, behind all the others.
LEMMA GrownKeeps ==
  ASSUME NEW s \in Bytes, NEW t \in Bytes, NEW b, Grown(s, t, b)
  PROVE  /\ BytesOf(t) = BytesOf(s) \cup {b}
         /\ Sorted(s) /\ (\A c \in BytesOf(s) : Before(c, b)) => Sorted(t)
<1>1. /\ Len(s) \in Nat /\ Len(t) = Len(s) + 1 /\ t[Len(t)] = b
      /\ \A i \in 1..Len(s) : t[i] = s[i] /\ i \in 1..Len(t)
      /\ Len(t) \in 1..Len(t)
      /\ \A i \in 1..Len(t) : i \in 1..Len(s) \/ i = Len(t)
  BY DEF Grown, Bytes
<1>2. BytesOf(t) = BytesOf(s) \cup {b}
  <2>1. BytesOf(t) \subseteq BytesOf(s) \cup {b}
    BY <1>1 DEF BytesOf
  <2>2. BytesOf(s) \cup {b} \subseteq BytesOf(t)
    BY <1>1 DEF BytesOf
  <2> QED
    BY <2>1, <2>2
<1>3. ASSUME Sorted(s), \A c \in BytesOf(s) : Before(c, b), NEW i \in 1..Len(t), NEW j \in 1..Len(t), i < j
      PROVE  Before(t[i], t[j])
  <2>1. i \in 1..Len(s)
    BY <1>1, <1>3
  <2>2. t[i] = s[i] /\ s[i] \in BytesOf(s)
    BY <2>1, <1>1 DEF BytesOf
  <2>3. CASE j \in 1..Len(s)
    BY <2>1, <2>2, <2>3, <1>1, <1>3 DEF Sorted
  <2>4. CASE j = Len(t)
    BY <2>2, <2>4, <1>1, <1>3
  <2> QED
    BY <2>3, <2>4, <1>1
<1> QED
  BY <1>2, <1>3 DEF Sorted

\* The bytes there are, and those of the frames of this session.
LEMMA LineTypes ==
  ASSUME FramesInv, NEW m \in Machine, NEW b \in OnLine(m)
  PROVE  /\ b \in LineByte /\ SentTo(m, b) /\ b.id \in Ids \cup {0} /\ b.k \in Nat
         /\ b.id # 0 => b.id \in Ids /\ offered[b.id] \in Frame
<1>1. Unread(m) \in Bytes /\ parser[m].buf \in Bytes
  BY UnreadType DEF FramesInv
<1>2. b \in LineByte
  BY <1>1 DEF OnLine, BytesOf, Bytes
<1>3. SentTo(m, b)
  BY DEF FramesInv, SentInv
<1>4. b.id # 0 => b.id \in Ids /\ offered[b.id] \in Frame
  BY <1>3 DEF SentTo, FramesInv, TypeOK, Ids
<1> QED
  BY <1>2, <1>3, <1>4 DEF LineByte

-----------------------------------------------------------------------------
(* What a step of the line keeps. *)

\* The frames that were offered stay what they are.
OfferedKept == site' = site /\ \A id \in Ids : id \in Ids' /\ offered'[id] = offered[id]

\* A frame to be sent is one that was, its writer going on, or it is new.
WritersGoOn ==
  \A p \in Port : outgoing'[p] # None =>
    \/ outgoing'[p].id \notin Ids
    \/ /\ outgoing'[p] = outgoing[p]
       /\ \A m \in Machine : Writing(m) /\ busy[m].port = p =>
            Writing(m)' /\ busy'[m].port = p /\ busy[m].next <= busy'[m].next

\* A byte whose turn had come is still one.
LEMMA SentKept ==
  ASSUME FramesInv, OfferedKept, WritersGoOn, NEW m \in Machine, NEW b \in LineByte, SentTo(m, b),
         busy' \in [Machine -> Writes' \cup Drains' \cup {None}]
  PROVE  SentTo(m, b)'
<1> USE DEF Misread, Nobody, PROOF_CARRIER_ROLES
<1> SUFFICES ASSUME b.id # 0
             PROVE  SentTo(m, b)'
  BY DEF SentTo
<1>1. /\ site.kind = "uart" /\ b.id \in Ids /\ ~Misread(b.id)
      /\ HostOf(offered[b.id].from) = Other(m) /\ HostOf(offered[b.id].to) = m
      /\ b.k \in 1..TotalLen(offered[b.id].len)
  BY DEF SentTo
<1>2. b.id \in Ids' /\ offered'[b.id] = offered[b.id] /\ site' = site
  BY <1>1 DEF OfferedKept
<1>3. /\ site'.kind = "uart" /\ HostOf(offered[b.id].from)' = Other(m) /\ HostOf(offered[b.id].to)' = m
      /\ b.k \in 1..TotalLen(offered'[b.id].len)
  BY <1>1, <1>2 DEF HostOf
<1>4. ASSUME NEW p \in Port, outgoing'[p] # None, outgoing'[p].id = b.id
      PROVE  Writing(Other(m))' /\ busy'[Other(m)].port = p /\ b.k < busy'[Other(m)].next
  <2>1. outgoing'[p] = outgoing[p]
    BY <1>1, <1>4 DEF WritersGoOn
  <2>2. Writing(Other(m)) /\ busy[Other(m)].port = p /\ b.k < busy[Other(m)].next
    BY <1>4, <2>1 DEF SentTo
  <2>3. Other(m) \in Machine
    BY DEF Machine, Other
  <2>4. Writing(Other(m))' /\ busy'[Other(m)].port = p /\ busy[Other(m)].next <= busy'[Other(m)].next
    BY <1>1, <1>4, <2>2, <2>3 DEF WritersGoOn
  <2>5. busy[Other(m)].next \in Nat
    BY <2>2, <2>3 DEF FramesInv, TypeOK, Writing, Writes, Drains
  <2>6. busy'[Other(m)].next \in Nat
    BY <2>3, <2>4 DEF Writing, Writes, Drains
  <2>7. b.k \in Nat
    BY DEF LineByte
  <2> QED
    BY <2>2, <2>4, <2>5, <2>6, <2>7
<1>5. Port' = Port
  BY <1>2 DEF Port
<1> QED
  BY <1>2, <1>3, <1>4, <1>5 DEF SentTo, HostOf

\* The bytes after a step: those that were there, with the writer's next, and
\* lost bytes that are not among them.
LEMMA LineStep ==
  ASSUME FramesInv, OfferedKept, WritersGoOn, TypeOK',
         \A m \in Machine : \A b \in OnLine(m)' :
           b \in OnLine(m) \/ (b \in LineByte /\ SentTo(m, b)'),
         \A b \in torn' : \/ b \in torn
                          \/ \E m \in Machine : b \in OnLine(m)
                          \/ \E m \in Machine : SentTo(m, b)',
         \A m \in Machine : \A b \in OnLine(m)' : b.id # 0 /\ b \in torn' => b \in OnLine(m) /\ b \in torn
  PROVE  SentInv' /\ LostInv'
<1>0. busy' \in [Machine -> Writes' \cup Drains' \cup {None}]
  BY DEF TypeOK
<1>1. ASSUME NEW m \in Machine, NEW b \in OnLine(m)'
      PROVE  SentTo(m, b)'
  <2>1. CASE b \in OnLine(m)
    <3>1. b \in LineByte /\ SentTo(m, b)
      BY <2>1, LineTypes
    <3> QED
      BY <3>1, <1>0, SentKept
  <2> QED
    BY <2>1
<1>2. ASSUME NEW b \in torn'
      PROVE  \E m \in Machine : SentTo(m, b)'
  <2>1. CASE b \in torn
    <3>1. PICK m \in Machine : SentTo(m, b)
      BY <2>1 DEF FramesInv, SentInv
    <3>2. b \in LineByte
      BY <2>1 DEF FramesInv, TypeOK
    <3>3. SentTo(m, b)'
      BY <3>1, <3>2, <1>0, SentKept
    <3> QED
      BY <3>3
  <2>2. CASE \E m \in Machine : b \in OnLine(m)
    <3>1. PICK m \in Machine : b \in OnLine(m)
      BY <2>2
    <3>2. b \in LineByte /\ SentTo(m, b)
      BY <3>1, LineTypes
    <3>3. SentTo(m, b)'
      BY <3>2, <1>0, SentKept
    <3> QED
      BY <3>3
  <2> QED
    BY <2>1, <2>2
<1>3. SentInv'
  BY <1>1, <1>2 DEF SentInv
<1>4. ASSUME NEW m \in Machine, NEW b \in OnLine(m)', b.id # 0
      PROVE  b \notin torn'
  <2>1. ASSUME b \in torn'
        PROVE  FALSE
    <3>1. b \in OnLine(m) /\ b \in torn
      BY <2>1, <1>4
    <3> QED
      BY <3>1, <1>4 DEF FramesInv, LostInv
  <2> QED
    BY <2>1
<1>5. LostInv'
  BY <1>4 DEF LostInv
<1> QED
  BY <1>3, <1>5

\* What role r may hold: a whole frame for it, older than those of the same
\* sender that are on the line or still to be sent.
Safe(r, id) ==
  /\ id \in Ids /\ offered[id].to = r /\ ~Lost(id)
  /\ \A m \in Machine : \A b \in OnLine(m) :
       b.id # 0 /\ offered[b.id].from = offered[id].from /\ offered[b.id].to = r => id < b.id
  /\ \A p \in Port : outgoing[p] # None /\ RoleOf(p) = offered[id].from => id < outgoing[p].id

\* What a role holds is its own, whole, and older than what comes after it.
LEMMA HeldIsSafe ==
  ASSUME FramesInv, NEW r \in Role, NEW id \in Held(r)
  PROVE  Safe(r, id)
  BY DEF FramesInv, IntactFrames, NewerInv, Safe

\* A frame that a role may hold stays one, whatever the line does.
LEMMA SafeStep ==
  ASSUME FramesInv, OfferedKept, TypeOK',
         \A m \in Machine : \A b \in OnLine(m)' :
           \/ b \in OnLine(m)
           \/ \E p \in Port : outgoing[p] # None /\ b.id = outgoing[p].id,
         \A b \in torn' : \/ b \in torn
                          \/ \E m \in Machine : b \in OnLine(m)
                          \/ \E p \in Port : outgoing[p] # None /\ b.id = outgoing[p].id,
         \A p \in Port : outgoing'[p] # None =>
           outgoing'[p].id \notin Ids \/ outgoing'[p] = outgoing[p],
         NEW r, NEW id, Safe(r, id)
  PROVE  Safe(r, id)'
<1> USE DEF Safe
<1>1. id \in Ids /\ id \in Ids' /\ offered'[id] = offered[id] /\ site' = site /\ id # 0 /\ id \in Nat
  BY DEF OfferedKept, Ids
<1>2. ASSUME NEW b, NEW p \in Port, outgoing[p] # None, b.id = outgoing[p].id,
             offered[b.id].from = offered[id].from
      PROVE  id < b.id
  <2>1. outgoing[p] = offered[b.id] /\ outgoing[p].from = RoleOf(p)
    BY <1>2 DEF FramesInv, OutgoingInv
  <2> QED
    BY <2>1, <1>2
<1>3. ASSUME NEW m \in Machine, NEW b \in OnLine(m)', b.id # 0,
             offered'[b.id].from = offered[id].from, offered'[b.id].to = r
      PROVE  id < b.id
  <2>1. CASE b \in OnLine(m)
    <3>1. b.id \in Ids
      BY <2>1, <1>3, LineTypes
    <3>2. offered'[b.id] = offered[b.id]
      BY <3>1 DEF OfferedKept
    <3> QED
      BY <2>1, <3>2, <1>3
  <2>2. CASE \E p \in Port : outgoing[p] # None /\ b.id = outgoing[p].id
    <3>1. PICK p \in Port : outgoing[p] # None /\ b.id = outgoing[p].id
      BY <2>2
    <3>2. b.id \in Ids
      BY <3>1 DEF FramesInv, OutgoingInv
    <3>3. offered'[b.id] = offered[b.id]
      BY <3>2 DEF OfferedKept
    <3> QED
      BY <3>1, <3>3, <1>2, <1>3
  <2> QED
    BY <2>1, <2>2
<1>4. ASSUME NEW b \in torn', b.id = id, b \notin torn
      PROVE  FALSE
  <2>1. CASE \E m \in Machine : b \in OnLine(m)
    <3>1. PICK m \in Machine : b \in OnLine(m)
      BY <2>1
    <3>2. id < id
      BY <3>1, <1>1, <1>4
    <3> QED
      BY <3>2, <1>1
  <2>2. CASE \E p \in Port : outgoing[p] # None /\ b.id = outgoing[p].id
    <3>1. PICK p \in Port : outgoing[p] # None /\ b.id = outgoing[p].id
      BY <2>2
    <3>2. id < b.id
      BY <3>1, <1>2, <1>4
    <3> QED
      BY <3>2, <1>1, <1>4
  <2> QED
    BY <2>1, <2>2, <1>4
<1>5. ~Lost(id)'
  <2> SUFFICES ASSUME NEW k \in (MAGIC_LEN + 1)..TotalLen(offered'[id].len), Byte(id, k) \in torn'
               PROVE  FALSE
    BY DEF Lost
  <2>1. Byte(id, k).id = id
    BY DEF Byte
  <2>2. Byte(id, k) \in torn
    BY <2>1, <1>4
  <2> QED
    BY <2>2, <1>1 DEF Lost
<1>6. ASSUME NEW p \in Port, outgoing'[p] # None, RoleOf(p) = offered[id].from
      PROVE  id < outgoing'[p].id
  <2>1. CASE outgoing'[p] = outgoing[p]
    BY <2>1, <1>6
  <2>2. CASE outgoing'[p].id \notin Ids
    <3>1. outgoing'[p].id \in Nat \ {0}
      <4>1. p \in Port'
        BY <1>1 DEF Port
      <4>2. outgoing'[p] \in Frame
        BY <4>1, <1>6 DEF TypeOK
      <4> QED
        BY <4>2 DEF Frame
    <3>2. Len(offered) \in Nat
      BY DEF FramesInv, TypeOK
    <3> QED
      BY <2>2, <3>1, <3>2, <1>1 DEF Ids
  <2> QED
    BY <2>1, <2>2, <1>6
<1>7. Port' = Port
  BY <1>1 DEF Port
<1> QED
  BY <1>1, <1>3, <1>5, <1>6, <1>7

\* Where every role holds what it may.
LEMMA SafeIsHeld ==
  ASSUME \A r \in Role' : \A id \in Held(r)' : Safe(r, id)'
  PROVE  IntactFrames' /\ NewerInv'
  BY DEF Safe, IntactFrames, NewerInv

-----------------------------------------------------------------------------
(* The frames that the roles hold. *)

\* A port is its role and its lane.
LEMMA PortIsPair ==
  ASSUME TypeOK, NEW p \in Port
  PROVE  /\ RoleOf(p) \in Role /\ RoleOf(p) \in 0..4 /\ LaneOf(p) \in Nat
         /\ \A q \in Port : RoleOf(q) = RoleOf(p) /\ LaneOf(q) = LaneOf(p) => q = p
         /\ site.kind = "split" => LaneOf(p) \in QueueSlots
<1>1. /\ site.port \subseteq (0..4) \X Nat
      /\ site.kind = "split" => \A q \in site.port : q[2] < PROOF_CARRIER_QUEUE_DEPTH
  BY UartAssumption DEF TypeOK
<1>2. \A q \in Port : q \in (0..4) \X Nat
  BY <1>1 DEF Port
<1> QED
  BY <1>1, <1>2, Constants DEF Port, Role, RoleOf, LaneOf, QueueSlots

\* The frames of a queue.
LEMMA QueueItems ==
  ASSUME NEW q, QueueOK(q)
  PROVE  /\ q.len \in 0..PROOF_CARRIER_QUEUE_DEPTH /\ q.len \in Nat
         /\ \A i \in 1..q.len : Contents(q)[i] \in Frame
<1>1. q.len \in 0..PROOF_CARRIER_QUEUE_DEPTH /\ q.len \in Nat /\ q.head \in QueueSlots
  BY Constants DEF QueueOK, Queue
<1>2. ASSUME NEW i \in 1..q.len
      PROVE  Contents(q)[i] \in Frame
  <2>1. i - 1 \in QueueSlots /\ i - 1 \in 0..(q.len - 1)
    BY <1>1, Constants DEF QueueSlots
  <2>2. At(q, i - 1) \in QueueSlots
    BY <1>1, <2>1, AtCell
  <2>3. q.frames[At(q, i - 1)] # None /\ q.frames[At(q, i - 1)] \in Frame \cup {None}
    BY <2>1, <2>2 DEF QueueOK, Queue
  <2> QED
    BY <2>3 DEF Contents
<1> QED
  BY <1>1, <1>2

\* Nothing happens to them.
LEMMA HoldUnchanged ==
  ASSUME FramesInv, OfferedKept, queue' = queue, rx' = rx, consumed' = consumed
  PROVE  /\ HeldInv' /\ QueueOrder' /\ InOrder' /\ SlotInv'
         /\ \A r \in Role : Held(r)' = Held(r)
<1>0. site' = site /\ Port' = Port /\ Role' = Role
  BY DEF OfferedKept, Port, Role
<1>1. \A r \in Role : Held(r)' = Held(r)
  BY <1>0 DEF Held, Queued, Taken
<1>2. \A id \in Ids : id \in Ids' /\ offered'[id] = offered[id]
  BY DEF OfferedKept
<1>3. HeldInv
  BY DEF FramesInv
<1>4. HeldInv'
  <2>1. ASSUME NEW r \in Role, NEW i \in 1..queue[r].len
        PROVE  LET f == Contents(queue[r])[i] IN f.id \in Ids' /\ f = offered'[f.id] /\ f.to = r
    BY <1>2, <1>3 DEF HeldInv
  <2>2. ASSUME NEW p \in Port, NEW n \in DOMAIN consumed[p]
        PROVE  /\ consumed[p][n] \in Ids'
               /\ offered'[consumed[p][n]].to = RoleOf(p) /\ offered'[consumed[p][n]].lane = LaneOf(p)
    BY <1>2, <1>3 DEF HeldInv
  <2>3. ASSUME NEW p \in Port, rx[p] # None
        PROVE  consumed[p] # <<>> /\ rx[p] = offered'[consumed[p][Len(consumed[p])]]
    <3>1. consumed[p] # <<>> /\ rx[p] = offered[consumed[p][Len(consumed[p])]]
      BY <1>3, <2>3 DEF HeldInv
    <3>2. consumed[p] \in Seq(Nat)
      BY DEF FramesInv, TypeOK
    <3>3. Len(consumed[p]) \in DOMAIN consumed[p]
      BY <3>1, <3>2
    <3>4. consumed[p][Len(consumed[p])] \in Ids
      BY <3>3, <1>3 DEF HeldInv
    <3> QED
      BY <3>1, <3>4, <1>2
  <2> QED
    BY <1>0, <2>1, <2>2, <2>3 DEF HeldInv
<1>5. QueueOrder'
  <2>1. \A p \in Port : \A n \in DOMAIN consumed[p] : offered'[consumed[p][n]] = offered[consumed[p][n]]
    BY <1>2, <1>3 DEF HeldInv
  <2> QED
    BY <1>0, <2>1 DEF FramesInv, QueueOrder
<1>6. InOrder'
  <2>1. \A p \in Port : \A n \in DOMAIN consumed[p] : offered'[consumed[p][n]] = offered[consumed[p][n]]
    BY <1>2, <1>3 DEF HeldInv
  <2> QED
    BY <1>0, <2>1 DEF FramesInv, InOrder
<1>7. SlotInv'
  BY <1>0 DEF FramesInv, SlotInv
<1> QED
  BY <1>1, <1>4, <1>5, <1>6, <1>7

\* A frame enters a queue, newer than what its role has of the sender.
LEMMA HoldPush ==
  ASSUME FramesInv, OfferedKept, rx' = rx, consumed' = consumed,
         NEW r \in Role, NEW f \in Frame, ~Full(queue[r]),
         f.id \in Ids', f = offered'[f.id], f.to = r,
         \A id \in Held(r) : offered[id].from = f.from => id < f.id,
         queue' = [queue EXCEPT ![r] = PushBack(queue[r], f)],
         site.kind = "split" => OnLane(queue[r], f.lane) = {}
  PROVE  /\ HeldInv' /\ QueueOrder' /\ InOrder' /\ SlotInv'
         /\ Held(r)' = Held(r) \cup {f.id} /\ \A s \in Role : s # r => Held(s)' = Held(s)
         /\ DOMAIN queue' = Role /\ \A s \in Role : QueueOK(queue'[s])
<1> DEFINE q == queue[r]
           n == PushBack(q, f)
<1>0. /\ Port' = Port /\ Role' = Role /\ site' = site
      /\ \A i \in Ids : i \in Ids' /\ offered'[i] = offered[i]
      /\ TypeOK /\ HeldInv /\ QueueOrder /\ InOrder /\ SlotInv
      /\ DOMAIN queue = Role /\ QueueOK(q)
  BY DEF FramesInv, Port, Role, TypeOK, OfferedKept
<1>1. /\ QueueOK(n) /\ n.len = q.len + 1 /\ Contents(n)[n.len] = f
      /\ \A i \in 1..q.len : Contents(n)[i] = Contents(q)[i]
  BY <1>0, PushBackKeeps
<1>2. queue'[r] = n /\ DOMAIN queue' = Role /\ \A s \in Role : s # r => queue'[s] = queue[s]
  BY <1>0
<1>3. q.len \in Nat
  BY <1>0, QueueItems
<1> HIDE DEF n, q
<1>4. \A i \in 1..n.len : i = n.len \/ i \in 1..q.len
  BY <1>1, <1>3
<1>5. n.len \in 1..n.len /\ \A i \in 1..q.len : i \in 1..n.len /\ i < n.len
  BY <1>1, <1>3
<1>6. Queued(r)' = Queued(r) \cup {f.id}
  <2>1. Queued(r)' = {Contents(n)[i].id : i \in 1..n.len} /\ Queued(r) = {Contents(q)[i].id : i \in 1..q.len}
    BY <1>2 DEF Queued, q
  <2> QED
    BY <2>1, <1>1, <1>4, <1>5
<1>7. /\ Held(r)' = Held(r) \cup {f.id} /\ \A s \in Role : s # r => Held(s)' = Held(s)
  <2>1. \A s \in Role : s # r => Queued(s)' = Queued(s)
    BY <1>2 DEF Queued
  <2>2. \A p \in Port : Taken(p)' = Taken(p)
    BY DEF Taken
  <2> QED
    BY <1>0, <1>6, <2>1, <2>2 DEF Held
<1>8. ASSUME NEW s \in Role, NEW i \in 1..queue'[s].len
      PROVE  \/ s = r /\ i = n.len /\ Contents(queue'[s])[i] = f
             \/ i \in 1..queue[s].len /\ Contents(queue'[s])[i] = Contents(queue[s])[i]
  <2>1. CASE s = r
    BY <2>1, <1>1, <1>2, <1>4 DEF q
  <2>2. CASE s # r
    <3>1. queue'[s] = queue[s]
      BY <2>2, <1>2
    <3> QED
      BY <3>1
  <2> QED
    BY <2>1, <2>2
<1>9. HeldInv'
  <2>1. ASSUME NEW s \in Role, NEW i \in 1..queue'[s].len
        PROVE  LET g == Contents(queue'[s])[i] IN g.id \in Ids' /\ g = offered'[g.id] /\ g.to = s
    <3>1. CASE s = r /\ i = n.len /\ Contents(queue'[s])[i] = f
      BY <3>1
    <3>2. CASE i \in 1..queue[s].len /\ Contents(queue'[s])[i] = Contents(queue[s])[i]
      BY <3>2, <1>0 DEF HeldInv
    <3> QED
      BY <3>1, <3>2, <1>8
  <2>2. ASSUME NEW p \in Port
        PROVE  /\ \A k \in DOMAIN consumed[p] :
                    /\ consumed[p][k] \in Ids'
                    /\ offered'[consumed[p][k]].to = RoleOf(p) /\ offered'[consumed[p][k]].lane = LaneOf(p)
               /\ rx[p] # None => consumed[p] # <<>> /\ rx[p] = offered'[consumed[p][Len(consumed[p])]]
    <3>1. consumed[p] \in Seq(Nat)
      BY <1>0 DEF TypeOK
    <3>2. consumed[p] # <<>> => Len(consumed[p]) \in DOMAIN consumed[p]
      BY <3>1
    <3> QED
      BY <3>2, <1>0 DEF HeldInv
  <2> QED
    BY <2>1, <2>2, <1>0 DEF HeldInv
<1>10. \A p \in Port : \A k \in DOMAIN consumed[p] : offered'[consumed[p][k]] = offered[consumed[p][k]]
  BY <1>0 DEF HeldInv
<1>11. QueueOrder'
  <2> SUFFICES ASSUME NEW s \in Role, NEW j \in 1..queue'[s].len
               PROVE  LET g == Contents(queue'[s])[j]
                      IN  /\ \A i \in 1..(j - 1) :
                               LET e == Contents(queue'[s])[i]
                               IN  e.lane = g.lane /\ e.from = g.from => e.id < g.id
                          /\ \A p \in Port : RoleOf(p) = s /\ LaneOf(p) = g.lane =>
                               \A k \in DOMAIN consumed[p] :
                                 offered[consumed[p][k]].from = g.from => consumed[p][k] < g.id
    BY <1>0, <1>10 DEF QueueOrder
  <2>1. CASE s = r /\ j = n.len /\ Contents(queue'[s])[j] = f
    <3>1. ASSUME NEW i \in 1..(j - 1), Contents(queue'[s])[i].from = f.from
          PROVE  Contents(queue'[s])[i].id < f.id
      <4>1. i \in 1..q.len
        BY <2>1, <1>1, <1>3
      <4>2. Contents(queue'[s])[i] = Contents(q)[i]
        BY <2>1, <4>1, <1>1, <1>2
      <4>3. Contents(q)[i].id \in Held(r) /\ Contents(q)[i] = offered[Contents(q)[i].id]
        BY <4>1, <1>0 DEF Held, Queued, HeldInv, q
      <4> QED
        BY <4>2, <4>3, <3>1
    <3>2. ASSUME NEW p \in Port, RoleOf(p) = s, NEW k \in DOMAIN consumed[p],
                 offered[consumed[p][k]].from = f.from
          PROVE  consumed[p][k] < f.id
      <4>1. consumed[p] \in Seq(Nat)
        BY <1>0 DEF TypeOK
      <4>2. consumed[p][k] \in Taken(p)
        BY <4>1 DEF Taken
      <4>3. consumed[p][k] \in Held(r)
        BY <4>2, <2>1, <3>2 DEF Held
      <4> QED
        BY <4>3, <3>2
    <3> QED
      BY <2>1, <3>1, <3>2
  <2>2. CASE j \in 1..queue[s].len /\ Contents(queue'[s])[j] = Contents(queue[s])[j]
    <3>1. ASSUME NEW i \in 1..(j - 1)
          PROVE  i \in 1..queue[s].len /\ Contents(queue'[s])[i] = Contents(queue[s])[i]
      <4>1. QueueOK(queue[s])
        BY <1>0 DEF TypeOK
      <4>2. queue[s].len \in Nat
        BY <4>1, QueueItems
      <4>3. i \in 1..queue[s].len
        BY <2>2, <4>2
      <4>4. CASE s = r
        BY <4>3, <4>4, <1>1, <1>2 DEF q
      <4>5. CASE s # r
        BY <4>3, <4>5, <1>2
      <4> QED
        BY <4>3, <4>4, <4>5
    <3> QED
      BY <2>2, <3>1, <1>0 DEF QueueOrder
  <2> QED
    BY <2>1, <2>2, <1>8
<1>12. InOrder'
  BY <1>0, <1>10 DEF InOrder
<1>13. SlotInv'
  <2> SUFFICES ASSUME site.kind = "split", NEW s \in Role,
                      NEW i \in 1..queue'[s].len, NEW j \in 1..queue'[s].len,
                      Contents(queue'[s])[i].lane = Contents(queue'[s])[j].lane
               PROVE  i = j
    BY SMTT(40), <1>0 DEF SlotInv
  <2>1. ASSUME NEW k \in 1..q.len
        PROVE  Contents(q)[k].lane # f.lane
    <3>1. k - 1 \in 0..(q.len - 1)
      BY <1>3
    <3> QED
      BY <3>1 DEF OnLane, Contents, q
  <2> QED
    BY <2>1, <1>0, <1>8 DEF SlotInv, q
<1>14. \A s \in Role : QueueOK(queue'[s])
  BY <1>0, <1>1, <1>2 DEF TypeOK
<1> QED
  BY <1>2, <1>7, <1>9, <1>11, <1>12, <1>13, <1>14

\* A queue without one of its frames has the others, in their order.
LEMMA HoldTake ==
  ASSUME FramesInv, site' = site, offered' = offered, NEW p \in Port, HasFrame(p), TakeFrame(p)
  PROVE  /\ HeldInv' /\ QueueOrder' /\ InOrder' /\ SlotInv'
         /\ \A s \in Role : Held(s)' = Held(s)
         /\ DOMAIN queue' = Role /\ \A s \in Role : QueueOK(queue'[s])
         /\ rx' \in [Port -> Frame \cup {None}] /\ consumed' \in [Port -> Seq(Nat)]
<1> DEFINE r == RoleOf(p)
           l == LaneOf(p)
           q == queue[r]
           n == PopFront(q, l)
           x == First(q, l) + 1
           f == Contents(q)[x]
           up(j) == IF j < x THEN j ELSE j + 1
<1>0. /\ Port' = Port /\ Role' = Role /\ Ids' = Ids
      /\ TypeOK /\ HeldInv /\ QueueOrder /\ InOrder /\ SlotInv
      /\ DOMAIN queue = Role
  BY DEF FramesInv, Port, Role, Ids, TypeOK
<1>1. r \in Role /\ QueueOK(q) /\ OnLane(q, l) # {}
  BY <1>0, PortIsPair DEF TypeOK, HasFrame
<1>2. q.len \in Nat /\ \A i \in 1..q.len : Contents(q)[i] \in Frame
  BY <1>1, QueueItems
<1>3. First(q, l) \in 0..(q.len - 1) /\ f.lane = l /\ \A j \in 1..First(q, l) : Contents(q)[j].lane # l
  BY <1>1, FirstOnLane
<1>4. /\ QueueOK(n) /\ n.len = q.len - 1
      /\ \A j \in 1..n.len : Contents(n)[j] = Contents(q)[IF j <= First(q, l) THEN j ELSE j + 1]
  BY <1>1, PopFrontKeeps
<1>5. /\ rx' = [rx EXCEPT ![p] = f] /\ consumed' = [consumed EXCEPT ![p] = Append(@, f.id)]
      /\ queue' = [queue EXCEPT ![r] = n]
  <2>1. x \in 1..q.len /\ x - 1 = First(q, l)
    BY <1>2, <1>3
  <2>2. f = q.frames[At(q, First(q, l))]
    BY <2>1 DEF Contents
  <2> HIDE DEF n, f
  <2> QED
    BY <2>2 DEF TakeFrame, Stage, n
<1> HIDE DEF n, f, r, l
<1>6. queue'[r] = n /\ DOMAIN queue' = Role /\ \A s \in Role : s # r => queue'[s] = queue[s]
  BY <1>0, <1>1, <1>5
<1>7. x \in 1..q.len /\ f \in Frame /\ \A j \in 1..n.len : Contents(n)[j] = Contents(q)[up(j)] /\ up(j) \in 1..q.len /\ up(j) # x
  <2>1. x \in 1..q.len
    BY <1>2, <1>3
  <2>2. f \in Frame
    BY <1>2, <2>1 DEF f
  <2>3. ASSUME NEW j \in 1..n.len
        PROVE  /\ up(j) = IF j <= First(q, l) THEN j ELSE j + 1
               /\ up(j) \in 1..q.len /\ up(j) # x
    BY <1>2, <1>3, <1>4
  <2> QED
    BY <2>1, <2>2, <2>3, <1>4
<1>8. /\ consumed[p] \in Seq(Nat) /\ Len(consumed[p]) \in Nat
      /\ consumed'[p] = Append(consumed[p], f.id) /\ consumed'[p] \in Seq(Nat)
      /\ Len(consumed'[p]) = Len(consumed[p]) + 1 /\ consumed'[p][Len(consumed[p]) + 1] = f.id
      /\ \A k \in 1..Len(consumed[p]) : consumed'[p][k] = consumed[p][k]
      /\ rx'[p] = f
      /\ \A t \in Port : t # p => consumed'[t] = consumed[t] /\ rx'[t] = rx[t]
  <2>1. consumed[p] \in Seq(Nat) /\ p \in DOMAIN consumed /\ p \in DOMAIN rx /\ f.id \in Nat
    BY <1>0, <1>7 DEF TypeOK, Frame
  <2>2. consumed'[p] = Append(consumed[p], f.id)
    BY <2>1, <1>5
  <2>3. rx'[p] = f /\ \A t \in Port : t # p => consumed'[t] = consumed[t] /\ rx'[t] = rx[t]
    BY <2>1, <1>5, <1>0 DEF TypeOK
  <2> QED
    BY <2>1, <2>2, <2>3
<1>9. \A i, j \in 1..n.len : i < j => up(i) < up(j)
  BY <1>2, <1>3, <1>4
<1>10. \A j \in 1..q.len : j = x \/ \E i \in 1..n.len : up(i) = j
  <2> TAKE j \in 1..q.len
  <2>1. CASE j < x
    <3>1. j \in 1..n.len /\ up(j) = j
      BY <2>1, <1>2, <1>4, <1>7
    <3> QED
      BY <3>1
  <2>2. CASE j > x
    <3>1. j - 1 \in 1..n.len /\ up(j - 1) = j
      BY <2>2, <1>2, <1>4, <1>7
    <3> QED
      BY <3>1
  <2>3. j \in Nat /\ x \in Nat
    BY <1>2, <1>3
  <2> QED
    BY <2>1, <2>2, <2>3
<1>11. \A j \in 1..n.len : Contents(q)[up(j)].lane = l => x < up(j)
  BY <1>2, <1>3, <1>4, <1>7
<1> HIDE DEF up, x
<1>12. \A s \in Role : Held(s)' = Held(s)
  <2>1. Queued(r) = Queued(r)' \cup {f.id}
    <3>1. Queued(r)' = {Contents(n)[i].id : i \in 1..n.len} /\ Queued(r) = {Contents(q)[i].id : i \in 1..q.len}
      BY <1>6 DEF Queued
    <3>2. Queued(r) \subseteq Queued(r)' \cup {f.id}
      <4> SUFFICES ASSUME NEW j \in 1..q.len
                   PROVE  Contents(q)[j].id \in Queued(r)' \cup {f.id}
        BY <3>1
      <4>1. CASE j = x
        BY <4>1 DEF f
      <4>2. CASE j # x
        <5>1. PICK i \in 1..n.len : up(i) = j
          BY <4>2, <1>10
        <5>2. Contents(n)[i] = Contents(q)[j]
          BY <5>1, <1>7
        <5> QED
          BY <5>2, <3>1
      <4> QED
        BY <4>1, <4>2
    <3>3. Queued(r)' \cup {f.id} \subseteq Queued(r)
      <4>1. f.id \in Queued(r)
        BY <3>1, <1>7 DEF f
      <4>2. ASSUME NEW i \in 1..n.len
            PROVE  Contents(n)[i].id \in Queued(r)
        <5>1. Contents(n)[i] = Contents(q)[up(i)] /\ up(i) \in 1..q.len
          BY <1>7
        <5> QED
          BY <5>1, <3>1
      <4> QED
        BY <4>1, <4>2, <3>1
    <3> QED
      BY <3>2, <3>3
  <2>2. Taken(p)' = Taken(p) \cup {f.id}
    <3> DEFINE c == consumed[p]
               d == consumed'[p]
    <3>1. /\ Len(c) \in Nat /\ Len(d) = Len(c) + 1 /\ d[Len(c) + 1] = f.id
          /\ \A k \in 1..Len(c) : d[k] = c[k]
      BY <1>8
    <3> HIDE DEF c, d
    <3>2. /\ \A k \in 1..Len(d) : k \in 1..Len(c) \/ k = Len(c) + 1
          /\ \A k \in 1..Len(c) : k \in 1..Len(d)
          /\ Len(c) + 1 \in 1..Len(d)
      BY <3>1
    <3>3. Taken(p)' = {d[k] : k \in 1..Len(d)} /\ Taken(p) = {c[k] : k \in 1..Len(c)}
      BY DEF Taken, c, d
    <3>4. Taken(p)' \subseteq Taken(p) \cup {f.id}
      BY <3>1, <3>2, <3>3
    <3>5. Taken(p) \cup {f.id} \subseteq Taken(p)'
      <4>1. f.id \in Taken(p)'
        BY <3>1, <3>2, <3>3
      <4>2. Taken(p) \subseteq Taken(p)'
        BY <3>1, <3>2, <3>3
      <4> QED
        BY <4>1, <4>2
    <3> QED
      BY <3>4, <3>5
  <2>3. \A t \in Port : t # p => Taken(t)' = Taken(t)
    BY ZenonT(60), <1>8 DEF Taken
  <2>4. \A s \in Role : s # r => Queued(s)' = Queued(s)
    BY <1>6 DEF Queued
  <2>5. RoleOf(p) = r
    BY DEF r
  <2> TAKE s \in Role
  <2>6. CASE s # r
    <3>1. \A t \in Port : RoleOf(t) = s => Taken(t)' = Taken(t)
      BY <2>3, <2>5, <2>6
    <3> QED
      BY <3>1, <2>4, <2>6, <1>0 DEF Held
  <2>7. CASE s = r
    <3>1. Held(r)' \subseteq Held(r)
      <4> SUFFICES ASSUME NEW id \in Held(r)'
                   PROVE  id \in Held(r)
        OBVIOUS
      <4>1. id \in Queued(r)' \/ \E t \in Port : RoleOf(t) = r /\ id \in Taken(t)'
        BY <1>0 DEF Held
      <4>2. CASE id \in Queued(r)'
        BY <4>2, <2>1 DEF Held
      <4>3. CASE \E t \in Port : RoleOf(t) = r /\ id \in Taken(t)'
        <5>1. PICK t \in Port : RoleOf(t) = r /\ id \in Taken(t)'
          BY <4>3
        <5>2. id \in Taken(t) \/ id = f.id
          BY <5>1, <2>2, <2>3
        <5> QED
          BY <5>1, <5>2, <2>1 DEF Held
      <4> QED
        BY <4>1, <4>2, <4>3
    <3>2. Held(r) \subseteq Held(r)'
      <4> SUFFICES ASSUME NEW id \in Held(r)
                   PROVE  id \in Held(r)'
        OBVIOUS
      <4>1. id \in Queued(r) \/ \E t \in Port : RoleOf(t) = r /\ id \in Taken(t)
        BY DEF Held
      <4>2. CASE id \in Queued(r)
        <5>1. id \in Queued(r)' \/ id \in Taken(p)'
          BY <4>2, <2>1, <2>2
        <5> QED
          BY <5>1, <2>5, <1>0 DEF Held
      <4>3. CASE \E t \in Port : RoleOf(t) = r /\ id \in Taken(t)
        <5>1. PICK t \in Port : RoleOf(t) = r /\ id \in Taken(t)
          BY <4>3
        <5>2. id \in Taken(t)'
          BY <5>1, <2>2, <2>3
        <5> QED
          BY <5>1, <5>2, <1>0 DEF Held
      <4> QED
        BY <4>1, <4>2, <4>3
    <3> QED
      BY <3>1, <3>2, <2>7
  <2> QED
    BY <2>6, <2>7
<1>13. f.id \in Ids /\ f = offered[f.id] /\ f.to = r
  BY <1>0, <1>1, <1>7 DEF HeldInv, f
<1>14. ASSUME NEW s \in Role, NEW i \in 1..queue'[s].len
       PROVE  \/ s = r /\ up(i) \in 1..q.len /\ Contents(queue'[s])[i] = Contents(q)[up(i)]
              \/ s # r /\ queue'[s] = queue[s]
  BY <1>6, <1>7
<1>15. HeldInv'
  <2>1. ASSUME NEW s \in Role, NEW i \in 1..queue'[s].len
        PROVE  LET g == Contents(queue'[s])[i] IN g.id \in Ids /\ g = offered[g.id] /\ g.to = s
    BY <1>0, <1>14 DEF HeldInv
  <2>2. ASSUME NEW t \in Port
        PROVE  /\ \A k \in DOMAIN consumed'[t] :
                    /\ consumed'[t][k] \in Ids
                    /\ offered[consumed'[t][k]].to = RoleOf(t) /\ offered[consumed'[t][k]].lane = LaneOf(t)
               /\ rx'[t] # None => consumed'[t] # <<>> /\ rx'[t] = offered[consumed'[t][Len(consumed'[t])]]
    <3>1. CASE t # p
      BY SMTT(40), <3>1, <1>0, <1>8 DEF HeldInv
    <3>2. CASE t = p
      <4>1. ASSUME NEW k \in DOMAIN consumed'[p]
            PROVE  /\ consumed'[p][k] \in Ids
                   /\ offered[consumed'[p][k]].to = RoleOf(p) /\ offered[consumed'[p][k]].lane = LaneOf(p)
        <5>1. CASE k \in DOMAIN consumed[p]
          BY <5>1, <1>0, <1>8 DEF HeldInv
        <5>2. CASE k = Len(consumed[p]) + 1
          <6>1. f.lane = LaneOf(p) /\ f.to = RoleOf(p)
            BY <1>3, <1>13 DEF r, l
          <6> QED
            BY <5>2, <6>1, <1>8, <1>13
        <5>3. k \in 1..(Len(consumed[p]) + 1)
          BY <1>8
        <5> QED
          BY <5>1, <5>2, <5>3, <1>8
      <4>2. consumed'[p] # <<>> /\ rx'[p] = offered[consumed'[p][Len(consumed'[p])]]
        <5>1. consumed'[p] # <<>>
          BY <1>8
        <5>2. consumed'[p][Len(consumed'[p])] = f.id
          BY <1>8
        <5>3. rx'[p] = offered[f.id]
          BY <1>8, <1>13
        <5> QED
          BY <5>1, <5>2, <5>3
      <4> QED
        BY <3>2, <4>1, <4>2
    <3> QED
      BY <3>1, <3>2
  <2> QED
    BY <2>1, <2>2, <1>0 DEF HeldInv
<1>16. QueueOrder'
  <2> SUFFICES ASSUME NEW s \in Role, NEW j \in 1..queue'[s].len
               PROVE  LET g == Contents(queue'[s])[j]
                      IN  /\ \A i \in 1..(j - 1) :
                               LET e == Contents(queue'[s])[i]
                               IN  e.lane = g.lane /\ e.from = g.from => e.id < g.id
                          /\ \A t \in Port : RoleOf(t) = s /\ LaneOf(t) = g.lane =>
                               \A k \in DOMAIN consumed'[t] :
                                 offered[consumed'[t][k]].from = g.from => consumed'[t][k] < g.id
    BY <1>0 DEF QueueOrder
  <2>1. CASE s = r
    <3> DEFINE g == Contents(q)[up(j)]
    <3>1. Contents(queue'[s])[j] = g /\ up(j) \in 1..q.len /\ queue'[s] = n /\ j \in 1..n.len
      BY <2>1, <1>6, <1>7
    <3>2. ASSUME NEW i \in 1..(j - 1), Contents(n)[i].lane = g.lane, Contents(n)[i].from = g.from
          PROVE  Contents(n)[i].id < g.id
      <4>1. i \in 1..n.len /\ i < j
        BY <3>1, <1>2, <1>4
      <4>2. up(i) < up(j) /\ Contents(n)[i] = Contents(q)[up(i)] /\ up(i) \in 1..q.len
        BY <3>1, <4>1, <1>7, <1>9
      <4>3. up(i) \in 1..(up(j) - 1)
        BY <4>2, <3>1, <1>2
      <4> QED
        BY <4>2, <4>3, <3>1, <3>2, <1>0, <1>1 DEF QueueOrder
    <3>3. ASSUME NEW t \in Port, RoleOf(t) = r, LaneOf(t) = g.lane, NEW k \in DOMAIN consumed'[t],
                 offered[consumed'[t][k]].from = g.from
          PROVE  consumed'[t][k] < g.id
      <4>1. CASE k \in DOMAIN consumed[t] /\ consumed'[t][k] = consumed[t][k]
        BY <4>1, <3>1, <3>3, <1>0, <1>1 DEF QueueOrder
      <4>2. CASE t = p /\ consumed'[t][k] = f.id
        <5>1. g.lane = l
          BY <4>2, <3>3 DEF l
        <5>2. x < up(j)
          BY <5>1, <3>1, <1>11
        <5>3. x \in 1..(up(j) - 1)
          BY <5>2, <3>1, <1>2, <1>7
        <5>4. f.lane = g.lane /\ f.from = g.from
          BY <4>2, <5>1, <3>3, <1>3, <1>13
        <5> QED
          BY <4>2, <5>3, <5>4, <3>1, <1>0, <1>1 DEF QueueOrder, f
      <4>3. \/ k \in DOMAIN consumed[t] /\ consumed'[t][k] = consumed[t][k]
            \/ t = p /\ consumed'[t][k] = f.id
        <5>1. CASE t # p
          BY <5>1, <1>8
        <5>2. CASE t = p
          <6>1. k \in 1..(Len(consumed[p]) + 1)
            BY <5>2, <1>8
          <6>2. k \in 1..Len(consumed[p]) \/ k = Len(consumed[p]) + 1
            BY <6>1, <1>8
          <6> QED
            BY <5>2, <6>2, <1>8
        <5> QED
          BY <5>1, <5>2
      <4> QED
        BY <4>1, <4>2, <4>3
    <3> HIDE DEF g
    <3> QED
      BY <2>1, <3>1, <3>2, <3>3
  <2>2. CASE s # r
    <3>1. queue'[s] = queue[s]
      BY <2>2, <1>6
    <3>2. \A t \in Port : RoleOf(t) = s => consumed'[t] = consumed[t]
      BY <2>2, <1>8 DEF r
    <3> QED
      BY <3>1, <3>2, <1>0 DEF QueueOrder
  <2> QED
    BY <2>1, <2>2
<1>17. InOrder'
  <2> SUFFICES ASSUME NEW t \in Port, NEW i \in DOMAIN consumed'[t], NEW j \in DOMAIN consumed'[t], i < j,
                      offered[consumed'[t][i]].from = offered[consumed'[t][j]].from
               PROVE  consumed'[t][i] < consumed'[t][j]
    BY <1>0 DEF InOrder
  <2>1. CASE t # p
    BY <2>1, <1>0, <1>8 DEF InOrder
  <2>2. CASE t = p
    <3>1. i \in 1..(Len(consumed[p]) + 1) /\ j \in 1..(Len(consumed[p]) + 1)
      BY <2>2, <1>8
    <3>2. i \in 1..Len(consumed[p])
      BY <3>1, <1>8
    <3>3. i \in DOMAIN consumed[p] /\ consumed'[p][i] = consumed[p][i]
      BY <3>2, <1>8
    <3>4. CASE j \in 1..Len(consumed[p])
      BY SMTT(40), <2>2, <3>3, <3>4, <1>0, <1>8 DEF InOrder
    <3>5. CASE j = Len(consumed[p]) + 1
      <4>1. consumed'[p][j] = f.id /\ offered[consumed[p][i]].from = f.from
        BY <2>2, <3>3, <3>5, <1>8, <1>13
      <4>2. RoleOf(p) = r /\ LaneOf(p) = f.lane
        BY <1>3 DEF r, l
      <4> QED
        BY <2>2, <3>3, <4>1, <4>2, <1>0, <1>1, <1>7 DEF QueueOrder, f
    <3> QED
      BY <3>1, <3>4, <3>5, <1>8
  <2> QED
    BY <2>1, <2>2
<1>18. SlotInv'
  <2> SUFFICES ASSUME site.kind = "split", NEW s \in Role,
                      NEW i \in 1..queue'[s].len, NEW j \in 1..queue'[s].len,
                      Contents(queue'[s])[i].lane = Contents(queue'[s])[j].lane
               PROVE  i = j
    BY <1>0 DEF SlotInv
  <2>1. CASE s = r
    <3>1. /\ up(i) \in 1..q.len /\ up(j) \in 1..q.len /\ i \in 1..n.len /\ j \in 1..n.len
          /\ Contents(q)[up(i)].lane = Contents(q)[up(j)].lane
      BY <2>1, <1>6, <1>7
    <3>2. up(i) = up(j)
      BY <3>1, <1>0, <1>1 DEF SlotInv
    <3> QED
      BY <3>1, <3>2, <1>2, <1>4, <1>9
  <2>2. CASE s # r
    <3>1. queue'[s] = queue[s]
      BY <2>2, <1>6
    <3> QED
      BY <3>1, <1>0 DEF SlotInv
  <2> QED
    BY <2>1, <2>2
<1>19. /\ \A s \in Role : QueueOK(queue'[s])
       /\ rx' \in [Port -> Frame \cup {None}] /\ consumed' \in [Port -> Seq(Nat)]
  <2>1. \A s \in Role : QueueOK(queue'[s])
    BY <1>0, <1>4, <1>6 DEF TypeOK
  <2>2. rx' \in [Port -> Frame \cup {None}]
    BY <1>0, <1>5, <1>7 DEF TypeOK
  <2>3. consumed' \in [Port -> Seq(Nat)]
    BY <1>0, <1>5, <1>8 DEF TypeOK
  <2> QED
    BY <2>1, <2>2, <2>3
<1> QED
  BY <1>6, <1>12, <1>15, <1>16, <1>17, <1>18, <1>19

\* A sequence without its last.
LEMMA Shortened ==
  ASSUME NEW c \in Seq(Nat), c # <<>>
  PROVE  LET d == SubSeq(c, 1, Len(c) - 1)
         IN  /\ d \in Seq(Nat) /\ Len(d) = Len(c) - 1 /\ Len(c) \in Nat /\ Len(c) > 0
             /\ \A k \in 1..Len(d) : d[k] = c[k] /\ k \in 1..Len(c)
             /\ \A k \in 1..Len(c) : k \in 1..Len(d) \/ k = Len(c)
<1> DEFINE d == SubSeq(c, 1, Len(c) - 1)
<1>1. Len(c) \in Nat /\ Len(c) > 0
  OBVIOUS
<1>2. d \in Seq(Nat) /\ Len(d) = Len(c) - 1 /\ \A k \in 1..Len(d) : d[k] = c[k]
  <2>1. d = [k \in 1..(Len(c) - 1) |-> c[k]]
    BY <1>1
  <2>2. \A k \in 1..(Len(c) - 1) : c[k] \in Nat
    BY <1>1
  <2> HIDE DEF d
  <2>3. d \in [1..(Len(c) - 1) -> Nat] /\ Len(c) - 1 \in Nat
    BY <1>1, <2>1, <2>2
  <2>4. d \in Seq(Nat) /\ Len(d) = Len(c) - 1
    BY <2>3
  <2> QED
    BY <2>1, <2>4
<1> HIDE DEF d
<1>3. /\ \A k \in 1..Len(d) : k \in 1..Len(c)
      /\ \A k \in 1..Len(c) : k \in 1..Len(d) \/ k = Len(c)
  BY SMTT(40), <1>1, <1>2
<1> QED
  BY <1>1, <1>2, <1>3 DEF d

\* The staged frame leaves its port, and what becomes of the queue is open.
GivenBack(p) ==
  /\ rx[p] # None
  /\ rx' = [rx EXCEPT ![p] = None]
  /\ consumed' = [consumed EXCEPT ![p] = SubSeq(@, 1, Len(@) - 1)]

\* The history of a port whose last frame is given back.
LEMMA GivenBackTakes ==
  ASSUME FramesInv, NEW p \in Port, GivenBack(p)
  PROVE  LET c == consumed[p]
             d == consumed'[p]
         IN  /\ c \in Seq(Nat) /\ d \in Seq(Nat) /\ Len(c) \in Nat /\ Len(d) = Len(c) - 1 /\ Len(c) > 0
             /\ \A k \in 1..Len(d) : d[k] = c[k] /\ k \in 1..Len(c)
             /\ \A k \in 1..Len(c) : k \in 1..Len(d) \/ k = Len(c)
             /\ rx[p] \in Frame /\ rx[p] = offered[c[Len(c)]] /\ c[Len(c)] = rx[p].id
             /\ rx[p].id \in Ids /\ rx[p].to = RoleOf(p) /\ rx[p].lane = LaneOf(p)
             /\ rx'[p] = None /\ \A t \in Port : t # p => consumed'[t] = consumed[t] /\ rx'[t] = rx[t]
             /\ rx' \in [Port -> Frame \cup {None}] /\ consumed' \in [Port -> Seq(Nat)]
             /\ Taken(p) = Taken(p)' \cup {rx[p].id}
             /\ \A t \in Port : \A k \in DOMAIN consumed'[t] :
                  k \in DOMAIN consumed[t] /\ consumed'[t][k] = consumed[t][k]
<1> DEFINE c == consumed[p]
           d == consumed'[p]
<1>0. TypeOK /\ HeldInv /\ OfferedInv
  BY DEF FramesInv
<1>1. c \in Seq(Nat) /\ c # <<>> /\ rx[p] = offered[c[Len(c)]] /\ rx[p] \in Frame
  BY <1>0 DEF HeldInv, TypeOK, GivenBack
<1>2. /\ d = SubSeq(c, 1, Len(c) - 1) /\ rx'[p] = None
      /\ \A t \in Port : t # p => consumed'[t] = consumed[t] /\ rx'[t] = rx[t]
  BY <1>0 DEF TypeOK, GivenBack
<1>3. /\ d \in Seq(Nat) /\ Len(d) = Len(c) - 1 /\ Len(c) \in Nat /\ Len(c) > 0
      /\ \A k \in 1..Len(d) : d[k] = c[k] /\ k \in 1..Len(c)
      /\ \A k \in 1..Len(c) : k \in 1..Len(d) \/ k = Len(c)
  BY SMTT(40), <1>1, <1>2, Shortened
<1>4. Len(c) \in DOMAIN c
  BY <1>1, <1>3
<1>5. c[Len(c)] \in Ids /\ rx[p].to = RoleOf(p) /\ rx[p].lane = LaneOf(p)
  BY <1>0, <1>1, <1>4 DEF HeldInv
<1>6. c[Len(c)] = rx[p].id
  BY <1>0, <1>1, <1>5 DEF OfferedInv
<1>7. rx' \in [Port -> Frame \cup {None}] /\ consumed' \in [Port -> Seq(Nat)]
  <2>1. rx' \in [Port -> Frame \cup {None}]
    BY <1>0 DEF TypeOK, GivenBack
  <2>2. consumed' = [consumed EXCEPT ![p] = d]
    BY <1>0, <1>2 DEF TypeOK, GivenBack
  <2> HIDE DEF d
  <2>3. consumed' \in [Port -> Seq(Nat)]
    BY <1>0, <1>3, <2>2 DEF TypeOK
  <2> QED
    BY <2>1, <2>3
<1>8. \A t \in Port : \A k \in DOMAIN consumed'[t] :
        k \in DOMAIN consumed[t] /\ consumed'[t][k] = consumed[t][k]
  <2> TAKE t \in Port
  <2>1. CASE t = p
    <3>1. DOMAIN d = 1..Len(d) /\ DOMAIN c = 1..Len(c)
      BY SMTT(40), <1>1, <1>3
    <3> HIDE DEF c, d
    <3>2. \A k \in DOMAIN d : k \in DOMAIN c /\ d[k] = c[k]
      BY <3>1, <1>3
    <3> QED
      BY <3>2, <2>1 DEF c, d
  <2>2. CASE t # p
    BY <2>2, <1>2
  <2> QED
    BY <2>1, <2>2
<1> HIDE DEF c, d
<1>9. Taken(p) = Taken(p)' \cup {rx[p].id}
  <2>1. Taken(p)' = {d[k] : k \in 1..Len(d)} /\ Taken(p) = {c[k] : k \in 1..Len(c)}
    BY DEF Taken, c, d
  <2>2. Taken(p) \subseteq Taken(p)' \cup {rx[p].id}
    BY <2>1, <1>3, <1>6
  <2>3. Taken(p)' \subseteq Taken(p)
    BY <2>1, <1>3
  <2>4. rx[p].id \in Taken(p)
    <3>1. Len(c) \in 1..Len(c)
      BY <1>3
    <3> QED
      BY <2>1, <3>1, <1>6
  <2> QED
    BY <2>2, <2>3, <2>4
<1> QED
  BY <1>1, <1>2, <1>3, <1>5, <1>6, <1>7, <1>9, <1>8 DEF c, d

\* A staged frame that is not put back.
LEMMA HoldDrop ==
  ASSUME FramesInv, site' = site, offered' = offered, NEW p \in Port, GivenBack(p), queue' = queue
  PROVE  /\ HeldInv' /\ QueueOrder' /\ InOrder' /\ SlotInv'
         /\ \A s \in Role : Held(s)' \subseteq Held(s)
<1> DEFINE c == consumed[p]
           d == consumed'[p]
<1>0. /\ Port' = Port /\ Role' = Role /\ Ids' = Ids
      /\ TypeOK /\ HeldInv /\ QueueOrder /\ InOrder /\ SlotInv
  BY DEF FramesInv, Port, Role, Ids
<1>1. /\ c \in Seq(Nat) /\ d \in Seq(Nat) /\ Len(c) \in Nat /\ Len(d) = Len(c) - 1
      /\ \A k \in 1..Len(d) : d[k] = c[k] /\ k \in 1..Len(c)
      /\ rx'[p] = None /\ \A t \in Port : t # p => consumed'[t] = consumed[t] /\ rx'[t] = rx[t]
      /\ Taken(p) = Taken(p)' \cup {rx[p].id}
  BY GivenBackTakes
<1>2. \A t \in Port : \A k \in DOMAIN consumed'[t] : k \in DOMAIN consumed[t] /\ consumed'[t][k] = consumed[t][k]
  BY GivenBackTakes
<1> HIDE DEF c, d
<1>3. HeldInv'
  <2>1. ASSUME NEW t \in Port
        PROVE  /\ \A k \in DOMAIN consumed'[t] :
                    /\ consumed'[t][k] \in Ids
                    /\ offered[consumed'[t][k]].to = RoleOf(t) /\ offered[consumed'[t][k]].lane = LaneOf(t)
               /\ rx'[t] # None => consumed'[t] # <<>> /\ rx'[t] = offered[consumed'[t][Len(consumed'[t])]]
    <3>1. \A k \in DOMAIN consumed'[t] :
            /\ consumed'[t][k] \in Ids
            /\ offered[consumed'[t][k]].to = RoleOf(t) /\ offered[consumed'[t][k]].lane = LaneOf(t)
      BY <1>0, <1>2 DEF HeldInv
    <3>2. ASSUME rx'[t] # None
          PROVE  consumed'[t] # <<>> /\ rx'[t] = offered[consumed'[t][Len(consumed'[t])]]
      <4>1. t # p
        BY <1>1, <3>2
      <4>2. rx'[t] = rx[t] /\ consumed'[t] = consumed[t]
        BY <1>1, <4>1
      <4> QED
        BY <3>2, <4>2, <1>0 DEF HeldInv
    <3> QED
      BY <3>1, <3>2
  <2> QED
    BY <2>1, <1>0 DEF HeldInv
<1>4. QueueOrder'
  <2>1. \A s \in Role : queue'[s] = queue[s]
    BY <1>0
  <2>2. \A t \in Port : \A k \in DOMAIN consumed'[t] :
          k \in DOMAIN consumed[t] /\ offered[consumed'[t][k]] = offered[consumed[t][k]]
          /\ consumed'[t][k] = consumed[t][k]
    BY <1>2
  <2> QED
    BY <1>0, <2>1, <2>2 DEF QueueOrder
<1>5. InOrder'
  BY <1>0, <1>2 DEF InOrder
<1>6. SlotInv'
  BY <1>0 DEF SlotInv
<1>7. \A s \in Role : Held(s)' \subseteq Held(s)
  <2>1. ASSUME NEW t \in Port
        PROVE  Taken(t)' \subseteq Taken(t)
    <3>1. CASE t = p
      BY <3>1, <1>1
    <3>2. CASE t # p
      BY <3>2, <1>1 DEF Taken
    <3> QED
      BY <3>1, <3>2
  <2>2. \A s \in Role : Queued(s)' = Queued(s)
    BY DEF Queued
  <2> QED
    BY <2>1, <2>2, <1>0 DEF Held
<1> QED
  BY <1>3, <1>4, <1>5, <1>6, <1>7

\* A staged frame that goes back in front of its queue.
LEMMA HoldRequeue ==
  ASSUME FramesInv, site' = site, offered' = offered, NEW p \in Port, GivenBack(p),
         ~Full(queue[RoleOf(p)]), site.kind # "split",
         queue' = [queue EXCEPT ![RoleOf(p)] = PushFront(@, rx[p])]
  PROVE  /\ HeldInv' /\ QueueOrder' /\ InOrder' /\ SlotInv'
         /\ \A s \in Role : Held(s)' = Held(s)
         /\ DOMAIN queue' = Role /\ \A s \in Role : QueueOK(queue'[s])
<1> DEFINE c == consumed[p]
           d == consumed'[p]
           r == RoleOf(p)
           q == queue[r]
           f == rx[p]
           n == PushFront(q, f)
<1>0. /\ Port' = Port /\ Role' = Role /\ Ids' = Ids
      /\ TypeOK /\ HeldInv /\ QueueOrder /\ InOrder /\ SlotInv
      /\ DOMAIN queue = Role
  BY DEF FramesInv, Port, Role, Ids, TypeOK
<1>1. /\ c \in Seq(Nat) /\ d \in Seq(Nat) /\ Len(c) \in Nat /\ Len(d) = Len(c) - 1 /\ Len(c) > 0
      /\ \A k \in 1..Len(d) : d[k] = c[k] /\ k \in 1..Len(c)
      /\ f \in Frame /\ f = offered[c[Len(c)]] /\ c[Len(c)] = f.id
      /\ f.id \in Ids /\ f.to = r /\ f.lane = LaneOf(p)
      /\ rx'[p] = None /\ \A t \in Port : t # p => consumed'[t] = consumed[t] /\ rx'[t] = rx[t]
      /\ Taken(p) = Taken(p)' \cup {f.id}
  BY GivenBackTakes
<1>2. r \in Role /\ QueueOK(q)
  BY SMTT(40), <1>0, PortIsPair DEF TypeOK
<1>3. /\ QueueOK(n) /\ n.len = q.len + 1 /\ Contents(n)[1] = f
      /\ \A i \in 1..q.len : Contents(n)[i + 1] = Contents(q)[i]
  BY ZenonT(60), <1>1, <1>2, PushFrontKeeps
<1>4. queue'[r] = n /\ DOMAIN queue' = Role /\ \A s \in Role : s # r => queue'[s] = queue[s]
  BY <1>0, <1>2
<1>5. q.len \in Nat
  BY <1>2, QueueItems
<1>6. \A t \in Port : \A k \in DOMAIN consumed'[t] : k \in DOMAIN consumed[t] /\ consumed'[t][k] = consumed[t][k]
  BY GivenBackTakes
<1>7. \A t \in Port : RoleOf(t) = r /\ LaneOf(t) = f.lane => t = p
  BY <1>0, <1>1, PortIsPair
<1>8. RoleOf(p) = r
  OBVIOUS
<1> HIDE DEF c, d, n, q, r, f
<1>9. \A i \in 1..n.len : i = 1 \/ (i - 1 \in 1..q.len /\ Contents(n)[i] = Contents(q)[i - 1])
  <2> TAKE i \in 1..n.len
  <2>1. CASE i # 1
    <3>1. i - 1 \in 1..q.len /\ (i - 1) + 1 = i
      BY <2>1, <1>3, <1>5
    <3> QED
      BY <3>1, <1>3
  <2> QED
    BY <2>1
<1>10. ASSUME NEW s \in Role, NEW i \in 1..queue'[s].len
      PROVE  \/ s = r /\ i = 1 /\ Contents(queue'[s])[i] = f
             \/ s = r /\ i - 1 \in 1..q.len /\ Contents(queue'[s])[i] = Contents(q)[i - 1]
             \/ s # r /\ queue'[s] = queue[s]
  BY <1>3, <1>4, <1>9
<1>11. HeldInv'
  <2>1. ASSUME NEW s \in Role, NEW i \in 1..queue'[s].len
        PROVE  LET g == Contents(queue'[s])[i] IN g.id \in Ids /\ g = offered[g.id] /\ g.to = s
    <3>1. CASE s = r /\ i = 1 /\ Contents(queue'[s])[i] = f
      <4>1. f = offered[f.id]
        BY <1>1
      <4> QED
        BY <3>1, <4>1, <1>1
    <3>2. CASE s = r /\ i - 1 \in 1..q.len /\ Contents(queue'[s])[i] = Contents(q)[i - 1]
      BY <3>2, <1>0 DEF HeldInv, q
    <3>3. CASE s # r /\ queue'[s] = queue[s]
      BY <3>3, <1>0 DEF HeldInv
    <3> QED
      BY SMTT(40), <3>1, <3>2, <3>3, <1>10
  <2>2. ASSUME NEW t \in Port
        PROVE  /\ \A k \in DOMAIN consumed'[t] :
                    /\ consumed'[t][k] \in Ids
                    /\ offered[consumed'[t][k]].to = RoleOf(t) /\ offered[consumed'[t][k]].lane = LaneOf(t)
               /\ rx'[t] # None => consumed'[t] # <<>> /\ rx'[t] = offered[consumed'[t][Len(consumed'[t])]]
    <3>1. \A k \in DOMAIN consumed'[t] :
            /\ consumed'[t][k] \in Ids
            /\ offered[consumed'[t][k]].to = RoleOf(t) /\ offered[consumed'[t][k]].lane = LaneOf(t)
      BY <1>0, <1>6 DEF HeldInv
    <3>2. ASSUME rx'[t] # None
          PROVE  consumed'[t] # <<>> /\ rx'[t] = offered[consumed'[t][Len(consumed'[t])]]
      <4>1. t # p
        BY <1>1, <3>2
      <4>2. rx'[t] = rx[t] /\ consumed'[t] = consumed[t]
        BY <1>1, <4>1
      <4> QED
        BY <3>2, <4>2, <1>0 DEF HeldInv
    <3> QED
      BY <3>1, <3>2
  <2> QED
    BY <2>1, <2>2, <1>0 DEF HeldInv
<1>12. QueueOrder'
  <2> SUFFICES ASSUME NEW s \in Role, NEW j \in 1..queue'[s].len
               PROVE  LET g == Contents(queue'[s])[j]
                      IN  /\ \A i \in 1..(j - 1) :
                               LET e == Contents(queue'[s])[i]
                               IN  e.lane = g.lane /\ e.from = g.from => e.id < g.id
                          /\ \A t \in Port : RoleOf(t) = s /\ LaneOf(t) = g.lane =>
                               \A k \in DOMAIN consumed'[t] :
                                 offered[consumed'[t][k]].from = g.from => consumed'[t][k] < g.id
    BY <1>0 DEF QueueOrder
  <2>1. CASE s = r /\ j = 1 /\ Contents(queue'[s])[j] = f
    <3>1. ASSUME NEW t \in Port, RoleOf(t) = r, LaneOf(t) = f.lane, NEW k \in DOMAIN consumed'[t],
                 offered[consumed'[t][k]].from = f.from
          PROVE  consumed'[t][k] < f.id
      <4>1. t = p
        BY <3>1, <1>7
      <4>2. k \in 1..Len(d) /\ d[k] = c[k] /\ consumed'[t][k] = c[k]
        <5>1. k \in DOMAIN d /\ consumed'[t][k] = d[k]
          BY <4>1, <3>1 DEF d
        <5> QED
          BY SMTT(40), <5>1, <1>1
      <4>3. k \in DOMAIN c /\ Len(c) \in DOMAIN c /\ k < Len(c)
        BY SMTT(40), <4>2, <1>1
      <4>4. offered[c[k]].from = offered[c[Len(c)]].from
        BY <4>2, <3>1, <1>1
      <4>5. c[k] < c[Len(c)]
        BY <4>3, <4>4, <1>0 DEF InOrder, c
      <4> QED
        BY <4>2, <4>5, <1>1
    <3>2. \A i \in 1..(j - 1) : FALSE
      BY <2>1
    <3> QED
      BY <2>1, <3>1, <3>2
  <2>2. CASE s = r /\ j - 1 \in 1..q.len /\ Contents(queue'[s])[j] = Contents(q)[j - 1]
    <3> DEFINE g == Contents(q)[j - 1]
    <3>0. j - 1 \in 1..queue[r].len /\ g = Contents(queue[r])[j - 1]
      BY <2>2 DEF q
    <3>1. ASSUME NEW i \in 1..(j - 1), Contents(queue'[s])[i].lane = g.lane, Contents(queue'[s])[i].from = g.from
          PROVE  Contents(queue'[s])[i].id < g.id
      <4>1. CASE i = 1
        <5>1. Contents(queue'[s])[i] = f
          BY <4>1, <2>2, <1>3, <1>4
        <5>2. Len(c) \in DOMAIN c /\ c[Len(c)] = f.id /\ offered[c[Len(c)]].from = g.from
          BY SMTT(40), <5>1, <3>1, <1>1
        <5>3. LaneOf(p) = g.lane
          BY <5>1, <3>1, <1>1
        <5> QED
          BY SMTT(40), <5>1, <5>2, <5>3, <3>0, <1>0, <1>2, <1>8 DEF QueueOrder, c
      <4>2. CASE i # 1
        <5>1. i \in 1..n.len /\ i - 1 \in 1..((j - 1) - 1)
          BY <4>2, <2>2, <1>3, <1>5
        <5>2. Contents(queue'[s])[i] = Contents(queue[r])[i - 1]
          BY <5>1, <4>2, <2>2, <1>4, <1>9 DEF q
        <5> QED
          BY <5>1, <5>2, <3>0, <3>1, <1>0, <1>2 DEF QueueOrder
      <4> QED
        BY <4>1, <4>2
    <3>2. ASSUME NEW t \in Port, RoleOf(t) = r, LaneOf(t) = g.lane, NEW k \in DOMAIN consumed'[t],
                 offered[consumed'[t][k]].from = g.from
          PROVE  consumed'[t][k] < g.id
      <4>1. k \in DOMAIN consumed[t] /\ consumed'[t][k] = consumed[t][k]
        BY <1>6
      <4> QED
        BY <4>1, <3>0, <3>2, <1>0, <1>2 DEF QueueOrder
    <3> HIDE DEF g
    <3>3. Contents(queue'[s])[j] = g
      BY <2>2 DEF g
    <3> QED
      BY <2>2, <3>1, <3>2, <3>3
  <2>3. CASE s # r /\ queue'[s] = queue[s]
    BY <2>3, <1>0, <1>6 DEF QueueOrder
  <2> QED
    BY <2>1, <2>2, <2>3, <1>10
<1>13. InOrder'
  BY <1>0, <1>6 DEF InOrder
<1>14. SlotInv'
  BY <1>0 DEF SlotInv
<1>15. \A s \in Role : Held(s)' = Held(s)
  <2>1. Queued(r)' = Queued(r) \cup {f.id}
    <3>1. Queued(r)' = {Contents(n)[i].id : i \in 1..n.len} /\ Queued(r) = {Contents(q)[i].id : i \in 1..q.len}
      BY <1>4 DEF Queued, q
    <3>2. Queued(r)' \subseteq Queued(r) \cup {f.id}
      BY <3>1, <1>3, <1>9
    <3>3. Queued(r) \subseteq Queued(r)'
      <4>1. \A i \in 1..q.len : i + 1 \in 1..n.len
        BY <1>3, <1>5
      <4> QED
        BY <3>1, <4>1, <1>3
    <3>4. f.id \in Queued(r)'
      <4>1. 1 \in 1..n.len
        BY <1>3, <1>5
      <4> QED
        BY <3>1, <4>1, <1>3
    <3> QED
      BY <3>2, <3>3, <3>4
  <2>2. \A t \in Port : t # p => Taken(t)' = Taken(t)
    BY <1>1 DEF Taken
  <2>3. \A s \in Role : s # r => Queued(s)' = Queued(s)
    BY <1>4 DEF Queued
  <2> TAKE s \in Role
  <2>4. CASE s # r
    <3>1. \A t \in Port : RoleOf(t) = s => Taken(t)' = Taken(t)
      BY <2>2, <2>4, <1>8
    <3> QED
      BY <3>1, <2>3, <2>4, <1>0 DEF Held
  <2>5. CASE s = r
    <3>1. Held(r)' \subseteq Held(r)
      <4> SUFFICES ASSUME NEW id \in Held(r)'
                   PROVE  id \in Held(r)
        OBVIOUS
      <4>1. id \in Queued(r)' \/ \E t \in Port : RoleOf(t) = r /\ id \in Taken(t)'
        BY <1>0 DEF Held
      <4>2. \A t \in Port : Taken(t)' \subseteq Taken(t)
        BY <2>2, <1>1
      <4>3. id \in Queued(r) \/ id \in Taken(p) \/ \E t \in Port : RoleOf(t) = r /\ id \in Taken(t)
        BY <4>1, <4>2, <2>1, <1>1
      <4> QED
        BY <4>3, <1>8 DEF Held
    <3>2. Held(r) \subseteq Held(r)'
      <4> SUFFICES ASSUME NEW id \in Held(r)
                   PROVE  id \in Held(r)'
        OBVIOUS
      <4>1. id \in Queued(r) \/ \E t \in Port : RoleOf(t) = r /\ id \in Taken(t)
        BY DEF Held
      <4>2. id \in Queued(r)' \/ \E t \in Port : RoleOf(t) = r /\ id \in Taken(t)'
        BY <4>1, <2>1, <2>2, <1>1
      <4> QED
        BY <4>2, <1>0 DEF Held
    <3>3. Held(r)' = Held(r)
      BY <3>1, <3>2
    <3> QED
      BY ZenonT(60), <3>3, <2>5 DEF Held, Queued, Taken
  <2> QED
    BY <2>4, <2>5
<1>16. \A s \in Role : QueueOK(queue'[s])
  BY <1>0, <1>3, <1>4 DEF TypeOK
<1> QED
  BY <1>4, <1>11, <1>12, <1>13, <1>14, <1>15, <1>16

-----------------------------------------------------------------------------
(* Steps that change only a part. *)

\* What is held in order is held once.
LEMMA HeldOnceStep ==
  ASSUME TypeOK, TypeOK', site' = site, HeldInv', QueueOrder', InOrder'
  PROVE  HeldOnce'
<1>0. Port' = Port /\ Role' = Role
  BY DEF Port, Role
<1>1. ASSUME NEW r \in Role, NEW j \in 1..queue'[r].len
      PROVE  Contents(queue'[r])[j].id \in Nat /\ Contents(queue'[r])[j] = offered'[Contents(queue'[r])[j].id]
  <2>1. Contents(queue'[r])[j].id \in Ids' /\ Contents(queue'[r])[j] = offered'[Contents(queue'[r])[j].id]
    BY <1>0 DEF HeldInv
  <2> QED
    BY <2>1 DEF Ids
<1>2. ASSUME NEW r \in Role, NEW i \in 1..queue'[r].len, NEW j \in 1..queue'[r].len,
             Contents(queue'[r])[i].id = Contents(queue'[r])[j].id, i < j
      PROVE  FALSE
  <2>1. Contents(queue'[r])[i] = Contents(queue'[r])[j] /\ Contents(queue'[r])[j].id \in Nat
    BY <1>1, <1>2
  <2>2. i \in 1..(j - 1)
    <3>1. QueueOK(queue'[r])
      BY <1>0 DEF TypeOK
    <3>2. queue'[r].len \in Nat
      BY <3>1, QueueItems
    <3> QED
      BY <3>2, <1>2
  <2>3. Contents(queue'[r])[i].id < Contents(queue'[r])[j].id
    BY <1>0, <2>1, <2>2 DEF QueueOrder
  <2> QED
    BY <2>1, <2>3
<1>3. \A r \in Role : \A i, j \in 1..queue'[r].len :
        Contents(queue'[r])[i].id = Contents(queue'[r])[j].id => i = j
  <2> SUFFICES ASSUME NEW r \in Role, NEW i \in 1..queue'[r].len, NEW j \in 1..queue'[r].len,
                      Contents(queue'[r])[i].id = Contents(queue'[r])[j].id, i # j
               PROVE  FALSE
    OBVIOUS
  <2>1. QueueOK(queue'[r])
    BY <1>0 DEF TypeOK
  <2>2. queue'[r].len \in Nat
    BY <2>1, QueueItems
  <2>3. i < j \/ j < i
    BY <2>2
  <2> QED
    BY <2>3, <1>2
<1>4. ASSUME NEW p \in Port
      PROVE  /\ consumed'[p] \in Seq(Nat) /\ DOMAIN consumed'[p] = 1..Len(consumed'[p])
             /\ \A k \in DOMAIN consumed'[p] :
                  /\ consumed'[p][k] \in Nat
                  /\ offered'[consumed'[p][k]].to = RoleOf(p) /\ offered'[consumed'[p][k]].lane = LaneOf(p)
  <2>1. consumed'[p] \in Seq(Nat)
    BY <1>0 DEF TypeOK
  <2> QED
    BY <2>1, <1>0 DEF HeldInv
<1>5. ASSUME NEW p \in Port, NEW q \in Port, NEW i \in DOMAIN consumed'[p], NEW j \in DOMAIN consumed'[q],
             consumed'[p][i] = consumed'[q][j]
      PROVE  p = q /\ i = j
  <2>1. p = q
    <3>1. RoleOf(p) = RoleOf(q) /\ LaneOf(p) = LaneOf(q)
      BY ZenonT(60), <1>4, <1>5
    <3> QED
      BY <3>1, PortIsPair
  <2>2. i \in Nat /\ j \in Nat /\ consumed'[p][i] \in Nat
    BY SMTT(40), <1>4
  <2>3. \A a, b \in DOMAIN consumed'[p] : a < b /\ consumed'[p][a] = consumed'[p][b]
          => consumed'[p][a] < consumed'[p][b]
    BY <1>0 DEF InOrder
  <2>4. ~(i < j)
    BY <2>1, <2>2, <2>3, <1>5
  <2>5. ~(j < i)
    BY <2>1, <2>2, <2>3, <1>5
  <2> QED
    BY <2>1, <2>2, <2>4, <2>5
<1>6. ASSUME NEW p \in Port, NEW k \in DOMAIN consumed'[p], NEW j \in 1..queue'[RoleOf(p)].len,
             consumed'[p][k] = Contents(queue'[RoleOf(p)])[j].id
      PROVE  FALSE
  <2>1. RoleOf(p) \in Role
    BY PortIsPair
  <2>2. /\ Contents(queue'[RoleOf(p)])[j].id \in Nat
        /\ Contents(queue'[RoleOf(p)])[j] = offered'[consumed'[p][k]]
    BY <2>1, <1>1, <1>6
  <2>3. LaneOf(p) = Contents(queue'[RoleOf(p)])[j].lane
    BY <2>2, <1>4
  <2>4. consumed'[p][k] < Contents(queue'[RoleOf(p)])[j].id
    BY <1>0, <2>1, <2>2, <2>3 DEF QueueOrder
  <2> QED
    BY <2>2, <2>4, <1>6
<1>7. \A p \in Port : Taken(p)' \cap Queued(RoleOf(p))' = {}
  BY <1>4, <1>6 DEF Taken, Queued
<1> QED
  BY <1>0, <1>3, <1>5, <1>7 DEF HeldOnce

\* The line is left alone.
LEMMA LineQuiet ==
  ASSUME FramesInv, TypeOK', OfferedKept, WritersGoOn, line' = line, torn' = torn
  PROVE  /\ SentInv' /\ LostInv' /\ SortedInv' /\ NeedInv'
         /\ \A m \in Machine : OnLine(m)' = OnLine(m)
<1>0. wire' = wire /\ rdr' = rdr /\ ring' = ring /\ parser' = parser
  BY DEF line
<1>1. \A m \in Machine : Unread(m)' = Unread(m) /\ OnLine(m)' = OnLine(m)
  BY <1>0 DEF Unread, OnLine
<1>2. SentInv' /\ LostInv'
  BY <1>1, LineStep
<1>3. ASSUME NEW m \in Machine, NEW b \in OnLine(m), NEW c \in OnLine(m), Before(b, c)
      PROVE  Before(b, c)'
  <2>1. (b.id # 0 => b.id \in Ids) /\ (c.id # 0 => c.id \in Ids)
    BY LineTypes
  <2> QED
    BY <2>1, <1>3 DEF OfferedKept, Before
<1>4. SortedInv'
  <2> SUFFICES ASSUME NEW m \in Machine
               PROVE  /\ \A i, j \in 1..Len(Unread(m)) : i < j => Before(Unread(m)[i], Unread(m)[j])'
                      /\ \A b \in BytesOf(parser[m].buf), c \in BytesOf(Unread(m)) : Before(b, c)'
    BY <1>0, <1>1 DEF SortedInv
  <2>1. \A i \in 1..Len(Unread(m)) : Unread(m)[i] \in OnLine(m)
    BY DEF OnLine, BytesOf
  <2>2. SortedInv
    BY DEF FramesInv
  <2>3. ASSUME NEW i \in 1..Len(Unread(m)), NEW j \in 1..Len(Unread(m)), i < j
        PROVE  Before(Unread(m)[i], Unread(m)[j])'
    <3>1. Before(Unread(m)[i], Unread(m)[j])
      BY <2>2, <2>3 DEF SortedInv
    <3>2. Unread(m)[i] \in OnLine(m) /\ Unread(m)[j] \in OnLine(m)
      BY <2>1
    <3> DEFINE b == Unread(m)[i]
               c == Unread(m)[j]
    <3>3. (b.id # 0 => b.id \in Ids) /\ (c.id # 0 => c.id \in Ids)
      BY <3>2, LineTypes
    <3>4. b' = b /\ c' = c
      BY <1>1
    <3> QED
      BY <3>1, <3>3, <3>4 DEF OfferedKept, Before
  <2>4. ASSUME NEW b \in BytesOf(parser[m].buf), NEW c \in BytesOf(Unread(m))
        PROVE  Before(b, c)'
    <3>1. Before(b, c)
      BY <2>2 DEF SortedInv
    <3>2. b \in OnLine(m) /\ c \in OnLine(m)
      BY DEF OnLine
    <3> QED
      BY <3>1, <3>2, <1>3
  <2> QED
    BY <2>3, <2>4
<1>5. NeedInv'
  <2> SUFFICES ASSUME NEW m \in Machine, Len(parser[m].buf) >= h, parser[m].buf[h].k = h
               PROVE  parser[m].need = TotalLen(LenOf(parser[m].buf[h].id)')
    BY <1>0 DEF NeedInv, h
  <2>1. parser[m].need = TotalLen(LenOf(parser[m].buf[h].id))
    BY DEF FramesInv, NeedInv, h
  <2>2. parser[m].buf[h] \in OnLine(m)
    <3>1. parser[m].buf \in Bytes
      BY UnreadType DEF FramesInv
    <3>2. h \in 1..Len(parser[m].buf)
      BY <3>1, Constants DEF h, Bytes
    <3> QED
      BY <3>2 DEF OnLine, BytesOf
  <2>3. parser[m].buf[h].id # 0 => parser[m].buf[h].id \in Ids
    BY <2>2, LineTypes
  <2> QED
    BY <1>0, <2>1, <2>3 DEF LenOf, OfferedKept
<1> QED
  BY <1>1, <1>2, <1>4, <1>5

\* The queues and the ports are left alone.
LEMMA HoldQuiet ==
  ASSUME FramesInv, TypeOK', OfferedKept, queue' = queue, rx' = rx, consumed' = consumed,
         \A m \in Machine : \A b \in OnLine(m)' :
           \/ b \in OnLine(m)
           \/ \E p \in Port : outgoing[p] # None /\ b.id = outgoing[p].id,
         \A b \in torn' : \/ b \in torn
                          \/ \E m \in Machine : b \in OnLine(m)
                          \/ \E p \in Port : outgoing[p] # None /\ b.id = outgoing[p].id,
         \A p \in Port : outgoing'[p] # None =>
           outgoing'[p].id \notin Ids \/ outgoing'[p] = outgoing[p]
  PROVE  HeldInv' /\ QueueOrder' /\ InOrder' /\ SlotInv' /\ HeldOnce' /\ IntactFrames' /\ NewerInv'
<1>1. /\ HeldInv' /\ QueueOrder' /\ InOrder' /\ SlotInv'
      /\ \A r \in Role : Held(r)' = Held(r)
  BY HoldUnchanged
<1>2. ASSUME NEW r \in Role, NEW id \in Held(r)
      PROVE  Safe(r, id)'
  <2>1. Safe(r, id)
    BY HeldIsSafe
  <2> QED
    BY <2>1, SafeStep
<1>3. site' = site /\ Role' = Role
  BY DEF OfferedKept, Role, Port
<1>4. IntactFrames' /\ NewerInv'
  BY <1>1, <1>2, <1>3, SafeIsHeld
<1>5. HeldOnce'
  BY <1>1, <1>3, HeldOnceStep DEF FramesInv
<1> QED
  BY <1>1, <1>4, <1>5

-----------------------------------------------------------------------------
(* The actions. *)

\* A frame that somebody sent, and what was offered stays as it is.
LEMMA SentFrame ==
  ASSUME OfferedInv, NEW id \in Ids, ~Misread(id)
  PROVE  /\ <<offered[id].from, offered[id].to>> \in site.flow
         /\ <<offered[id].from, offered[id].lane>> \in Port /\ <<offered[id].to, offered[id].lane>> \in Port
  BY DEF OfferedInv

LEMMA SameOffered ==
  ASSUME OfferedInv, site' = site, offered' = offered
  PROVE  OfferedInv'
  BY DEF OfferedInv, Ids, Role, Port, Misread

\* All that has to be shown of a step.
LEMMA Together ==
  ASSUME TypeOK', IntactFrames', HeldOnce', InOrder', OfferedInv', OutgoingInv', BusyInv',
         SentInv', SortedInv', LostInv', NeedInv', HeldInv', NewerInv', QueueOrder', SlotInv'
  PROVE  FramesInv'
  BY DEF FramesInv

\* Hibana starts a send.
LEMMA BeginSendKeeps ==
  ASSUME FramesInv, NEW p \in Port, NEW to \in Role, NEW len \in site.lens, BeginSend(p, to, len)
  PROVE  FramesInv'
<1> DEFINE id == Len(offered) + 1
           f == [id |-> id, from |-> RoleOf(p), to |-> to, lane |-> LaneOf(p), len |-> len]
<1>0. TypeOK /\ OfferedInv /\ OutgoingInv /\ BusyInv
  BY DEF FramesInv
<1>1. /\ Quiet(RoleOf(p)) /\ <<RoleOf(p), to>> \in site.flow /\ <<to, LaneOf(p)>> \in Port
      /\ outgoing' = [outgoing EXCEPT ![p] = f] /\ offered' = Append(offered, f)
      /\ site' = site /\ line' = line /\ queue' = queue /\ rx' = rx /\ busy' = busy /\ fault' = fault
      /\ accepted' = accepted /\ consumed' = consumed /\ torn' = torn /\ overflow' = overflow
      /\ losses' = losses
  BY DEF BeginSend, NextId
<1>2. Port' = Port /\ Role' = Role
  BY <1>1 DEF Port, Role
<1>3. f \in Frame
  <2>1. site.lens \subseteq PayloadLen
    BY <1>0, UartAssumption DEF TypeOK
  <2>2. Len(offered) \in Nat /\ id \in Nat \ {0}
    BY <1>0 DEF TypeOK
  <2>3. PICK q \in Port : to = RoleOf(q)
    BY DEF Role, RoleOf
  <2>4. to \in 0..4 /\ RoleOf(p) \in 0..4 /\ LaneOf(p) \in Nat
    BY <1>0, <2>3, PortIsPair
  <2>5. RoleOf(p) \in 0..Nobody
    BY <2>4 DEF Nobody, PROOF_CARRIER_ROLES
  <2> HIDE DEF id
  <2> QED
    BY <2>1, <2>2, <2>4, <2>5 DEF Frame
<1>4. f.id = id /\ f.from = RoleOf(p) /\ f.to = to /\ f.lane = LaneOf(p)
  OBVIOUS
<1>5. Len(offered) \in Nat /\ id = Len(offered) + 1
  BY <1>0 DEF TypeOK
<1> HIDE DEF f, id
<1>6. /\ offered' \in Seq(Frame) /\ Len(offered') = id /\ offered'[id] = f
      /\ \A i \in Ids : i \in Ids' /\ offered'[i] = offered[i]
      /\ \A i \in Ids' : i \in Ids \/ i = id
      /\ id \notin Ids /\ id \in Ids'
  <2>1. offered \in Seq(Frame)
    BY <1>0 DEF TypeOK
  <2>2. /\ offered' \in Seq(Frame) /\ Len(offered') = id /\ offered'[id] = f
        /\ \A i \in 1..Len(offered) : offered'[i] = offered[i]
    BY <2>1, <1>1, <1>3, <1>5
  <2> QED
    BY <2>2, <1>5 DEF Ids
<1>7. OfferedKept
  BY <1>1, <1>6 DEF OfferedKept
<1>8. \A q \in Port : outgoing'[q] = IF q = p THEN f ELSE outgoing[q]
  BY <1>0, <1>1 DEF TypeOK
<1>9. \A q \in Port : RoleOf(q) = RoleOf(p) => outgoing[q] = None
  BY <1>1 DEF Quiet
<1>10. TypeOK'
  <2>1. outgoing' \in [Port -> Frame \cup {None}]
    BY <1>0, <1>1, <1>3 DEF TypeOK
  <2>2. accepted \subseteq Ids'
    BY <1>0, <1>6 DEF TypeOK
  <2>3. Writes' = Writes /\ Drains' = Drains
    BY <1>2 DEF Writes, Drains
  <2> QED
    BY <1>0, <1>1, <1>2, <1>6, <2>1, <2>2, <2>3 DEF TypeOK, line
<1>11. WritersGoOn
  <2> SUFFICES ASSUME NEW q \in Port, outgoing'[q] # None, q # p, NEW m \in Machine, Writing(m)
               PROVE  busy[m].next <= busy'[m].next /\ Writing(m)'
    BY <1>1, <1>4, <1>6, <1>8 DEF WritersGoOn
  <2>1. busy[m].next \in Nat
    BY <1>0 DEF TypeOK, Writing, Writes, Drains
  <2> QED
    BY <2>1, <1>1 DEF Writing
<1>12. OfferedInv'
  <2> SUFFICES ASSUME NEW i \in Ids'
               PROVE  LET g == offered'[i]
                      IN  /\ g.id = i /\ g.to \in Role
                          /\ IF g.from = Nobody THEN site.kind = "uart"
                             ELSE /\ <<g.from, g.to>> \in site.flow
                                  /\ <<g.from, g.lane>> \in Port /\ <<g.to, g.lane>> \in Port
    BY <1>1, <1>2 DEF OfferedInv, Misread
  <2>1. CASE i \in Ids
    BY <2>1, <1>0, <1>6 DEF OfferedInv, Misread
  <2>2. CASE i = id
    <3>1. <<RoleOf(p), LaneOf(p)>> \in Port
      <4>1. p \in (0..4) \X Nat
        BY <1>0, UartAssumption DEF TypeOK, Port
      <4> QED
        BY <4>1 DEF RoleOf, LaneOf
    <3>2. RoleOf(p) # Nobody
      <4>1. RoleOf(p) \in 0..4
        BY <1>0, PortIsPair
      <4> QED
        BY <4>1 DEF Nobody, PROOF_CARRIER_ROLES
    <3> QED
      BY <2>2, <3>1, <3>2, <1>1, <1>4, <1>6
  <2> QED
    BY <2>1, <2>2, <1>6
<1>13. OutgoingInv'
  <2> SUFFICES ASSUME NEW q \in Port, outgoing'[q] # None
               PROVE  /\ outgoing'[q].id \in Ids' /\ outgoing'[q] = offered'[outgoing'[q].id]
                      /\ outgoing'[q].from = RoleOf(q) /\ outgoing'[q].lane = LaneOf(q)
                      /\ \A i \in Ids' : offered'[i].from = RoleOf(q) => i <= outgoing'[q].id
                      /\ \A t \in Port : outgoing'[t] # None /\ RoleOf(t) = RoleOf(q) => t = q
    BY <1>2 DEF OutgoingInv
  <2>1. CASE q = p
    <3>1. \A i \in Ids' : i <= id
      BY <1>5, <1>6 DEF Ids
    <3>2. \A t \in Port : outgoing'[t] # None /\ RoleOf(t) = RoleOf(p) => t = p
      BY <1>8, <1>9
    <3> QED
      BY <2>1, <3>1, <3>2, <1>4, <1>6, <1>8
  <2>2. CASE q # p
    <3>1. outgoing'[q] = outgoing[q] /\ RoleOf(q) # RoleOf(p)
      BY <2>2, <1>8, <1>9
    <3>2. ASSUME NEW i \in Ids', offered'[i].from = RoleOf(q)
          PROVE  i <= outgoing[q].id
      <4>1. i # id
        BY <3>1, <3>2, <1>4, <1>6
      <4> QED
        BY <3>1, <3>2, <4>1, <1>0, <1>6 DEF OutgoingInv
    <3>3. \A t \in Port : outgoing'[t] # None /\ RoleOf(t) = RoleOf(q) => t = q
      BY <3>1, <1>0, <1>8 DEF OutgoingInv
    <3>4. outgoing[q].id \in Ids /\ outgoing[q] = offered[outgoing[q].id]
          /\ outgoing[q].from = RoleOf(q) /\ outgoing[q].lane = LaneOf(q)
      BY <3>1, <1>0 DEF OutgoingInv
    <3> QED
      BY <3>1, <3>2, <3>3, <3>4, <1>6
  <2> QED
    BY <2>1, <2>2
<1>14. BusyInv'
  <2> SUFFICES ASSUME NEW m \in Machine, busy[m] # None, busy[m].op = "write"
               PROVE  outgoing'[busy[m].port] = outgoing[busy[m].port]
    BY <1>0, <1>1, <1>2 DEF BusyInv, HostOf, line
  <2>1. busy[m].port \in Port /\ outgoing[busy[m].port] # None
    BY <1>0 DEF BusyInv, TypeOK, Writes, Drains
  <2> QED
    BY <2>1, <1>8, <1>9
<1>15. /\ SentInv' /\ LostInv' /\ SortedInv' /\ NeedInv'
       /\ \A m \in Machine : OnLine(m)' = OnLine(m)
  BY <1>1, <1>7, <1>10, <1>11, LineQuiet
<1>16. HeldInv' /\ QueueOrder' /\ InOrder' /\ SlotInv' /\ HeldOnce' /\ IntactFrames' /\ NewerInv'
  <2>1. \A q \in Port : outgoing'[q] # None =>
           outgoing'[q].id \notin Ids \/ outgoing'[q] = outgoing[q]
    BY <1>4, <1>6, <1>8
  <2> QED
    BY <2>1, <1>1, <1>7, <1>10, <1>15, HoldQuiet
<1> QED
  BY <1>10, <1>12, <1>13, <1>14, <1>15, <1>16, Together

\* A port of the frame's role on its lane.
LEMMA OutgoingFrame ==
  ASSUME FramesInv, NEW p \in Port, outgoing[p] # None
  PROVE  LET f == outgoing[p]
         IN  /\ f \in Frame /\ f.id \in Ids /\ f.id # 0 /\ f = offered[f.id]
             /\ f.from = RoleOf(p) /\ f.lane = LaneOf(p) /\ f.to \in Role /\ f.from # f.to
             /\ f.from # Nobody
             /\ f.len \in Nat /\ TotalLen(f.len) \in Nat /\ TotalLen(f.len) > h
<1>1. outgoing[p] \in Frame
  BY DEF FramesInv, TypeOK
<1>2. /\ outgoing[p].id \in Ids /\ outgoing[p] = offered[outgoing[p].id]
      /\ outgoing[p].from = RoleOf(p) /\ outgoing[p].lane = LaneOf(p)
  BY DEF FramesInv, OutgoingInv
<1>3. outgoing[p].from # Nobody
  <2>1. RoleOf(p) \in 0..4
    BY PortIsPair DEF FramesInv
  <2> QED
    BY <2>1, <1>2 DEF Nobody, PROOF_CARRIER_ROLES
<1>4. <<outgoing[p].to, outgoing[p].lane>> \in Port /\ <<outgoing[p].from, outgoing[p].to>> \in site.flow
  <2>1. ~Misread(outgoing[p].id)
    BY <1>2, <1>3 DEF Misread
  <2> QED
    BY <1>2, <2>1, SentFrame DEF FramesInv
<1>5. outgoing[p].to \in Role
  BY <1>4 DEF Role
<1>6. outgoing[p].from # outgoing[p].to
  BY <1>4, UartAssumption DEF FramesInv, TypeOK
<1>7. outgoing[p].len \in Nat
  <2>1. outgoing[p].len \in PayloadLen
    BY <1>1 DEF Frame
  <2> QED
    BY <2>1, Constants, Zenon
<1>8. TotalLen(outgoing[p].len) \in Nat /\ TotalLen(outgoing[p].len) > h
  BY <1>7, Constants DEF TotalLen, h
<1> QED
  BY <1>1, <1>2, <1>3, <1>5, <1>6, <1>7, <1>8 DEF Ids

\* A step that ends the send of a port no machine is writing for.
LEMMA SendEnds ==
  ASSUME FramesInv, NEW p \in Port, outgoing[p] # None,
         \A m \in Machine : Writing(m)' => Writing(m) /\ busy'[m].port = busy[m].port
                                           /\ busy'[m].next = busy[m].next /\ busy[m].port # p,
         outgoing' = [outgoing EXCEPT ![p] = None],
         site' = site, offered' = offered
  PROVE  OfferedInv' /\ OutgoingInv' /\ \A q \in Port : outgoing'[q] = IF q = p THEN None ELSE outgoing[q]
<1>0. Port' = Port /\ Ids' = Ids /\ OfferedInv /\ OutgoingInv
  BY DEF Port, Ids, FramesInv
<1>1. \A q \in Port : outgoing'[q] = IF q = p THEN None ELSE outgoing[q]
  BY DEF FramesInv, TypeOK
<1>2. OfferedInv'
  BY <1>0, SameOffered
<1>3. OutgoingInv'
  BY <1>0, <1>1 DEF OutgoingInv
<1> QED
  BY <1>1, <1>2, <1>3

\* The host sends through a queue.
LEMMA QueueSendKeeps ==
  ASSUME FramesInv, NEW p \in Port, outgoing[p] # None, Idle("host"),
         site.kind = "uart" => HostOf(RoleOf(p)) = "host" /\ HostOf(outgoing[p].to) = "host",
         site' = site, line' = line, rx' = rx, busy' = busy, offered' = offered, consumed' = consumed,
         torn' = torn,
         outgoing' = [outgoing EXCEPT ![p] = None],
         LET f == outgoing[p]
         IN  \/ /\ fault' = fault \cup {"host"} /\ overflow' = TRUE
                /\ queue' = queue /\ accepted' = accepted
             \/ /\ ~Full(queue[f.to]) /\ (site.kind = "split" => OnLane(queue[f.to], f.lane) = {})
                /\ queue' = [queue EXCEPT ![f.to] = PushBack(queue[f.to], f)]
                /\ accepted' = accepted \cup {f.id}
                /\ fault' = fault /\ overflow' = overflow
  PROVE  FramesInv'
<1>0. TypeOK /\ OfferedInv /\ OutgoingInv /\ BusyInv
  BY DEF FramesInv
<1>1. PICK f \in Frame : /\ f = outgoing[p] /\ f.id \in Ids /\ f.id # 0 /\ f = offered[f.id]
                         /\ f.from = RoleOf(p) /\ f.lane = LaneOf(p) /\ f.to \in Role
  BY OutgoingFrame
<1>2. Port' = Port /\ Role' = Role /\ Ids' = Ids /\ Writes' = Writes /\ Drains' = Drains
  BY DEF Port, Role, Ids, Writes, Drains
<1>3. \A m \in Machine : Writing(m) => busy[m].port \in Port /\ busy[m].port # p /\ busy[m].next \in Nat
  <2> TAKE m \in Machine
  <2> HAVE Writing(m)
  <2>1. busy[m].port \in Port /\ busy[m].next \in Nat
    BY <1>0 DEF TypeOK, Writing, Writes, Drains
  <2>2. site.kind = "uart" /\ HostOf(RoleOf(busy[m].port)) = m
    BY <1>0 DEF BusyInv, Writing
  <2>3. busy["host"] = None
    BY DEF Idle
  <2>4. m # "host"
    BY <2>3 DEF Writing
  <2> QED
    BY <2>1, <2>2, <2>4
<1>4. /\ OfferedInv' /\ OutgoingInv'
      /\ \A q \in Port : outgoing'[q] = IF q = p THEN None ELSE outgoing[q]
  BY <1>3, SendEnds DEF Writing
<1>5. OfferedKept
  BY <1>2 DEF OfferedKept
<1>6. WritersGoOn
  BY <1>3, <1>4 DEF WritersGoOn, Writing
<1>7. BusyInv'
  <2>1. \A m \in Machine : Writing(m) => outgoing'[busy[m].port] = outgoing[busy[m].port]
    BY <1>3, <1>4
  <2> QED
    BY <2>1, <1>0, <1>2 DEF BusyInv, HostOf, line, Writing
<1>8. ASSUME DOMAIN queue' = Role, \A s \in Role : QueueOK(queue'[s])
      PROVE  TypeOK'
  <2>1. outgoing' \in [Port -> Frame \cup {None}]
    BY <1>0 DEF TypeOK
  <2>2. accepted' \subseteq Ids /\ fault' \subseteq Machine /\ overflow' \in BOOLEAN
    BY <1>0, <1>1 DEF TypeOK, Machine
  <2> QED
    BY <1>0, <1>2, <1>8, <2>1, <2>2 DEF TypeOK, line
<1>9. \A q \in Port : outgoing'[q] # None => outgoing'[q].id \notin Ids \/ outgoing'[q] = outgoing[q]
  BY <1>4
<1>10. CASE queue' = queue
  <2>1. TypeOK'
    BY <1>8, <1>10, <1>0 DEF TypeOK
  <2>2. /\ SentInv' /\ LostInv' /\ SortedInv' /\ NeedInv'
        /\ \A m \in Machine : OnLine(m)' = OnLine(m)
    BY <2>1, <1>5, <1>6, LineQuiet
  <2>3. HeldInv' /\ QueueOrder' /\ InOrder' /\ SlotInv' /\ HeldOnce' /\ IntactFrames' /\ NewerInv'
    BY <2>1, <2>2, <1>5, <1>9, <1>10, HoldQuiet
  <2> QED
    BY <2>1, <2>2, <2>3, <1>4, <1>7, Together
<1>11. CASE /\ ~Full(queue[f.to]) /\ (site.kind = "split" => OnLane(queue[f.to], f.lane) = {})
            /\ queue' = [queue EXCEPT ![f.to] = PushBack(queue[f.to], f)]
  <2>0. ASSUME NEW id \in Held(f.to), offered[id].from = f.from
        PROVE  id < f.id
    <3>1. Safe(f.to, id)
      BY <1>1, HeldIsSafe
    <3> QED
      BY <3>1, <2>0, <1>1 DEF Safe
  <2>1. /\ HeldInv' /\ QueueOrder' /\ InOrder' /\ SlotInv'
        /\ Held(f.to)' = Held(f.to) \cup {f.id} /\ \A s \in Role : s # f.to => Held(s)' = Held(s)
        /\ DOMAIN queue' = Role /\ \A s \in Role : QueueOK(queue'[s])
    <3>1. f.to \in Role
      BY <1>1
    <3>2. /\ f.id \in Ids' /\ f = offered'[f.id] /\ OfferedKept
          /\ \A id \in Held(f.to) : offered[id].from = f.from => id < f.id
      BY <1>1, <1>2, <1>5, <2>0
    <3> QED
      BY <3>1, <3>2, <1>11, HoldPush
  <2>2. TypeOK'
    BY <2>1, <1>8
  <2>3. /\ SentInv' /\ LostInv' /\ SortedInv' /\ NeedInv'
        /\ \A m \in Machine : OnLine(m)' = OnLine(m)
    BY <2>2, <1>5, <1>6, LineQuiet
  <2>4. ASSUME NEW m \in Machine, NEW b, SentTo(m, b), b.id # 0, offered[b.id].from = f.from, offered[b.id].to = f.to
        PROVE  FALSE
    <3>1. site.kind = "uart" /\ HostOf(f.from) = Other(m) /\ HostOf(f.to) = m
      BY <2>4 DEF SentTo
    <3>2. HostOf(f.from) = "host" /\ HostOf(f.to) = "host"
      BY <3>1, <1>1
    <3> QED
      BY <3>1, <3>2 DEF Other
  <2>5. Safe(f.to, f.id)'
    <3>1. f.id \in Ids' /\ offered'[f.id] = f
      BY <1>1, <1>2
    <3>2. ~Lost(f.id)'
      <4> SUFFICES ASSUME NEW k, Byte(f.id, k) \in torn
                   PROVE  FALSE
        BY <1>2 DEF Lost
      <4>1. PICK m \in Machine : SentTo(m, Byte(f.id, k))
        BY DEF FramesInv, SentInv
      <4>2. Byte(f.id, k).id = f.id
        BY DEF Byte
      <4> QED
        BY <4>1, <4>2, <2>4, <1>1
    <3>3. ASSUME NEW m \in Machine, NEW b \in OnLine(m)', b.id # 0,
                 offered'[b.id].from = f.from, offered'[b.id].to = f.to
          PROVE  FALSE
      <4>1. b \in OnLine(m)
        BY <2>3
      <4>2. SentTo(m, b)
        BY <4>1, LineTypes
      <4> QED
        BY <4>2, <3>3, <2>4
    <3>4. ASSUME NEW q \in Port, outgoing'[q] # None, RoleOf(q) = f.from
          PROVE  FALSE
      <4>1. q # p /\ outgoing[q] # None /\ RoleOf(q) = RoleOf(p)
        BY <3>4, <1>1, <1>4
      <4> QED
        BY <4>1, <1>0 DEF OutgoingInv
    <3> QED
      BY <3>1, <3>2, <3>3, <3>4, <1>2 DEF Safe
  <2>6. ASSUME NEW s \in Role, NEW id \in Held(s)
        PROVE  Safe(s, id)'
    <3>1. Safe(s, id)
      BY HeldIsSafe
    <3> QED
      BY <3>1, <2>2, <2>3, <1>5, <1>9, SafeStep
  <2>7. IntactFrames' /\ NewerInv'
    <3>1. \A s \in Role' : \A id \in Held(s)' : Safe(s, id)'
      BY <2>1, <2>5, <2>6, <1>2
    <3> QED
      BY <3>1, SafeIsHeld
  <2>8. HeldOnce'
    BY <2>1, <2>2, <1>0, HeldOnceStep
  <2> QED
    BY <2>1, <2>2, <2>3, <2>7, <2>8, <1>4, <1>7, Together
<1> QED
  BY <1>1, <1>10, <1>11

\* The slots of a role's edge are in a queue with room for all of them.
LEMMA SlotFree ==
  ASSUME FramesInv, site.kind = "split", NEW r \in Role, NEW lane \in QueueSlots,
         OnLane(queue[r], lane) = {}
  PROVE  ~Full(queue[r])
<1> DEFINE D == PROOF_CARRIER_QUEUE_DEPTH
           q == queue[r]
           g == [i \in 1..(D + 1) |-> IF i = D + 1 THEN lane ELSE Contents(q)[i].lane]
<1>0. D \in Nat \ {0} /\ TypeOK /\ HeldInv /\ OfferedInv /\ SlotInv
  BY Constants DEF FramesInv
<1> SUFFICES ASSUME q.len = D
             PROVE  FALSE
  BY DEF Full
<1>1. ASSUME NEW i \in 1..D
      PROVE  Contents(q)[i].lane \in QueueSlots /\ Contents(q)[i].lane # lane
  <2>1. Contents(q)[i].id \in Ids /\ Contents(q)[i] = offered[Contents(q)[i].id]
    BY <1>0 DEF HeldInv
  <2>2. <<Contents(q)[i].to, Contents(q)[i].lane>> \in Port
    BY <1>0, <2>1 DEF OfferedInv, Misread
  <2>3. Contents(q)[i].lane \in QueueSlots
    BY <1>0, <2>2, PortIsPair DEF LaneOf
  <2>4. i - 1 \in 0..(q.len - 1)
    BY <1>0
  <2>5. Contents(q)[i].lane # lane
    BY <2>4, <1>0 DEF OnLane, Contents
  <2> QED
    BY <2>3, <2>5
<1>2. g \in [1..(D + 1) -> QueueSlots]
  <2> SUFFICES ASSUME NEW i \in 1..(D + 1)
               PROVE  (IF i = D + 1 THEN lane ELSE Contents(q)[i].lane) \in QueueSlots
    OBVIOUS
  <2>1. i # D + 1 => i \in 1..D
    BY <1>0
  <2> QED
    BY <2>1, <1>1
<1>3. /\ IsFiniteSet(1..(D + 1)) /\ IsFiniteSet(QueueSlots)
      /\ Cardinality(QueueSlots) < Cardinality(1..(D + 1))
  <2>1. /\ IsFiniteSet(1..(D + 1))
        /\ Cardinality(1..(D + 1)) = IF 1 > D + 1 THEN 0 ELSE (D + 1) - 1 + 1
    BY <1>0, FS_Interval
  <2>2. /\ IsFiniteSet(0..(D - 1))
        /\ Cardinality(0..(D - 1)) = IF 0 > D - 1 THEN 0 ELSE (D - 1) - 0 + 1
    BY <1>0, FS_Interval
  <2> QED
    BY <1>0, <2>1, <2>2 DEF QueueSlots
<1>4. PICK i, j \in 1..(D + 1) : i # j /\ g[i] = g[j]
  <2> DEFINE S == 1..(D + 1)
  <2>1. IsFiniteSet(S) /\ IsFiniteSet(QueueSlots) /\ Cardinality(QueueSlots) < Cardinality(S)
    BY <1>3
  <2>2. g \in [S -> QueueSlots]
    BY <1>2
  <2> HIDE DEF g, S
  <2>3. \E x, y \in S : x # y /\ g[x] = g[y]
    BY <2>1, <2>2, FS_PigeonHole
  <2> QED
    BY <2>3 DEF S
<1>5. (i = D + 1 \/ i \in 1..D) /\ (j = D + 1 \/ j \in 1..D)
  BY <1>0
<1>6. CASE i \in 1..D /\ j \in 1..D
  <2>1. Contents(q)[i].lane = Contents(q)[j].lane
    BY <1>0, <1>4, <1>6
  <2> QED
    BY <2>1, <1>0, <1>4, <1>6 DEF SlotInv
<1>7. CASE i = D + 1 \/ j = D + 1
  BY <1>0, <1>1, <1>4, <1>5, <1>7
<1> QED
  BY <1>5, <1>6, <1>7

\* SendThroughQueue and the step of the split carrier, as QueueSendKeeps has it.
LEMMA SendThroughQueueKeeps ==
  ASSUME FramesInv, NEW p \in Port, HostPollSendLocal(p) \/ ProofPollSend(p)
  PROVE  FramesInv'
<1>1. /\ Idle("host") /\ outgoing[p] # None /\ SendThroughQueue(p)
      /\ site' = site /\ line' = line /\ rx' = rx /\ busy' = busy /\ offered' = offered
      /\ consumed' = consumed /\ torn' = torn
  BY DEF HostPollSendLocal, ProofPollSend
<1>2. site.kind = "uart" => HostOf(RoleOf(p)) = "host" /\ HostOf(outgoing[p].to) = "host"
  BY DEF HostPollSendLocal, ProofPollSend, HostOf
<1>3. site.kind # "split"
  BY DEF HostPollSendLocal, ProofPollSend
<1>4. CASE Full(queue[outgoing[p].to])
  <2>1. /\ fault' = fault \cup {"host"} /\ overflow' = TRUE
        /\ outgoing' = [outgoing EXCEPT ![p] = None]
        /\ queue' = queue /\ accepted' = accepted
    BY <1>1, <1>4 DEF SendThroughQueue
  <2> QED
    BY <2>1, <1>1, <1>2, QueueSendKeeps
<1>5. CASE ~Full(queue[outgoing[p].to])
  <2>1. /\ queue' = [queue EXCEPT ![outgoing[p].to] = PushBack(queue[outgoing[p].to], outgoing[p])]
        /\ outgoing' = [outgoing EXCEPT ![p] = None]
        /\ accepted' = accepted \cup {outgoing[p].id}
        /\ fault' = fault /\ overflow' = overflow
    BY <1>1, <1>5 DEF SendThroughQueue, Finish
  <2> QED
    BY <2>1, <1>1, <1>2, <1>3, <1>5, QueueSendKeeps
<1> QED
  BY <1>4, <1>5

\* A send to the slot of an edge.
LEMMA SplitPollSendKeeps ==
  ASSUME FramesInv, NEW p \in Port, SplitPollSend(p)
  PROVE  FramesInv'
<1>1. /\ Idle("host") /\ outgoing[p] # None /\ site.kind = "split"
      /\ site' = site /\ line' = line /\ rx' = rx /\ busy' = busy /\ offered' = offered
      /\ consumed' = consumed /\ torn' = torn
  BY DEF SplitPollSend
<1>2. CASE SlotReady(outgoing[p])
  <2>1. /\ fault' = fault \cup {"host"} /\ overflow' = TRUE
        /\ outgoing' = [outgoing EXCEPT ![p] = None]
        /\ queue' = queue /\ accepted' = accepted
    BY <1>2 DEF SplitPollSend
  <2> QED
    BY <2>1, <1>1, QueueSendKeeps
<1>3. CASE ~SlotReady(outgoing[p])
  <2>1. /\ queue' = [queue EXCEPT ![outgoing[p].to] = PushBack(queue[outgoing[p].to], outgoing[p])]
        /\ outgoing' = [outgoing EXCEPT ![p] = None]
        /\ accepted' = accepted \cup {outgoing[p].id}
        /\ fault' = fault /\ overflow' = overflow
    BY <1>3 DEF SplitPollSend, Finish
  <2>2. OnLane(queue[outgoing[p].to], outgoing[p].lane) = {}
    BY <1>3 DEF SlotReady
  <2>3. outgoing[p].to \in Role /\ outgoing[p].lane = LaneOf(p)
    BY <1>1, OutgoingFrame
  <2>4. LaneOf(p) \in QueueSlots
    BY <1>1, PortIsPair DEF FramesInv
  <2>5. ~Full(queue[outgoing[p].to])
    BY <2>2, <2>3, <2>4, <1>1, SlotFree
  <2> QED
    BY <2>1, <2>2, <2>5, <1>1, QueueSendKeeps
<1> QED
  BY <1>2, <1>3

-----------------------------------------------------------------------------
(* The polls that only take up or leave off work. *)

\* A poll begins to write.
LEMMA StartWritingKeeps ==
  ASSUME FramesInv, NEW p \in Port, HostPollSend(p) \/ M33PollSend(p)
  PROVE  FramesInv'
<1>0. TypeOK /\ OfferedInv /\ OutgoingInv /\ BusyInv
  BY DEF FramesInv
<1>1. PICK m \in Machine : StartWriting(p, m) /\ HostOf(RoleOf(p)) = m /\ site.kind = "uart"
                           /\ HostOf(outgoing[p].to) = Other(m)
  <2>1. CASE HostPollSend(p)
    BY <2>1 DEF HostPollSend, Machine, HostOf, Other
  <2>2. CASE M33PollSend(p)
    <3>1. outgoing[p] # None /\ StartWriting(p, "m33") /\ HostOf(RoleOf(p)) = "m33"
      BY <2>2 DEF M33PollSend, StartWriting
    <3>2. site.kind = "uart" /\ RoleOf(p) = ROLE_M33_LED_KERNEL
      BY <3>1 DEF HostOf
    <3>3. outgoing[p].to # ROLE_M33_LED_KERNEL
      BY <3>1, <3>2, OutgoingFrame
    <3> QED
      BY <3>1, <3>2, <3>3 DEF Machine, HostOf, Other
  <2> QED
    BY <2>1, <2>2
<1>2. /\ busy[m] = None /\ outgoing[p] # None
      /\ busy' = [busy EXCEPT ![m] = [op |-> "write", port |-> p, next |-> 1]]
      /\ site' = site /\ line' = line /\ queue' = queue /\ outgoing' = outgoing /\ rx' = rx
      /\ fault' = fault /\ offered' = offered /\ accepted' = accepted /\ consumed' = consumed
      /\ torn' = torn /\ overflow' = overflow /\ losses' = losses
  BY <1>1 DEF StartWriting, Idle
<1>3. Port' = Port /\ Role' = Role /\ Ids' = Ids /\ Writes' = Writes /\ Drains' = Drains
  BY <1>2 DEF Port, Role, Ids, Writes, Drains
<1>4. \A n \in Machine : busy'[n] = IF n = m THEN [op |-> "write", port |-> p, next |-> 1] ELSE busy[n]
  BY <1>0, <1>2 DEF TypeOK
<1>5. [op |-> "write", port |-> p, next |-> 1] \in Writes
  BY DEF Writes
<1>6. busy' \in [Machine -> Writes \cup Drains \cup {None}]
  BY <1>0, <1>2, <1>5 DEF TypeOK
<1>7. TypeOK'
  BY <1>0, <1>2, <1>3, <1>6 DEF TypeOK, line
<1>8. OfferedInv' /\ OutgoingInv'
  BY <1>0, <1>2, <1>3, SameOffered DEF OutgoingInv
<1>9. BusyInv'
  <2> SUFFICES ASSUME NEW n \in Machine, busy'[n] # None
               PROVE  /\ site.kind = "uart" /\ HostOf(RoleOf(busy'[n].port)) = n
                      /\ busy'[n].op = "write" => LET f == outgoing[busy'[n].port]
                                                 IN  /\ f # None /\ HostOf(f.to) = Other(n)
                                                     /\ busy'[n].next \in 1..TotalLen(f.len)
                      /\ busy'[n].op = "drain" /\ n = "host" => busy'[n].left <= Len(wire["host"])
    BY <1>2 DEF BusyInv, HostOf, line
  <2>1. CASE n = m
    <3>1. busy'[n].port = p /\ busy'[n].op = "write" /\ busy'[n].next = 1
      BY <2>1, <1>4
    <3>2. TotalLen(outgoing[p].len) \in Nat /\ TotalLen(outgoing[p].len) > h /\ h \in Nat
      BY <1>2, OutgoingFrame, Constants DEF h
    <3>3. 1 \in 1..TotalLen(outgoing[p].len)
      BY <3>2
    <3> QED
      BY <2>1, <3>1, <3>3, <1>1, <1>2
  <2>2. CASE n # m
    BY <2>2, <1>0, <1>4 DEF BusyInv
  <2> QED
    BY <2>1, <2>2
<1>10. OfferedKept
  BY <1>2, <1>3 DEF OfferedKept
<1>11. WritersGoOn
  <2> SUFFICES ASSUME NEW n \in Machine, Writing(n)
               PROVE  busy'[n] = busy[n] /\ busy[n].next \in Nat
    BY <1>2 DEF WritersGoOn, Writing
  <2>1. n # m
    BY <1>2 DEF Writing
  <2> QED
    BY <2>1, <1>0, <1>4 DEF TypeOK, Writing, Writes, Drains
<1>12. /\ SentInv' /\ LostInv' /\ SortedInv' /\ NeedInv'
       /\ \A n \in Machine : OnLine(n)' = OnLine(n)
  BY <1>2, <1>7, <1>10, <1>11, LineQuiet
<1>13. HeldInv' /\ QueueOrder' /\ InOrder' /\ SlotInv' /\ HeldOnce' /\ IntactFrames' /\ NewerInv'
  BY <1>2, <1>7, <1>10, <1>12, HoldQuiet
<1> QED
  BY <1>7, <1>8, <1>9, <1>12, <1>13, Together

\* A step away from the line that sends nothing and holds nothing new.
LEMMA PollStep ==
  ASSUME FramesInv, site' = site, line' = line, outgoing' = outgoing, offered' = offered,
         accepted' = accepted, torn' = torn,
         fault' \subseteq Machine, overflow' \in BOOLEAN,
         HeldInv', QueueOrder', InOrder', SlotInv',
         \A s \in Role : Held(s)' \subseteq Held(s),
         DOMAIN queue' = Role, \A s \in Role : QueueOK(queue'[s]),
         rx' \in [Port -> Frame \cup {None}], consumed' \in [Port -> Seq(Nat)],
         busy' \in [Machine -> Writes \cup Drains \cup {None}],
         \A m \in Machine :
           \/ busy'[m] = busy[m]
           \/ ~Writing(m) /\ busy'[m] = None
           \/ /\ ~Writing(m) /\ busy'[m] \in Drains
              /\ site.kind = "uart" /\ HostOf(RoleOf(busy'[m].port)) = m
              /\ m = "host" => busy'[m].left <= Len(wire["host"])
  PROVE  FramesInv'
<1>0. TypeOK /\ OfferedInv /\ OutgoingInv /\ BusyInv
  BY DEF FramesInv
<1>1. Port' = Port /\ Role' = Role /\ Ids' = Ids /\ Writes' = Writes /\ Drains' = Drains
  BY DEF Port, Role, Ids, Writes, Drains
<1>2. TypeOK'
  BY <1>0, <1>1 DEF TypeOK, line
<1>3. OfferedInv' /\ OutgoingInv'
  BY <1>0, <1>1, SameOffered DEF OutgoingInv
<1>4. BusyInv'
  <2> SUFFICES ASSUME NEW n \in Machine, busy'[n] # None
               PROVE  /\ site.kind = "uart" /\ HostOf(RoleOf(busy'[n].port)) = n
                      /\ busy'[n].op = "write" => LET f == outgoing[busy'[n].port]
                                                 IN  /\ f # None /\ HostOf(f.to) = Other(n)
                                                     /\ busy'[n].next \in 1..TotalLen(f.len)
                      /\ busy'[n].op = "drain" /\ n = "host" => busy'[n].left <= Len(wire["host"])
    BY DEF BusyInv, HostOf, line
  <2>1. CASE busy'[n] = busy[n]
    BY <2>1, <1>0 DEF BusyInv
  <2>2. CASE /\ busy'[n] \in Drains
             /\ site.kind = "uart" /\ HostOf(RoleOf(busy'[n].port)) = n
             /\ n = "host" => busy'[n].left <= Len(wire["host"])
    <3>1. busy'[n].op = "drain"
      BY <2>2 DEF Drains
    <3> QED
      BY <2>2, <3>1
  <2> QED
    BY <2>1, <2>2
<1>5. OfferedKept
  BY <1>1 DEF OfferedKept
<1>6. WritersGoOn
  <2> SUFFICES ASSUME NEW n \in Machine, Writing(n)
               PROVE  busy'[n] = busy[n] /\ busy[n].next \in Nat
    BY DEF WritersGoOn, Writing
  <2>1. busy'[n] = busy[n]
    OBVIOUS
  <2> QED
    BY <2>1, <1>0 DEF TypeOK, Writing, Writes, Drains
<1>7. /\ SentInv' /\ LostInv' /\ SortedInv' /\ NeedInv'
      /\ \A n \in Machine : OnLine(n)' = OnLine(n)
  BY <1>2, <1>5, <1>6, LineQuiet
<1>8. ASSUME NEW r \in Role, NEW id \in Held(r)
      PROVE  Safe(r, id)'
  <2>1. Safe(r, id)
    BY HeldIsSafe
  <2> QED
    BY <2>1, <1>2, <1>5, <1>7, SafeStep
<1>9. IntactFrames' /\ NewerInv'
  <2>1. \A s \in Role' : \A id \in Held(s)' : Safe(s, id)'
    BY <1>1, <1>8
  <2> QED
    BY <2>1, SafeIsHeld
<1>10. HeldOnce'
  BY <1>0, <1>2, HeldOnceStep
<1> QED
  BY <1>2, <1>3, <1>4, <1>7, <1>9, <1>10, Together

\* A step of PollStep that leaves the queues and the ports alone.
LEMMA QuietPoll ==
  ASSUME FramesInv, site' = site, line' = line, outgoing' = outgoing, offered' = offered,
         accepted' = accepted, torn' = torn,
         fault' \subseteq Machine, overflow' = overflow,
         queue' = queue, rx' = rx, consumed' = consumed,
         busy' \in [Machine -> Writes \cup Drains \cup {None}],
         \A m \in Machine :
           \/ busy'[m] = busy[m]
           \/ ~Writing(m) /\ busy'[m] = None
           \/ /\ ~Writing(m) /\ busy'[m] \in Drains
              /\ site.kind = "uart" /\ HostOf(RoleOf(busy'[m].port)) = m
              /\ m = "host" => busy'[m].left <= Len(wire["host"])
  PROVE  FramesInv'
<1>0. TypeOK
  BY DEF FramesInv
<1>1. OfferedKept
  BY DEF OfferedKept, Ids
<1>2. /\ HeldInv' /\ QueueOrder' /\ InOrder' /\ SlotInv'
      /\ \A s \in Role : Held(s)' \subseteq Held(s)
  BY <1>1, HoldUnchanged
<1>3. /\ DOMAIN queue' = Role /\ \A s \in Role : QueueOK(queue'[s])
      /\ rx' \in [Port -> Frame \cup {None}] /\ consumed' \in [Port -> Seq(Nat)]
      /\ overflow' \in BOOLEAN
  BY <1>0 DEF TypeOK
<1> QED
  BY <1>2, <1>3, PollStep

\* A poll returns a queued frame.
LEMMA TakingPoll ==
  ASSUME FramesInv, site' = site, line' = line, outgoing' = outgoing, offered' = offered,
         accepted' = accepted, torn' = torn, fault' = fault, overflow' = overflow,
         NEW p \in Port, HasFrame(p), TakeFrame(p),
         busy' \in [Machine -> Writes \cup Drains \cup {None}],
         \A m \in Machine : busy'[m] = busy[m] \/ (~Writing(m) /\ busy'[m] = None)
  PROVE  FramesInv'
<1>0. fault' \subseteq Machine /\ overflow' \in BOOLEAN
  BY DEF FramesInv, TypeOK
<1>1. /\ HeldInv' /\ QueueOrder' /\ InOrder' /\ SlotInv'
      /\ \A s \in Role : Held(s)' \subseteq Held(s)
      /\ DOMAIN queue' = Role /\ \A s \in Role : QueueOK(queue'[s])
      /\ rx' \in [Port -> Frame \cup {None}] /\ consumed' \in [Port -> Seq(Nat)]
  BY HoldTake
<1> QED
  BY <1>0, <1>1, PollStep

\* A frame is taken from a queue or a slot.
LEMMA ProofPollRecvKeeps ==
  ASSUME FramesInv, NEW p \in Port, ProofPollRecv(p) \/ SplitPollRecv(p)
  PROVE  FramesInv'
<1>1. /\ HasFrame(p) /\ TakeFrame(p) /\ site' = site /\ line' = line /\ outgoing' = outgoing
      /\ busy' = busy /\ fault' = fault /\ offered' = offered /\ accepted' = accepted
      /\ torn' = torn /\ overflow' = overflow
  BY DEF ProofPollRecv, SplitPollRecv
<1>2. busy' \in [Machine -> Writes \cup Drains \cup {None}]
  BY <1>1 DEF FramesInv, TypeOK
<1> QED
  BY <1>1, <1>2, TakingPoll

\* The host takes a queued frame, or begins to read the line.
LEMMA HostPollRecvKeeps ==
  ASSUME FramesInv, NEW p \in Port, HostPollRecv(p)
  PROVE  FramesInv'
<1>0. TypeOK
  BY DEF FramesInv
<1>1. /\ site.kind = "uart" /\ HostOf(RoleOf(p)) = "host" /\ busy["host"] = None
      /\ site' = site /\ line' = line /\ outgoing' = outgoing
      /\ fault' = fault /\ offered' = offered /\ accepted' = accepted
      /\ torn' = torn /\ overflow' = overflow
  BY DEF HostPollRecv, MayRecv, Idle
<1>2. CASE HasFrame(p)
  <2>1. TakeFrame(p) /\ busy' = busy
    BY <1>2 DEF HostPollRecv
  <2>2. busy' \in [Machine -> Writes \cup Drains \cup {None}]
    BY <2>1, <1>0 DEF TypeOK
  <2> QED
    BY <2>1, <2>2, <1>1, <1>2, TakingPoll
<1>3. CASE ~HasFrame(p)
  <2> DEFINE d == [op |-> "drain", port |-> p, left |-> Len(wire["host"])]
  <2>1. queue' = queue /\ rx' = rx /\ consumed' = consumed /\ busy' = [busy EXCEPT !["host"] = d]
    BY <1>3 DEF HostPollRecv
  <2>2. d.port = p /\ d.left = Len(wire["host"]) /\ Len(wire["host"]) \in Nat
    BY <1>0 DEF TypeOK, Machine
  <2>3. d \in Drains
    BY <2>2 DEF Drains
  <2> HIDE DEF d
  <2>4. busy' \in [Machine -> Writes \cup Drains \cup {None}]
        /\ \A m \in Machine : busy'[m] = IF m = "host" THEN d ELSE busy[m]
    BY <1>0, <2>1, <2>3 DEF TypeOK
  <2>5. ASSUME NEW m \in Machine
        PROVE  \/ busy'[m] = busy[m]
               \/ /\ ~Writing(m) /\ busy'[m] \in Drains
                  /\ site.kind = "uart" /\ HostOf(RoleOf(busy'[m].port)) = m
                  /\ m = "host" => busy'[m].left <= Len(wire["host"])
    BY <1>1, <2>2, <2>3, <2>4 DEF Writing
  <2>6. fault' \subseteq Machine
    BY <1>0, <1>1 DEF TypeOK
  <2> QED
    BY <1>1, <2>1, <2>4, <2>5, <2>6, QuietPoll
<1> QED
  BY <1>2, <1>3

\* The M33 begins to read the line.
LEMMA M33PollRecvKeeps ==
  ASSUME FramesInv, NEW p \in Port, M33PollRecv(p)
  PROVE  FramesInv'
<1> DEFINE d == [op |-> "drain", port |-> p, left |-> 0]
<1>0. TypeOK
  BY DEF FramesInv
<1>1. /\ HostOf(RoleOf(p)) = "m33" /\ busy["m33"] = None /\ busy' = [busy EXCEPT !["m33"] = d]
      /\ site' = site /\ line' = line /\ outgoing' = outgoing /\ queue' = queue /\ rx' = rx
      /\ fault' = fault /\ offered' = offered /\ accepted' = accepted /\ consumed' = consumed
      /\ torn' = torn /\ overflow' = overflow
  BY DEF M33PollRecv, MayRecv, Idle
<1>2. site.kind = "uart"
  BY <1>1 DEF HostOf
<1>3. d \in Drains /\ d.port = p
  BY DEF Drains
<1> HIDE DEF d
<1>4. busy' \in [Machine -> Writes \cup Drains \cup {None}]
      /\ \A m \in Machine : busy'[m] = IF m = "m33" THEN d ELSE busy[m]
  BY <1>0, <1>1, <1>3 DEF TypeOK
<1>5. ASSUME NEW m \in Machine
      PROVE  \/ busy'[m] = busy[m]
             \/ /\ ~Writing(m) /\ busy'[m] \in Drains
                /\ site.kind = "uart" /\ HostOf(RoleOf(busy'[m].port)) = m
                /\ m = "host" => busy'[m].left <= Len(wire["host"])
  BY <1>1, <1>2, <1>3, <1>4 DEF Writing
<1>6. fault' \subseteq Machine
  BY <1>0, <1>1 DEF TypeOK
<1> QED
  BY <1>1, <1>4, <1>5, <1>6, QuietPoll

\* A poll has read all that there is.
LEMMA DrainEndKeeps ==
  ASSUME FramesInv, NEW m \in Machine, DrainEnd(m)
  PROVE  FramesInv'
<1> DEFINE p == busy[m].port
<1>0. TypeOK
  BY DEF FramesInv
<1>1. /\ Draining(m) /\ busy' = [busy EXCEPT ![m] = None]
      /\ site' = site /\ line' = line /\ outgoing' = outgoing
      /\ fault' = fault /\ offered' = offered /\ accepted' = accepted
      /\ torn' = torn /\ overflow' = overflow
  BY DEF DrainEnd
<1>2. p \in Port /\ ~Writing(m)
  BY <1>0, <1>1 DEF TypeOK, Draining, Writing, Writes, Drains
<1>3. busy' \in [Machine -> Writes \cup Drains \cup {None}]
  BY <1>0, <1>1 DEF TypeOK
<1>4. \A n \in Machine : busy'[n] = busy[n] \/ (~Writing(n) /\ busy'[n] = None)
  BY <1>0, <1>1, <1>2 DEF TypeOK
<1>5. CASE HasFrame(p)
  <2>1. TakeFrame(p)
    BY <1>5 DEF DrainEnd
  <2> HIDE DEF p
  <2> QED
    BY <2>1, <1>1, <1>2, <1>3, <1>4, <1>5, TakingPoll
<1>6. CASE ~HasFrame(p)
  <2>1. queue' = queue /\ rx' = rx /\ consumed' = consumed
    BY <1>6 DEF DrainEnd
  <2>2. fault' \subseteq Machine
    BY <1>0, <1>1 DEF TypeOK
  <2> QED
    BY <2>1, <2>2, <1>1, <1>3, <1>4, QuietPoll
<1> QED
  BY <1>5, <1>6

\* The deadline of the M33 has passed with nothing to read.
LEMMA M33RecvDeadlineKeeps ==
  ASSUME FramesInv, M33RecvDeadline
  PROVE  FramesInv'
<1>0. TypeOK /\ "m33" \in Machine
  BY DEF FramesInv, Machine
<1>1. /\ Draining("m33") /\ busy' = [busy EXCEPT !["m33"] = None] /\ fault' = fault \cup {"m33"}
      /\ site' = site /\ line' = line /\ outgoing' = outgoing /\ queue' = queue /\ rx' = rx
      /\ offered' = offered /\ accepted' = accepted /\ consumed' = consumed
      /\ torn' = torn /\ overflow' = overflow
  BY DEF M33RecvDeadline
<1>2. ~Writing("m33")
  BY <1>1 DEF Draining, Writing
<1>3. /\ busy' \in [Machine -> Writes \cup Drains \cup {None}]
      /\ \A n \in Machine : busy'[n] = busy[n] \/ (~Writing(n) /\ busy'[n] = None)
  BY <1>0, <1>1, <1>2 DEF TypeOK
<1>4. fault' \subseteq Machine
  BY <1>0, <1>1 DEF TypeOK
<1> QED
  BY <1>1, <1>3, <1>4, QuietPoll

\* Hibana gives a frame back.
LEMMA RequeueKeeps ==
  ASSUME FramesInv, NEW p \in Port, Requeue(p) \/ SplitRequeue(p)
  PROVE  FramesInv'
<1>0. TypeOK
  BY DEF FramesInv
<1>1. /\ GivenBack(p) /\ overflow' \in BOOLEAN
      /\ site' = site /\ line' = line /\ outgoing' = outgoing /\ busy' = busy
      /\ fault' = fault /\ offered' = offered /\ accepted' = accepted /\ torn' = torn
  BY <1>0 DEF Requeue, SplitRequeue, GivenBack, TypeOK
<1>2. /\ rx' \in [Port -> Frame \cup {None}] /\ consumed' \in [Port -> Seq(Nat)]
  BY <1>1, GivenBackTakes
<1>3. /\ busy' \in [Machine -> Writes \cup Drains \cup {None}] /\ fault' \subseteq Machine
  BY <1>0, <1>1 DEF TypeOK
<1>4. CASE queue' = queue
  <2>1. /\ HeldInv' /\ QueueOrder' /\ InOrder' /\ SlotInv'
        /\ \A s \in Role : Held(s)' \subseteq Held(s)
    BY <1>1, <1>4, HoldDrop
  <2>2. DOMAIN queue' = Role /\ \A s \in Role : QueueOK(queue'[s])
    BY <1>0, <1>4 DEF TypeOK
  <2> QED
    BY <2>1, <2>2, <1>1, <1>2, <1>3, PollStep
<1>5. CASE /\ ~Full(queue[RoleOf(p)]) /\ site.kind # "split"
           /\ queue' = [queue EXCEPT ![RoleOf(p)] = PushFront(@, rx[p])]
  <2>1. /\ HeldInv' /\ QueueOrder' /\ InOrder' /\ SlotInv'
        /\ \A s \in Role : Held(s)' \subseteq Held(s)
        /\ DOMAIN queue' = Role /\ \A s \in Role : QueueOK(queue'[s])
    BY <1>1, <1>5, HoldRequeue
  <2> QED
    BY <2>1, <1>1, <1>2, <1>3, PollStep
<1> QED
  BY <1>4, <1>5 DEF Requeue, SplitRequeue

-----------------------------------------------------------------------------
(* Writing. *)

\* What is known of a machine that writes frame f of port p.
LEMMA WritingFacts ==
  ASSUME FramesInv, NEW m \in Machine, Writing(m)
  PROVE  /\ busy[m] \in Writes /\ busy[m].port \in Port /\ outgoing[busy[m].port] # None
         /\ site.kind = "uart" /\ HostOf(RoleOf(busy[m].port)) = m /\ Other(m) \in Machine /\ Other(m) # m
         /\ HostOf(outgoing[busy[m].port].to) = Other(m) /\ Other(Other(m)) = m
         /\ busy[m].next \in 1..TotalLen(outgoing[busy[m].port].len) /\ busy[m].next \in Nat
         /\ NextByte(m) = Byte(outgoing[busy[m].port].id, busy[m].next) /\ NextByte(m) \in LineByte
         /\ \A n \in Machine : \A b : SentTo(n, b) /\ b.id = outgoing[busy[m].port].id => b.k < busy[m].next
         /\ \A c \in OnLine(Other(m)) : Before(c, NextByte(m))
<1>0. TypeOK /\ BusyInv /\ OutgoingInv
  BY DEF FramesInv
<1>1. busy[m] \in Writes /\ busy[m].port \in Port /\ busy[m].next \in Nat
  BY <1>0 DEF TypeOK, Writing, Writes, Drains
<1>2. /\ site.kind = "uart" /\ HostOf(RoleOf(busy[m].port)) = m
      /\ outgoing[busy[m].port] # None /\ HostOf(outgoing[busy[m].port].to) = Other(m)
      /\ busy[m].next \in 1..TotalLen(outgoing[busy[m].port].len)
  BY <1>0 DEF BusyInv, Writing
<1>3. Other(m) \in Machine /\ Other(m) # m /\ Other(Other(m)) = m
  BY DEF Other, Machine
<1>4. PICK f \in Frame : /\ f = outgoing[busy[m].port] /\ f.id \in Ids /\ f.id # 0 /\ f = offered[f.id]
                         /\ f.from = RoleOf(busy[m].port)
  BY <1>1, <1>2, OutgoingFrame
<1>5. NextByte(m) = Byte(f.id, busy[m].next) /\ NextByte(m) \in LineByte
  <2>1. f.id \in Nat
    BY <1>4 DEF Ids
  <2>2. NextByte(m) = Byte(f.id, busy[m].next)
    BY <1>2, <1>4 DEF NextByte, EncodeUartFrame
  <2> QED
    BY <2>1, <2>2, <1>1 DEF LineByte, Byte
<1>6. ASSUME NEW n \in Machine, NEW b, SentTo(n, b), b.id = f.id
      PROVE  b.k < busy[m].next
  <2>1. Writing(Other(n)) /\ busy[Other(n)].port = busy[m].port /\ b.k < busy[Other(n)].next
    BY <1>1, <1>2, <1>4, <1>6 DEF SentTo
  <2>2. Other(n) \in Machine
    BY DEF Other, Machine
  <2>3. HostOf(RoleOf(busy[Other(n)].port)) = Other(n)
    BY <2>1, <2>2, <1>0 DEF BusyInv, Writing
  <2>4. Other(n) = m
    BY <2>1, <2>3, <1>2
  <2> QED
    BY <2>1, <2>4
<1>7. ASSUME NEW c \in OnLine(Other(m)), c.id # 0, offered[c.id].from = f.from
      PROVE  c.id < f.id \/ (c.id = f.id /\ c.k < busy[m].next)
  <2>1. SentTo(Other(m), c) /\ c.id \in Ids
    BY <1>3, <1>7, LineTypes
  <2>2. c.id <= f.id
    BY <2>1, <1>0, <1>1, <1>2, <1>4, <1>7 DEF OutgoingInv
  <2>3. c.id = f.id => c.k < busy[m].next
    BY <2>1, <1>3, <1>6
  <2>4. c.id \in Nat /\ f.id \in Nat
    BY <2>1, <1>4 DEF Ids
  <2> QED
    BY <2>2, <2>3, <2>4
<1>8. \A c \in OnLine(Other(m)) : Before(c, NextByte(m))
  <2>1. NextByte(m).id = f.id /\ NextByte(m).k = busy[m].next
    BY <1>5 DEF Byte
  <2> QED
    BY <2>1, <1>4, <1>7 DEF Before
<1> QED
  BY <1>1, <1>2, <1>3, <1>4, <1>5, <1>6, <1>8

\* A machine writes on, or is done with its frame.
WritesOn(m) ==
  LET p == busy[m].port
  IN  \/ /\ busy[m].next < TotalLen(outgoing[p].len)
         /\ busy' = [busy EXCEPT ![m].next = @ + 1] /\ outgoing' = outgoing
      \/ /\ busy' = [busy EXCEPT ![m] = None]
         /\ outgoing' = [outgoing EXCEPT ![p] = None]

\* A writer and what it has sent, after its step.
LEMMA WriteStep ==
  ASSUME FramesInv, NEW m \in Machine, Writing(m), WritesOn(m), site' = site, offered' = offered
  PROVE  /\ OfferedKept /\ WritersGoOn /\ OfferedInv' /\ OutgoingInv'
         /\ outgoing' \in [Port -> Frame \cup {None}] /\ busy' \in [Machine -> Writes \cup Drains \cup {None}]
         /\ \A q \in Port : outgoing'[q] # None => outgoing'[q] = outgoing[q]
         /\ \A f : f = outgoing[busy[m].port] =>
              /\ \A k \in 1..busy[m].next : SentTo(Other(m), Byte(f.id, k))'
              /\ busy'[m] = None => \A k \in 1..TotalLen(f.len) : SentTo(Other(m), Byte(f.id, k))'
         /\ Len(wire'["host"]) >= Len(wire["host"]) => BusyInv'
<1>0. TypeOK /\ BusyInv /\ OutgoingInv /\ OfferedInv
  BY DEF FramesInv
<1>1. /\ busy[m] \in Writes /\ busy[m].port \in Port /\ outgoing[busy[m].port] # None
      /\ site.kind = "uart" /\ HostOf(RoleOf(busy[m].port)) = m /\ Other(m) \in Machine /\ Other(m) # m
      /\ HostOf(outgoing[busy[m].port].to) = Other(m) /\ Other(Other(m)) = m
      /\ busy[m].next \in 1..TotalLen(outgoing[busy[m].port].len) /\ busy[m].next \in Nat
  BY WritingFacts
<1>2. PICK p \in Port : p = busy[m].port
  BY <1>1
<1>3. PICK f \in Frame : /\ f = outgoing[p] /\ f.id \in Ids /\ f.id # 0 /\ f = offered[f.id]
                         /\ f.from = RoleOf(p) /\ f.from # Nobody /\ TotalLen(f.len) \in Nat
  BY <1>1, <1>2, OutgoingFrame
<1>4. PICK x \in Nat : x = busy[m].next
  BY <1>1
<1>5. Port' = Port /\ Role' = Role /\ Ids' = Ids /\ Writes' = Writes /\ Drains' = Drains
  BY DEF Port, Role, Ids, Writes, Drains
<1>6. OfferedKept
  BY <1>5 DEF OfferedKept
<1>7. \A n \in Machine : Writing(n) /\ busy[n].port = p => n = m
  <2> SUFFICES ASSUME NEW n \in Machine, Writing(n), busy[n].port = p
               PROVE  n = m
    OBVIOUS
  <2>1. HostOf(RoleOf(busy[n].port)) = n
    BY <1>0 DEF BusyInv, Writing
  <2> QED
    BY <2>1, <1>1, <1>2
<1>8. \A n \in Machine : Writing(n) => busy[n].next \in Nat /\ busy[n].port \in Port
  BY <1>0 DEF TypeOK, Writing, Writes, Drains
<1>9. \A n \in Machine : n # m => busy'[n] = busy[n]
  BY <1>0 DEF WritesOn, TypeOK
<1>10. CASE x < TotalLen(f.len) /\ busy' = [busy EXCEPT ![m].next = @ + 1] /\ outgoing' = outgoing
  <2>1. busy'[m] = [op |-> "write", port |-> p, next |-> x + 1]
    <3>1. busy[m] = [op |-> "write", port |-> p, next |-> x]
      BY <1>1, <1>2, <1>4 DEF Writes
    <3>2. busy'[m] = [busy[m] EXCEPT !.next = x + 1]
      BY <1>0, <1>4, <1>10 DEF TypeOK
    <3> QED
      BY <3>1, <3>2
  <2>2. /\ busy'[m] # None /\ busy'[m].op = "write" /\ busy'[m].port = p /\ busy'[m].next = x + 1
        /\ busy'[m] \in Writes
    <3>1. busy'[m].op = "write" /\ busy'[m].port = p /\ busy'[m].next = x + 1
      BY <2>1
    <3>2. busy'[m] \in Writes
      BY <2>1 DEF Writes
    <3>3. busy'[m] # None
      <4>1. None \notin [op : {"write"}, port : site.port, next : Nat]
        BY <1>0, UartAssumption DEF TypeOK
      <4> QED
        BY <3>2, <4>1 DEF Writes, Port
    <3> QED
      BY <3>1, <3>2, <3>3
  <2>3. outgoing' \in [Port -> Frame \cup {None}] /\ busy' \in [Machine -> Writes \cup Drains \cup {None}]
    <3>1. DOMAIN busy' = Machine
      BY <1>0, <1>10 DEF TypeOK
    <3>2. busy' = [n \in Machine |-> busy'[n]]
      BY <1>0, <1>10 DEF TypeOK
    <3>3. \A n \in Machine : busy'[n] \in Writes \cup Drains \cup {None}
      BY <1>0, <1>9, <2>2 DEF TypeOK
    <3> QED
      BY <1>0, <1>10, <3>2, <3>3 DEF TypeOK
  <2>4. WritersGoOn
    <3> SUFFICES ASSUME NEW q \in Port, NEW n \in Machine, Writing(n), busy[n].port = q
                 PROVE  Writing(n)' /\ busy'[n].port = q /\ busy[n].next <= busy'[n].next
      BY <1>10 DEF WritersGoOn
    <3>1. CASE n = m
      BY <3>1, <2>2, <1>2, <1>4 DEF Writing
    <3>2. CASE n # m
      BY <3>2, <1>8, <1>9 DEF Writing
    <3> QED
      BY <3>1, <3>2
  <2>5. OfferedInv' /\ OutgoingInv'
    BY <1>0, <1>5, <1>10, SameOffered DEF OutgoingInv
  <2>6. ASSUME NEW k \in 1..x
        PROVE  SentTo(Other(m), Byte(f.id, k))'
    <3>1. Byte(f.id, k).id = f.id /\ Byte(f.id, k).k = k
      BY DEF Byte
    <3>2. k \in 1..TotalLen(f.len)
      BY <1>1, <1>2, <1>3, <1>4
    <3>3. k < x + 1
      OBVIOUS
    <3>4. ASSUME NEW q \in Port, outgoing'[q] # None, outgoing'[q].id = f.id
          PROVE  q = p
      <4>1. outgoing[q] # None /\ outgoing[q] = offered[f.id] /\ outgoing[q].from = RoleOf(q)
        BY <3>4, <1>0, <1>10 DEF OutgoingInv
      <4>2. RoleOf(q) = RoleOf(p)
        BY <4>1, <1>3
      <4> QED
        BY <4>1, <4>2, <1>0, <1>1, <1>2 DEF OutgoingInv
    <3>5. Writing(m)'
      BY <2>2 DEF Writing
    <3>6. HostOf(f.from) = m /\ HostOf(f.to) = Other(m)
      BY <1>1, <1>2, <1>3
    <3> QED
      BY <3>1, <3>2, <3>3, <3>4, <3>5, <3>6, <2>2, <1>1, <1>3, <1>5 DEF SentTo, HostOf, Misread
  <2>7. ASSUME Len(wire'["host"]) >= Len(wire["host"])
        PROVE  BusyInv'
    <3> SUFFICES ASSUME NEW n \in Machine, busy'[n] # None
                 PROVE  /\ site.kind = "uart" /\ HostOf(RoleOf(busy'[n].port)) = n
                        /\ busy'[n].op = "write" => LET g == outgoing[busy'[n].port]
                                                   IN  /\ g # None /\ HostOf(g.to) = Other(n)
                                                       /\ busy'[n].next \in 1..TotalLen(g.len)
                        /\ busy'[n].op = "drain" /\ n = "host" => busy'[n].left <= Len(wire'["host"])
      BY <1>10 DEF BusyInv, HostOf
    <3>1. CASE n = m
      <4>1. x + 1 \in 1..TotalLen(f.len)
        BY <1>3, <1>10
      <4> QED
        BY <3>1, <4>1, <2>2, <1>1, <1>2, <1>3
    <3>2. CASE n # m
      <4>1. busy'[n] = busy[n]
        BY <3>2, <1>9
      <4>2. busy[n].op = "drain" /\ n = "host" => busy[n].left <= Len(wire["host"]) /\ busy[n].left \in Nat
        BY <4>1, <1>0 DEF BusyInv, TypeOK, Writes, Drains
      <4>3. Len(wire["host"]) \in Nat /\ wire'["host"] = wire'["host"]
        BY <1>0 DEF TypeOK, Machine
      <4>4. /\ site.kind = "uart" /\ HostOf(RoleOf(busy[n].port)) = n
            /\ busy[n].op = "write" => LET g == outgoing[busy[n].port]
                                       IN  /\ g # None /\ HostOf(g.to) = Other(n)
                                           /\ busy[n].next \in 1..TotalLen(g.len)
        BY <4>1, <1>0 DEF BusyInv
      <4>5. busy[n].op = "drain" /\ n = "host" => busy[n].left <= Len(wire'["host"])
        BY <4>2, <4>3, <2>7
      <4> QED
        BY <4>1, <4>4, <4>5
    <3> QED
      BY <3>1, <3>2
  <2> QED
    BY <1>2, <1>3, <1>4, <1>6, <1>10, <2>2, <2>3, <2>4, <2>5, <2>6, <2>7
<1>11. CASE busy' = [busy EXCEPT ![m] = None] /\ outgoing' = [outgoing EXCEPT ![p] = None]
  <2>1. busy'[m] = None /\ busy' \in [Machine -> Writes \cup Drains \cup {None}]
        /\ outgoing' \in [Port -> Frame \cup {None}]
    BY <1>0, <1>11 DEF TypeOK
  <2>2. \A n \in Machine : Writing(n)' => n # m /\ Writing(n) /\ busy'[n] = busy[n] /\ busy[n].port # p
    BY <2>1, <1>7, <1>9 DEF Writing
  <2>3. /\ OfferedInv' /\ OutgoingInv'
        /\ \A q \in Port : outgoing'[q] = IF q = p THEN None ELSE outgoing[q]
    BY <2>2, <1>1, <1>2, <1>11, SendEnds
  <2>4. WritersGoOn
    <3> SUFFICES ASSUME NEW q \in Port, outgoing'[q] # None, NEW n \in Machine, Writing(n), busy[n].port = q
                 PROVE  /\ outgoing'[q] = outgoing[q]
                        /\ Writing(n)' /\ busy'[n].port = q /\ busy[n].next <= busy'[n].next
      BY <2>3 DEF WritersGoOn
    <3>1. q # p /\ n # m
      BY <2>3, <1>2
    <3> QED
      BY <3>1, <2>3, <1>8, <1>9 DEF Writing
  <2>5. ASSUME NEW k \in 1..TotalLen(f.len)
        PROVE  SentTo(Other(m), Byte(f.id, k))'
    <3>1. Byte(f.id, k).id = f.id /\ Byte(f.id, k).k = k
      BY DEF Byte
    <3>2. ASSUME NEW q \in Port, outgoing'[q] # None, outgoing'[q].id = f.id
          PROVE  FALSE
      <4>1. q # p /\ outgoing[q] # None /\ outgoing[q].id = f.id
        BY <3>2, <2>3
      <4>2. outgoing[q] = offered[f.id] /\ outgoing[q].from = RoleOf(q)
        BY <4>1, <1>0 DEF OutgoingInv
      <4>3. RoleOf(q) = RoleOf(p)
        BY <4>2, <1>3
      <4> QED
        BY <4>1, <4>3, <1>0, <1>1, <1>2 DEF OutgoingInv
    <3>3. HostOf(f.from) = m /\ HostOf(f.to) = Other(m)
      BY <1>1, <1>2, <1>3
    <3> QED
      BY <3>1, <3>2, <3>3, <1>1, <1>3, <1>5 DEF SentTo, HostOf, Misread
  <2>6. \A k \in 1..x : k \in 1..TotalLen(f.len)
    BY <1>1, <1>2, <1>3, <1>4
  <2>7. ASSUME Len(wire'["host"]) >= Len(wire["host"])
        PROVE  BusyInv'
    <3> SUFFICES ASSUME NEW n \in Machine, busy'[n] # None
                 PROVE  /\ site.kind = "uart" /\ HostOf(RoleOf(busy'[n].port)) = n
                        /\ busy'[n].op = "write" => LET g == outgoing'[busy'[n].port]
                                                   IN  /\ g # None /\ HostOf(g.to) = Other(n)
                                                       /\ busy'[n].next \in 1..TotalLen(g.len)
                        /\ busy'[n].op = "drain" /\ n = "host" => busy'[n].left <= Len(wire'["host"])
      BY DEF BusyInv, HostOf
    <3>1. n # m /\ busy'[n] = busy[n]
      BY <2>1, <1>9
    <3>2. busy[n].op = "write" => outgoing'[busy[n].port] = outgoing[busy[n].port]
      BY <3>1, <2>2, <2>3, <1>7, <1>8 DEF Writing
    <3>3. busy[n].op = "drain" /\ n = "host" => busy[n].left <= Len(wire["host"]) /\ busy[n].left \in Nat
      BY <3>1, <1>0 DEF BusyInv, TypeOK, Writes, Drains
    <3>4. Len(wire["host"]) \in Nat
      BY <1>0 DEF TypeOK, Machine
    <3>5. busy[n].op = "drain" /\ n = "host" => busy[n].left <= Len(wire'["host"])
      BY <3>3, <3>4, <2>7
    <3> QED
      BY <3>1, <3>2, <3>5, <1>0 DEF BusyInv
  <2>8. \A q \in Port : outgoing'[q] # None => outgoing'[q] = outgoing[q]
    BY <2>3
  <2>9. \A g : g = outgoing[busy[m].port] => g = f
    BY <1>2, <1>3
  <2>10. /\ \A k \in 1..busy[m].next : SentTo(Other(m), Byte(f.id, k))'
         /\ \A k \in 1..TotalLen(f.len) : SentTo(Other(m), Byte(f.id, k))'
    BY <1>4, <2>5, <2>6
  <2> QED
    BY <1>6, <2>1, <2>3, <2>4, <2>7, <2>8, <2>9, <2>10
<1> QED
  BY <1>2, <1>3, <1>4, <1>10, <1>11 DEF WritesOn

\* A byte goes to the other machine, behind those on their way there.
LEMMA ByteWritten ==
  ASSUME TypeOK, NEW m \in Machine, NEW b \in LineByte, rdr' = rdr, ring' = ring,
         wire' = [wire EXCEPT ![m] = Append(@, b)]
  PROVE  /\ Unread(m)' \in Bytes /\ Grown(Unread(m), Unread(m)', b)
         /\ Unread(Other(m))' = Unread(Other(m))
         /\ wire' \in [Machine -> Seq(LineByte)] /\ Len(wire'["host"]) >= Len(wire["host"])
<1>1. ring \in Bytes /\ wire["host"] \in Bytes /\ wire["m33"] \in Bytes /\ rdr \in Optional
      /\ wire[m] \in Bytes
  BY DEF TypeOK, Bytes, Machine, Optional
<1>2. Append(wire[m], b) \in Bytes /\ Grown(wire[m], Append(wire[m], b), b)
  BY <1>1, AppendGrows
<1>3. wire' \in [Machine -> Seq(LineByte)] /\ wire'[m] = Append(wire[m], b)
      /\ \A n \in Machine : n # m => wire'[n] = wire[n]
  BY <1>2 DEF TypeOK, Bytes
<1>4. CASE m = "host"
  <2>1. Unread(m)' = Append(wire["host"], b) /\ Unread(m) = wire["host"] /\ wire'["m33"] = wire["m33"]
        /\ wire'["host"] = Append(wire["host"], b)
    BY <1>3, <1>4 DEF Unread, Machine
  <2>2. Len(wire'["host"]) = Len(wire["host"]) + 1 /\ Len(wire["host"]) \in Nat
    BY <1>1, <1>3, <1>4 DEF Bytes
  <2>3. Unread(Other(m))' = Unread(Other(m))
    BY <2>1, <1>4 DEF Unread, Other
  <2>4. Len(wire'["host"]) >= Len(wire["host"])
    BY <2>2
  <2> QED
    BY <1>2, <1>3, <1>4, <2>1, <2>3, <2>4
<1>5. CASE m = "m33"
  <2>1. wire'["m33"] = Append(wire["m33"], b) /\ wire'["host"] = wire["host"]
    BY <1>3, <1>5 DEF Machine
  <2>2. Joined(ring, rdr, Append(wire["m33"], b)) \in Bytes
    BY <1>1, <1>2, <1>5, JoinedPlaces
  <2>3. Grown(Joined(ring, rdr, wire["m33"]), Joined(ring, rdr, Append(wire["m33"], b)), b)
    BY <1>1, WriteGrows
  <2>4. Len(wire["host"]) \in Nat
    BY <1>1 DEF Bytes
  <2>5. Len(wire'["host"]) >= Len(wire["host"])
    BY <2>1, <2>4
  <2>6. Unread(m) = Joined(ring, rdr, wire["m33"]) /\ Unread(m)' = Joined(ring, rdr, Append(wire["m33"], b))
    BY <1>5, <2>1 DEF Unread
  <2>7. Unread(Other(m))' = Unread(Other(m))
    BY <2>1, <1>5 DEF Unread, Other
  <2> QED
    BY <1>3, <2>2, <2>3, <2>5, <2>6, <2>7
<1> QED
  BY <1>4, <1>5 DEF Machine

\* The parsers are left alone, and a machine is sent a byte that comes after
\* the others, or loses one.
LEMMA OrderStep ==
  ASSUME FramesInv, offered' = offered, parser' = parser,
         \A n \in Machine :
           /\ Unread(n)' \in Bytes
           /\ \/ Unread(n)' = Unread(n)
              \/ \E b : Grown(Unread(n), Unread(n)', b) /\ \A c \in OnLine(n) : Before(c, b)
              \/ \E x : Shrunk(Unread(n), Unread(n)', x)
  PROVE  SortedInv' /\ NeedInv'
<1>2. ASSUME NEW n \in Machine
      PROVE  \E u : /\ u = Unread(n)' /\ Sorted(u)
                    /\ \A b \in BytesOf(parser[n].buf), c \in BytesOf(u) : Before(b, c)
  <2>1. PICK s \in Bytes : s = Unread(n)
    BY UnreadType DEF FramesInv
  <2>2. PICK t \in Bytes : t = Unread(n)'
    OBVIOUS
  <2>3. Sorted(s) /\ \A b \in BytesOf(parser[n].buf), c \in BytesOf(s) : Before(b, c)
    BY <2>1 DEF FramesInv, SortedInv, Sorted
  <2>4. CASE t = s
    BY <2>2, <2>3, <2>4
  <2>5. ASSUME NEW b, Grown(s, t, b), \A c \in OnLine(n) : Before(c, b)
        PROVE  Sorted(t) /\ \A d \in BytesOf(parser[n].buf), c \in BytesOf(t) : Before(d, c)
    <3>1. \A c \in BytesOf(s) : Before(c, b)
      BY <2>1, <2>5 DEF OnLine
    <3>2. BytesOf(t) = BytesOf(s) \cup {b} /\ Sorted(t)
      BY <2>3, <2>5, <3>1, GrownKeeps
    <3>3. \A d \in BytesOf(parser[n].buf) : Before(d, b)
      BY <2>5 DEF OnLine
    <3> QED
      BY <2>3, <3>2, <3>3
  <2>6. ASSUME NEW x, Shrunk(s, t, x)
        PROVE  Sorted(t) /\ \A d \in BytesOf(parser[n].buf), c \in BytesOf(t) : Before(d, c)
    <3>1. BytesOf(t) \subseteq BytesOf(s) /\ Sorted(t)
      BY <2>3, <2>6, ShrunkKeeps
    <3> QED
      BY <2>3, <3>1
  <2> QED
    BY <2>1, <2>2, <2>4, <2>5, <2>6
<1>3. SortedInv'
  <2>1. ASSUME NEW n \in Machine, NEW i \in 1..Len(Unread(n)'), NEW j \in 1..Len(Unread(n)'), i < j
        PROVE  Before(Unread(n)[i], Unread(n)[j])'
    <3>1. PICK u : u = Unread(n)' /\ Sorted(u)
      BY <1>2
    <3>2. Before(u[i], u[j])
      BY <2>1, <3>1 DEF Sorted
    <3> QED
      BY <3>1, <3>2 DEF Before
  <2>2. ASSUME NEW n \in Machine, NEW b \in BytesOf(parser[n].buf), NEW c \in BytesOf(Unread(n)')
        PROVE  Before(b, c)'
    <3>1. PICK u : u = Unread(n)' /\ \A d \in BytesOf(parser[n].buf), e \in BytesOf(u) : Before(d, e)
      BY <1>2
    <3>2. Before(b, c)
      BY <3>1
    <3> QED
      BY <3>2 DEF Before
  <2> QED
    BY <2>1, <2>2 DEF SortedInv, BytesOf
<1>4. NeedInv'
  BY DEF FramesInv, NeedInv, LenOf
<1> QED
  BY <1>3, <1>4

\* The line after a writer's step.
LEMMA WriterLine ==
  ASSUME FramesInv, NEW m \in Machine, Writing(m), rdr' = rdr, ring' = ring, parser' = parser,
         NEW put \in BOOLEAN,
         wire' = IF put THEN [wire EXCEPT ![Other(m)] = Append(@, NextByte(m))] ELSE wire
  PROVE  /\ Unread(m)' = Unread(m)
         /\ \/ Unread(Other(m))' = Unread(Other(m)) /\ ~put
            \/ put /\ Unread(Other(m))' \in Bytes /\ Grown(Unread(Other(m)), Unread(Other(m))', NextByte(m))
         /\ wire' \in [Machine -> Seq(LineByte)] /\ Len(wire'["host"]) >= Len(wire["host"])
         /\ \A n \in Machine : \A b \in OnLine(n)' :
              b \in OnLine(n) \/ (put /\ n = Other(m) /\ b = NextByte(m))
<1>0. TypeOK
  BY DEF FramesInv
<1>1. Other(m) \in Machine /\ Other(Other(m)) = m /\ NextByte(m) \in LineByte
  BY WritingFacts
<1>2. PICK y \in LineByte : y = NextByte(m)
  BY <1>1
<1>3. \A n \in Machine : Unread(n) \in Bytes /\ parser[n].buf \in Bytes
  BY <1>0, UnreadType
<1>4. /\ Unread(m)' = Unread(m)
      /\ \/ Unread(Other(m))' = Unread(Other(m)) /\ ~put
         \/ put /\ Unread(Other(m))' \in Bytes /\ Grown(Unread(Other(m)), Unread(Other(m))', y)
      /\ wire' \in [Machine -> Seq(LineByte)] /\ Len(wire'["host"]) >= Len(wire["host"])
  <2>1. CASE put
    <3>1. wire' = [wire EXCEPT ![Other(m)] = Append(@, y)]
      BY <2>1, <1>2
    <3> QED
      BY <2>1, <3>1, <1>0, <1>1, ByteWritten
  <2>2. CASE ~put
    <3>1. wire' = wire
      BY <2>2
    <3>2. Unread(m)' = Unread(m) /\ Unread(Other(m))' = Unread(Other(m))
      BY <3>1 DEF Unread
    <3>3. wire["host"] \in Seq(LineByte)
      BY <1>0 DEF TypeOK, Machine
    <3>4. Len(wire["host"]) >= Len(wire["host"])
      BY <3>3
    <3>5. wire' \in [Machine -> Seq(LineByte)] /\ Len(wire'["host"]) >= Len(wire["host"])
      BY <1>0, <3>1, <3>4 DEF TypeOK
    <3> QED
      BY <2>2, <3>2, <3>5
  <2> QED
    BY <2>1, <2>2
<1>5. \A n \in Machine : n = m \/ n = Other(m)
  BY DEF Machine, Other
<1>6. ASSUME NEW n \in Machine, NEW b \in OnLine(n)'
      PROVE  b \in OnLine(n) \/ (put /\ n = Other(m) /\ b = y)
  <2>1. b \in BytesOf(parser[n].buf) \/ b \in BytesOf(Unread(n)')
    BY <1>6 DEF OnLine, BytesOf
  <2>2. CASE Unread(n)' = Unread(n)
    BY <2>1, <2>2 DEF OnLine
  <2>3. CASE put /\ n = Other(m) /\ Unread(n)' \in Bytes /\ Grown(Unread(n), Unread(n)', y)
    <3>1. PICK t \in Bytes : t = Unread(n)'
      BY <2>3
    <3>2. BytesOf(t) = BytesOf(Unread(n)) \cup {y}
      BY <3>1, <2>3, <1>3, GrownKeeps
    <3> QED
      BY <2>1, <2>3, <3>1, <3>2 DEF OnLine
  <2> QED
    BY <1>4, <1>5, <2>2, <2>3
<1> QED
  BY <1>2, <1>4, <1>6

\* A writer goes on: its byte is on the line or lost, and when it gives up so
\* are those that were to come.
LEMMA WriterKeeps ==
  ASSUME FramesInv, NEW m \in Machine, Writing(m), WritesOn(m),
         site' = site, offered' = offered, queue' = queue, rx' = rx, consumed' = consumed,
         rdr' = rdr, ring' = ring, parser' = parser, overflow' = overflow,
         accepted' \subseteq Ids, fault' \subseteq Machine,
         NEW put \in BOOLEAN,
         wire' = IF put THEN [wire EXCEPT ![Other(m)] = Append(@, NextByte(m))] ELSE wire,
         NEW f, f = outgoing[busy[m].port], NEW x, x = busy[m].next,
         \A b \in torn' : \/ b \in torn
                          \/ \E k \in 1..TotalLen(f.len) : /\ b = Byte(f.id, k) /\ k >= x
                                                           /\ k = x => ~put
                                                           /\ k > x => busy'[m] = None
  PROVE  FramesInv'
<1>0. TypeOK /\ FramesInv
  BY DEF FramesInv
<1>1. /\ busy[m].port \in Port /\ outgoing[busy[m].port] # None /\ Other(m) \in Machine /\ Other(m) # m
      /\ site.kind = "uart" /\ Other(Other(m)) = m /\ x \in 1..TotalLen(f.len) /\ x \in Nat
      /\ NextByte(m) = Byte(f.id, x) /\ NextByte(m) \in LineByte
      /\ \A n \in Machine : \A b : SentTo(n, b) /\ b.id = f.id => b.k < x
      /\ \A c \in OnLine(Other(m)) : Before(c, NextByte(m))
  BY WritingFacts
<1>2. f \in Frame /\ f.id \in Ids /\ f.id # 0 /\ f.id \in Nat
  BY <1>1, OutgoingFrame DEF Ids
<1>3. PICK y \in LineByte : y = NextByte(m)
  BY <1>1
<1>4. /\ OfferedKept /\ WritersGoOn /\ OfferedInv' /\ OutgoingInv'
      /\ outgoing' \in [Port -> Frame \cup {None}] /\ busy' \in [Machine -> Writes \cup Drains \cup {None}]
      /\ \A q \in Port : outgoing'[q] # None => outgoing'[q] = outgoing[q]
      /\ \A k \in 1..x : SentTo(Other(m), Byte(f.id, k))'
      /\ busy'[m] = None => \A k \in 1..TotalLen(f.len) : SentTo(Other(m), Byte(f.id, k))'
      /\ Len(wire'["host"]) >= Len(wire["host"]) => BusyInv'
  BY WriteStep
<1>5. \A n \in Machine : Unread(n) \in Bytes /\ parser[n].buf \in Bytes
  BY <1>0, UnreadType
<1>6. /\ Unread(m)' = Unread(m)
      /\ \/ Unread(Other(m))' = Unread(Other(m)) /\ ~put
         \/ put /\ Unread(Other(m))' \in Bytes /\ Grown(Unread(Other(m)), Unread(Other(m))', y)
      /\ wire' \in [Machine -> Seq(LineByte)] /\ Len(wire'["host"]) >= Len(wire["host"])
      /\ \A n \in Machine : \A b \in OnLine(n)' : b \in OnLine(n) \/ (put /\ n = Other(m) /\ b = y)
  BY <1>3, WriterLine
<1>7. \A n \in Machine : n = m \/ n = Other(m)
  BY DEF Machine, Other
<1>8. ASSUME NEW n \in Machine, NEW b \in OnLine(n)'
      PROVE  b \in OnLine(n) \/ (put /\ n = Other(m) /\ b = y)
  BY <1>6
<1>9. SortedInv' /\ NeedInv'
  <2>1. ASSUME NEW n \in Machine
        PROVE  /\ Unread(n)' \in Bytes
               /\ \/ Unread(n)' = Unread(n)
                  \/ \E b : Grown(Unread(n), Unread(n)', b) /\ \A c \in OnLine(n) : Before(c, b)
    BY <1>1, <1>3, <1>5, <1>6, <1>7
  <2> QED
    BY <2>1, OrderStep
<1>10. ASSUME NEW b \in torn', b \notin torn
       PROVE  /\ b \in LineByte /\ b.id = f.id /\ b.k >= x /\ (b.k = x => ~put)
              /\ SentTo(Other(m), b)' /\ b.k \in Nat
  <2>1. PICK k \in 1..TotalLen(f.len) : b = Byte(f.id, k) /\ k >= x /\ (k = x => ~put) /\ (k > x => busy'[m] = None)
    BY <1>10
  <2>2. b.id = f.id /\ b.k = k /\ k \in Nat
    BY <2>1 DEF Byte
  <2>3. b \in LineByte
    BY <2>1, <2>2, <1>2 DEF Byte, LineByte
  <2>4. SentTo(Other(m), Byte(f.id, k))'
    <3>1. CASE k = x
      BY <3>1, <1>1, <1>4
    <3>2. CASE k > x
      BY <3>2, <2>1, <1>4
    <3> QED
      BY <2>1, <2>2, <1>1, <3>1, <3>2
  <2> QED
    BY <2>1, <2>2, <2>3, <2>4
<1>11. TypeOK'
  <2>1. torn' \subseteq LineByte
    BY <1>0, <1>10 DEF TypeOK
  <2>2. Port' = Port /\ Role' = Role /\ Writes' = Writes /\ Drains' = Drains /\ Ids' = Ids
    BY DEF Port, Role, Writes, Drains, Ids
  <2> QED
    BY <1>0, <1>4, <1>6, <2>1, <2>2 DEF TypeOK
<1>12. SentTo(Other(m), y)'
  <2>1. SentTo(Other(m), Byte(f.id, x))'
    BY <1>1, <1>4
  <2>2. y = Byte(f.id, x)
    BY <1>1, <1>3
  <2> QED
    BY <2>1, <2>2
<1>13. SentInv' /\ LostInv'
  <2>1. \A n \in Machine : \A b \in OnLine(n)' : b \in OnLine(n) \/ (b \in LineByte /\ SentTo(n, b)')
    <3> SUFFICES ASSUME NEW n \in Machine, NEW b \in OnLine(n)'
                 PROVE  b \in OnLine(n) \/ (b \in LineByte /\ SentTo(n, b)')
      OBVIOUS
    <3>1. CASE n = Other(m) /\ b = y
      <4>1. SentTo(n, b)'
        BY <3>1, <1>12 DEF SentTo
      <4> QED
        BY <4>1, <3>1
    <3> QED
      BY <3>1, <1>8
  <2>2. \A b \in torn' : b \in torn \/ \E n \in Machine : SentTo(n, b)'
    BY <1>1, <1>10
  <2>3. ASSUME NEW n \in Machine, NEW b \in OnLine(n)', b.id # 0, b \in torn'
        PROVE  b \in OnLine(n) /\ b \in torn
    <3>1. CASE b \notin torn
      <4>1. b.id = f.id /\ b.k >= x /\ (b.k = x => ~put) /\ b.k \in Nat
        BY <3>1, <2>3, <1>10
      <4>2. CASE b \in OnLine(n)
        <5>1. SentTo(n, b)
          BY <4>2, LineTypes
        <5>2. b.k < x
          BY <5>1, <4>1, <1>1
        <5> QED
          BY <5>2, <4>1, <1>1
      <4>3. CASE put /\ b = y
        <5>1. b.k = x
          BY <4>3, <1>1, <1>3 DEF Byte
        <5> QED
          BY <5>1, <4>1, <4>3
      <4> QED
        BY <4>2, <4>3, <2>3, <1>8
    <3>2. CASE b \in torn /\ b = y
      <4>1. PICK q \in Machine : SentTo(q, b)
        BY <3>2, <1>0 DEF FramesInv, SentInv
      <4>2. b.id = f.id /\ b.k = x
        BY <3>2, <1>1, <1>3 DEF Byte
      <4>3. b.k < x
        BY <4>1, <4>2, <1>1
      <4> QED
        BY <4>2, <4>3, <1>1
    <3> QED
      BY <3>1, <3>2, <2>3, <1>8
  <2> QED
    BY <1>0, <1>4, <1>11, <2>1, <2>2, <2>3, LineStep
<1>14. HeldInv' /\ QueueOrder' /\ InOrder' /\ SlotInv' /\ HeldOnce' /\ IntactFrames' /\ NewerInv'
  <2>1. y.id = f.id
    BY <1>1, <1>3 DEF Byte
  <2>2. \A n \in Machine : \A b \in OnLine(n)' :
          b \in OnLine(n) \/ \E p \in Port : outgoing[p] # None /\ b.id = outgoing[p].id
    BY <1>1, <1>8, <2>1
  <2>3. \A b \in torn' : b \in torn \/ \E p \in Port : outgoing[p] # None /\ b.id = outgoing[p].id
    BY <1>1, <1>10
  <2> QED
    BY <1>0, <1>4, <1>11, <2>2, <2>3, HoldQuiet
<1> QED
  BY <1>4, <1>6, <1>9, <1>11, <1>13, <1>14, Together

\* Advance as the lemmas see it.
LEMMA AdvanceWrites ==
  ASSUME FramesInv, NEW m \in Machine, Writing(m), Advance(m)
  PROVE  WritesOn(m) /\ accepted' \subseteq Ids
<1>1. busy[m].port \in Port /\ outgoing[busy[m].port] # None
  BY WritingFacts
<1>2. outgoing[busy[m].port].id \in Ids
  BY <1>1, OutgoingFrame
<1>3. accepted \subseteq Ids
  BY DEF FramesInv, TypeOK
<1> QED
  BY <1>2, <1>3 DEF Advance, Finish, WritesOn

\* One more byte is on the line.
LEMMA WriteByteKeeps ==
  ASSUME FramesInv, NEW m \in Machine, WriteByte(m)
  PROVE  FramesInv'
<1>1. /\ Writing(m) /\ Advance(m)
      /\ wire' = [wire EXCEPT ![Other(m)] = Append(@, NextByte(m))]
      /\ site' = site /\ offered' = offered /\ queue' = queue /\ rx' = rx /\ consumed' = consumed
      /\ rdr' = rdr /\ ring' = ring /\ parser' = parser /\ overflow' = overflow
      /\ fault' = fault /\ torn' = torn
  BY DEF WriteByte
<1>2. WritesOn(m) /\ accepted' \subseteq Ids
  BY <1>1, AdvanceWrites
<1>3. fault \subseteq Machine
  BY DEF FramesInv, TypeOK
<1>4. PICK put \in BOOLEAN : put = TRUE
  OBVIOUS
<1>5. wire' = IF put THEN [wire EXCEPT ![Other(m)] = Append(@, NextByte(m))] ELSE wire
  BY <1>1, <1>4
<1>6. PICK f : f = outgoing[busy[m].port]
  OBVIOUS
<1>7. PICK x : x = busy[m].next
  OBVIOUS
<1> QED
  BY <1>1, <1>2, <1>3, <1>5, <1>6, <1>7, WriterKeeps

\* A byte is not sent.
LEMMA M33DropByteKeeps ==
  ASSUME FramesInv, M33DropByte
  PROVE  FramesInv'
<1>1. /\ Writing("m33") /\ Advance("m33") /\ torn' = torn \cup {NextByte("m33")}
      /\ wire' = wire
      /\ site' = site /\ offered' = offered /\ queue' = queue /\ rx' = rx /\ consumed' = consumed
      /\ rdr' = rdr /\ ring' = ring /\ parser' = parser /\ overflow' = overflow
      /\ fault' = fault
  BY DEF M33DropByte, line
<1>2. "m33" \in Machine
  BY DEF Machine
<1>3. WritesOn("m33") /\ accepted' \subseteq Ids
  BY <1>1, <1>2, AdvanceWrites
<1>4. fault \subseteq Machine
  BY DEF FramesInv, TypeOK
<1>5. PICK put \in BOOLEAN : put = FALSE
  OBVIOUS
<1>6. wire' = IF put THEN [wire EXCEPT ![Other("m33")] = Append(@, NextByte("m33"))] ELSE wire
  BY <1>1, <1>5
<1>7. PICK f : f = outgoing[busy["m33"].port]
  OBVIOUS
<1>8. PICK x : x = busy["m33"].next
  OBVIOUS
<1>9. NextByte("m33") = Byte(f.id, x) /\ x \in 1..TotalLen(f.len) /\ x \in Nat
  BY <1>1, <1>2, <1>7, <1>8, WritingFacts
<1>10. \A b \in torn' : \/ b \in torn
                        \/ \E k \in 1..TotalLen(f.len) : /\ b = Byte(f.id, k) /\ k >= x
                                                         /\ k = x => ~put
                                                         /\ k > x => busy'["m33"] = None
  BY <1>1, <1>5, <1>9
<1> QED
  BY <1>1, <1>2, <1>3, <1>4, <1>6, <1>7, <1>8, <1>10, WriterKeeps

\* A frame ends where it is.
LEMMA AbortWriteKeeps ==
  ASSUME FramesInv, NEW m \in Machine, AbortWrite(m)
  PROVE  FramesInv'
<1>1. /\ Writing(m)
      /\ busy' = [busy EXCEPT ![m] = None] /\ outgoing' = [outgoing EXCEPT ![busy[m].port] = None]
      /\ fault' = fault \cup {m}
      /\ site' = site /\ offered' = offered /\ queue' = queue /\ rx' = rx /\ consumed' = consumed
      /\ rdr' = rdr /\ ring' = ring /\ parser' = parser /\ overflow' = overflow /\ accepted' = accepted
  BY DEF AbortWrite
<1>2. WritesOn(m)
  BY <1>1 DEF WritesOn
<1>3. fault' \subseteq Machine /\ accepted' \subseteq Ids /\ busy'[m] = None
  BY <1>1 DEF FramesInv, TypeOK
<1>4. PICK f : f = outgoing[busy[m].port]
  OBVIOUS
<1>5. PICK x : x = busy[m].next
  OBVIOUS
<1>6. x \in 1..TotalLen(f.len) /\ x \in Nat
  BY <1>1, <1>4, <1>5, WritingFacts
<1>7. f.len \in Nat /\ TotalLen(f.len) \in Nat
  <2>1. busy[m].port \in Port /\ outgoing[busy[m].port] # None
    BY <1>1, WritingFacts
  <2> QED
    BY <2>1, <1>4, OutgoingFrame
<1>8. PICK put \in BOOLEAN :
        /\ wire' = IF put THEN [wire EXCEPT ![Other(m)] = Append(@, NextByte(m))] ELSE wire
        /\ torn' = torn \cup BytesFrom(f.id, IF put THEN x + 1 ELSE x, f.len)
  BY <1>4, <1>5 DEF AbortWrite
<1>9. \A b \in torn' : \/ b \in torn
                       \/ \E k \in 1..TotalLen(f.len) : /\ b = Byte(f.id, k) /\ k >= x
                                                        /\ k = x => ~put
                                                        /\ k > x => busy'[m] = None
  <2> SUFFICES ASSUME NEW b \in BytesFrom(f.id, IF put THEN x + 1 ELSE x, f.len)
               PROVE  \E k \in 1..TotalLen(f.len) : b = Byte(f.id, k) /\ k >= x /\ (k = x => ~put)
    BY <1>3, <1>8
  <2>1. PICK k \in (IF put THEN x + 1 ELSE x)..TotalLen(f.len) : b = Byte(f.id, k)
    BY DEF BytesFrom
  <2>2. k \in 1..TotalLen(f.len) /\ k >= x /\ (k = x => ~put)
    BY <1>6, <1>7
  <2> QED
    BY <2>1, <2>2
<1>10. wire' = IF put THEN [wire EXCEPT ![Other(m)] = Append(@, NextByte(m))] ELSE wire
  BY <1>8
<1>11. /\ Writing(m) /\ site' = site /\ offered' = offered /\ queue' = queue /\ rx' = rx
       /\ consumed' = consumed /\ rdr' = rdr /\ ring' = ring /\ parser' = parser /\ overflow' = overflow
  BY <1>1
<1> QED
  BY <1>2, <1>3, <1>4, <1>5, <1>9, <1>10, <1>11, WriterKeeps

-----------------------------------------------------------------------------
(* The receive register and the ring of the M33. *)

\* A step of the register: the M33's unread bytes stay, or one is lost.
RegisterStep ==
  /\ site' = site /\ offered' = offered /\ queue' = queue /\ rx' = rx /\ consumed' = consumed
  /\ outgoing' = outgoing /\ busy' = busy /\ parser' = parser /\ accepted' = accepted /\ fault' = fault
  /\ overflow' = overflow /\ wire'["host"] = wire["host"]
  /\ wire' \in [Machine -> Bytes] /\ rdr' \in Optional /\ ring' \in Bytes /\ Len(ring') < RX_RING_CAP
  /\ Unread("m33")' \in Bytes
  /\ \/ Unread("m33")' = Unread("m33") /\ torn' = torn
     \/ \E x : /\ Shrunk(Unread("m33"), Unread("m33")', x)
               /\ torn' = torn \cup {Unread("m33")[x]}

\* The M33 has read nothing yet.
LEMMA RegisterKeeps ==
  ASSUME FramesInv, RegisterStep
  PROVE  FramesInv'
<1> USE DEF RegisterStep
<1>0. TypeOK /\ FramesInv /\ "m33" \in Machine /\ \A n \in Machine : n = "host" \/ n = "m33"
  BY DEF FramesInv, Machine
<1>1. Port' = Port /\ Role' = Role /\ Writes' = Writes /\ Drains' = Drains /\ Ids' = Ids
  BY DEF Port, Role, Writes, Drains, Ids
<1>2. OfferedKept /\ OfferedInv' /\ OutgoingInv'
  BY <1>0, <1>1, SameOffered DEF OfferedKept, FramesInv, OutgoingInv
<1>3. WritersGoOn
  <2>1. \A n \in Machine : Writing(n) => busy[n].next \in Nat
    BY <1>0 DEF TypeOK, Writing, Writes, Drains
  <2> QED
    BY <2>1 DEF WritersGoOn, Writing
<1>4. BusyInv'
  BY <1>0 DEF FramesInv, BusyInv, HostOf
<1>5. Unread("host")' = Unread("host")
  BY DEF Unread
<1>6. PICK s \in Bytes : s = Unread("m33")
  BY <1>0, UnreadType
<1>7. PICK t \in Bytes : t = Unread("m33")'
  OBVIOUS
<1>8. BytesOf(t) \subseteq BytesOf(s)
  <2>1. ASSUME NEW x, Shrunk(s, t, x)
        PROVE  BytesOf(t) \subseteq BytesOf(s)
    BY <2>1, ShrunkKeeps
  <2> QED
    BY <1>6, <1>7, <2>1
<1>9. \A n \in Machine : OnLine(n)' \subseteq OnLine(n)
  <2>1. OnLine("host")' = OnLine("host")
    BY <1>5 DEF OnLine, BytesOf
  <2>2. OnLine("m33")' = BytesOf(parser["m33"].buf) \cup BytesOf(t)
    BY <1>7 DEF OnLine, BytesOf
  <2>3. OnLine("m33")' \subseteq OnLine("m33")
    BY <2>2, <1>6, <1>8 DEF OnLine
  <2> QED
    BY <2>1, <2>3, <1>0
<1>10. SortedInv' /\ NeedInv'
  <2>1. \A n \in Machine :
          /\ Unread(n)' \in Bytes
          /\ \/ Unread(n)' = Unread(n)
             \/ \E x : Shrunk(Unread(n), Unread(n)', x)
    BY <1>0, <1>5, UnreadType
  <2> QED
    BY <2>1, OrderStep
<1>11. ASSUME NEW b \in torn', b \notin torn
       PROVE  /\ b \in OnLine("m33")
              /\ b.id # 0 => b \notin BytesOf(t) /\ b \notin BytesOf(parser["m33"].buf)
  <2>1. PICK x : Shrunk(s, t, x) /\ b = s[x]
    BY <1>6, <1>7, <1>11
  <2>2. Sorted(s) /\ \A d \in BytesOf(parser["m33"].buf), c \in BytesOf(s) : Before(d, c)
    BY <1>0, <1>6 DEF FramesInv, SortedInv, Sorted
  <2>3. b \in BytesOf(s) /\ \A c \in BytesOf(t) : Before(c, b) \/ Before(b, c)
    BY <2>1, <2>2, ShrunkKeeps
  <2>4. b \in OnLine("m33")
    BY <2>3, <1>6 DEF OnLine
  <2>5. b.id \in Nat /\ b.k \in Nat
    BY <2>4, <1>0, LineTypes DEF LineByte
  <2>6. b.id # 0 => ~Before(b, b)
    BY <2>5 DEF Before
  <2> QED
    BY <2>2, <2>3, <2>4, <2>6
<1>12. TypeOK'
  <2>1. \A b \in torn' : b \in LineByte
    <3>1. \A b \in torn' : b \in torn \/ b \in OnLine("m33")
      BY <1>11
    <3> QED
      BY <3>1, <1>0, LineTypes DEF TypeOK
  <2> QED
    BY <1>0, <1>1, <2>1 DEF TypeOK, Bytes, Optional
<1>13. SentInv' /\ LostInv'
  <2>1. \A n \in Machine : \A b \in OnLine(n)' : b \in OnLine(n)
    BY <1>9
  <2>2. \A b \in torn' : b \in torn \/ \E n \in Machine : b \in OnLine(n)
    BY <1>0, <1>11
  <2>3. ASSUME NEW n \in Machine, NEW b \in OnLine(n)', b.id # 0, b \in torn'
        PROVE  b \in OnLine(n) /\ b \in torn
    <3>1. CASE b \notin torn
      <4>1. b \in OnLine("m33") /\ b \notin BytesOf(t) /\ b \notin BytesOf(parser["m33"].buf)
        BY <3>1, <2>3, <1>11
      <4>2. SentTo("m33", b) /\ SentTo(n, b)
        BY <4>1, <2>1, <2>3, <1>0, LineTypes
      <4>3. n = "m33"
        BY <4>2, <2>3 DEF SentTo
      <4>4. b \in BytesOf(parser["m33"].buf) \/ b \in BytesOf(t)
        BY <4>3, <2>3, <1>7 DEF OnLine, BytesOf
      <4> QED
        BY <4>1, <4>4
    <3> QED
      BY <3>1, <2>1, <2>3
  <2> QED
    BY <1>0, <1>2, <1>3, <1>12, <2>1, <2>2, <2>3, LineStep
<1>14. HeldInv' /\ QueueOrder' /\ InOrder' /\ SlotInv' /\ HeldOnce' /\ IntactFrames' /\ NewerInv'
  <2>1. \A b \in torn' : b \in torn \/ \E n \in Machine : b \in OnLine(n)
    BY <1>0, <1>11
  <2>2. \A n \in Machine : \A b \in OnLine(n)' : b \in OnLine(n)
    BY <1>9
  <2> QED
    BY <1>0, <1>2, <1>12, <2>1, <2>2, HoldQuiet
<1> QED
  BY <1>2, <1>4, <1>10, <1>12, <1>13, <1>14, Together

\* A byte comes to the register, or is overrun.
LEMMA ArriveIsRegister ==
  ASSUME TypeOK, Arrive
  PROVE  RegisterStep
<1>1. TypeOK
  OBVIOUS
<1>2. /\ site' = site /\ offered' = offered /\ queue' = queue /\ rx' = rx /\ consumed' = consumed
      /\ outgoing' = outgoing /\ busy' = busy /\ parser' = parser /\ accepted' = accepted
      /\ fault' = fault /\ overflow' = overflow /\ ring' = ring
      /\ wire["m33"] # <<>> /\ wire' = [wire EXCEPT !["m33"] = Tail(@)]
  BY DEF Arrive
<1>3. ring \in Bytes /\ wire["host"] \in Bytes /\ wire["m33"] \in Bytes /\ rdr \in Optional
      /\ Len(ring) < RX_RING_CAP
  BY <1>1 DEF TypeOK, Bytes, Machine, Optional
<1>4. Tail(wire["m33"]) \in Bytes /\ Head(wire["m33"]) \in LineByte
  BY <1>2, <1>3, TailShrinks
<1>5. wire' \in [Machine -> Bytes] /\ wire'["m33"] = Tail(wire["m33"]) /\ wire'["host"] = wire["host"]
  BY <1>1, <1>2, <1>4 DEF TypeOK, Bytes, Machine
<1>6. /\ Unread("m33") = Joined(ring, rdr, wire["m33"])
      /\ Unread("m33")' = Joined(ring, rdr', Tail(wire["m33"]))
  BY <1>2, <1>5 DEF Unread
<1>7. CASE rdr = None /\ rdr' = Head(wire["m33"]) /\ torn' = torn
  <2>1. Joined(ring, Head(wire["m33"]), Tail(wire["m33"])) \in Bytes
    BY <1>3, <1>4, JoinedFull
  <2>2. Joined(ring, None, wire["m33"]) \in Bytes
    BY <1>3, JoinedEmpty
  <2>3. Same(Joined(ring, None, wire["m33"]), Joined(ring, Head(wire["m33"]), Tail(wire["m33"])))
    BY <1>2, <1>3, ArriveKeeps
  <2>4. Joined(ring, Head(wire["m33"]), Tail(wire["m33"])) = Joined(ring, None, wire["m33"])
    BY <2>1, <2>2, <2>3, SameIsEqual
  <2>5. Unread("m33")' = Unread("m33") /\ Unread("m33")' \in Bytes /\ torn' = torn
    BY <1>6, <1>7, <2>1, <2>4
  <2>6. rdr' \in Optional
    BY <1>4, <1>7 DEF Optional
  <2> QED
    BY <1>2, <1>3, <1>5, <2>5, <2>6 DEF RegisterStep
<1>8. CASE rdr # None /\ rdr' = rdr /\ torn' = torn \cup {Head(wire["m33"])}
  <2>1. rdr \in LineByte
    BY <1>3, <1>8 DEF Optional
  <2>2. /\ Shrunk(Joined(ring, rdr, wire["m33"]), Joined(ring, rdr, Tail(wire["m33"])), Len(ring) + 2)
        /\ Joined(ring, rdr, wire["m33"])[Len(ring) + 2] = Head(wire["m33"])
    BY <1>2, <1>3, <2>1, OverrunShrinks
  <2>3. Joined(ring, rdr, Tail(wire["m33"])) \in Bytes
    BY <1>3, <1>4, <2>1, JoinedFull
  <2>4. PICK x : x = Len(ring) + 2
    OBVIOUS
  <2>5. /\ Shrunk(Unread("m33"), Unread("m33")', x)
        /\ torn' = torn \cup {Unread("m33")[x]}
    BY <1>6, <1>8, <2>2, <2>4
  <2>6. Unread("m33")' \in Bytes /\ rdr' \in Optional
    BY <1>3, <1>6, <1>8, <2>3
  <2> QED
    BY <1>2, <1>3, <1>5, <2>5, <2>6 DEF RegisterStep
<1> QED
  BY <1>7, <1>8 DEF Arrive

\* The byte moves from the register to the ring, or is dropped.
LEMMA PumpIsRegister ==
  ASSUME TypeOK, PumpRxRing
  PROVE  RegisterStep
<1>1. TypeOK
  OBVIOUS
<1>2. /\ site' = site /\ offered' = offered /\ queue' = queue /\ rx' = rx /\ consumed' = consumed
      /\ outgoing' = outgoing /\ busy' = busy /\ parser' = parser /\ accepted' = accepted
      /\ fault' = fault /\ overflow' = overflow /\ wire' = wire
      /\ rdr # None /\ rdr' = None
  BY DEF PumpRxRing
<1>3. ring \in Bytes /\ wire["m33"] \in Bytes /\ rdr \in LineByte /\ Len(ring) < RX_RING_CAP
  BY <1>1, <1>2 DEF TypeOK, Bytes, Machine
<1>4. wire' \in [Machine -> Bytes] /\ rdr' \in Optional
  BY <1>1, <1>2 DEF TypeOK, Bytes, Optional
<1>5. /\ Unread("m33") = Joined(ring, rdr, wire["m33"])
      /\ Unread("m33")' = Joined(ring', None, wire["m33"])
  BY <1>2 DEF Unread
<1>6. CASE ring' = ring /\ torn' = torn \cup {rdr}
  <2>1. /\ Shrunk(Joined(ring, rdr, wire["m33"]), Joined(ring, None, wire["m33"]), Len(ring) + 1)
        /\ Joined(ring, rdr, wire["m33"])[Len(ring) + 1] = rdr
    BY <1>3, RegisterShrinks
  <2>2. Joined(ring, None, wire["m33"]) \in Bytes
    BY <1>3, JoinedEmpty
  <2>3. PICK x : x = Len(ring) + 1
    OBVIOUS
  <2>4. /\ Shrunk(Unread("m33"), Unread("m33")', x)
        /\ torn' = torn \cup {Unread("m33")[x]}
    BY <1>5, <1>6, <2>1, <2>3
  <2>5. Unread("m33")' \in Bytes /\ ring' \in Bytes /\ Len(ring') < RX_RING_CAP /\ wire'["host"] = wire["host"]
    BY <1>2, <1>3, <1>5, <1>6, <2>2
  <2> QED
    BY <1>2, <1>4, <2>4, <2>5 DEF RegisterStep
<1>7. CASE Len(ring) + 1 # RX_RING_CAP /\ ring' = Append(ring, rdr) /\ torn' = torn
  <2>1. Append(ring, rdr) \in Bytes /\ Len(Append(ring, rdr)) = Len(ring) + 1 /\ Len(ring) \in Nat
    BY <1>3, Appended
  <2>2. Len(ring') < RX_RING_CAP
    <3>1. RX_RING_CAP \in Nat
      BY UartAssumption
    <3>2. Len(Append(ring, rdr)) < RX_RING_CAP
      BY <1>3, <1>7, <2>1, <3>1
    <3> QED
      BY <3>2, <1>7
  <2>3. Joined(Append(ring, rdr), None, wire["m33"]) \in Bytes
    BY <1>3, <2>1, JoinedEmpty
  <2>4. Joined(ring, rdr, wire["m33"]) \in Bytes
    BY <1>3, JoinedFull
  <2>5. Joined(Append(ring, rdr), None, wire["m33"]) = Joined(ring, rdr, wire["m33"])
    BY <1>3, <2>3, <2>4, PumpKeeps, SameIsEqual
  <2>6. Unread("m33")' = Unread("m33") /\ Unread("m33")' \in Bytes /\ ring' \in Bytes
    BY <1>5, <1>7, <2>1, <2>3, <2>5
  <2>7. wire'["host"] = wire["host"] /\ torn' = torn
    BY <1>2, <1>7
  <2> QED
    BY <1>2, <1>4, <2>2, <2>6, <2>7 DEF RegisterStep
<1> QED
  BY <1>6, <1>7 DEF PumpRxRing

-----------------------------------------------------------------------------
(* Reading. *)

\* A byte is taken from the register, the ring or the tty.
LEMMA TakeTypes ==
  ASSUME TypeOK, BusyInv, NEW m \in Machine, Draining(m), Readable(m) # <<>>, TakeByte(m)
  PROVE  /\ wire' \in [Machine -> Seq(LineByte)] /\ rdr' \in LineByte \cup {None}
         /\ ring' \in Seq(LineByte) /\ Len(ring') < RX_RING_CAP
         /\ \A n \in Machine : Unread(n)' \in Bytes
         /\ m = "host" => /\ busy["host"].left \in Nat /\ busy["host"].left > 0
                          /\ Len(wire'["host"]) = Len(wire["host"]) - 1
         /\ m = "m33" => wire' = wire
<1>1. ring \in Bytes /\ wire["host"] \in Bytes /\ wire["m33"] \in Bytes /\ rdr \in Optional
      /\ Len(ring) < RX_RING_CAP /\ wire \in [Machine -> Seq(LineByte)]
  BY DEF TypeOK, Bytes, Machine, Optional
<1>2. /\ wire' \in [Machine -> Seq(LineByte)] /\ rdr' \in LineByte \cup {None}
      /\ ring' \in Seq(LineByte) /\ Len(ring') < RX_RING_CAP
      /\ m = "host" => /\ busy["host"].left \in Nat /\ busy["host"].left > 0
                       /\ Len(wire'["host"]) = Len(wire["host"]) - 1
      /\ m = "m33" => wire' = wire
  <2>1. CASE m = "host"
    <3>1. busy["host"].left \in Nat /\ busy["host"].left <= Len(wire["host"])
      BY <2>1 DEF TypeOK, BusyInv, Draining, Machine, Writes, Drains
    <3>2. Readable(m) = SubSeq(wire["host"], 1, busy["host"].left)
      BY <2>1 DEF Readable
    <3>3. wire["host"] # <<>> /\ busy["host"].left > 0
      BY <1>1, <2>1, <3>1, <3>2 DEF Bytes
    <3>4. wire' = [wire EXCEPT !["host"] = Tail(@)] /\ rdr' = rdr /\ ring' = ring
      BY <2>1 DEF TakeByte
    <3>5. Tail(wire["host"]) \in Bytes /\ Len(Tail(wire["host"])) = Len(wire["host"]) - 1
      BY <1>1, <3>3 DEF Bytes
    <3>6. wire' \in [Machine -> Seq(LineByte)] /\ wire'["host"] = Tail(wire["host"])
      BY <1>1, <3>4, <3>5 DEF Bytes, Machine
    <3> QED
      BY <1>1, <2>1, <3>1, <3>3, <3>4, <3>5, <3>6 DEF Bytes, Optional
  <2>2. CASE m = "m33" /\ ring # <<>>
    <3>1. wire' = wire /\ rdr' = rdr /\ ring' = Tail(ring)
      BY <2>2 DEF TakeByte
    <3>2. Tail(ring) \in Bytes /\ Len(Tail(ring)) = Len(ring) - 1 /\ Len(ring) \in Nat
      BY <1>1, <2>2 DEF Bytes
    <3>3. RX_RING_CAP \in Nat
      BY UartAssumption
    <3>4. Len(Tail(ring)) < RX_RING_CAP
      BY <1>1, <3>2, <3>3
    <3> QED
      BY <1>1, <2>2, <3>1, <3>2, <3>4 DEF Bytes, Optional
  <2>3. CASE m = "m33" /\ ring = <<>>
    <3>1. wire' = wire /\ rdr' = None /\ ring' = ring
      BY <2>3 DEF TakeByte
    <3> QED
      BY <1>1, <2>3, <3>1 DEF Bytes
  <2> QED
    BY <2>1, <2>2, <2>3 DEF Machine
<1>3. wire'["host"] \in Bytes /\ wire'["m33"] \in Bytes /\ ring' \in Bytes /\ rdr' \in Optional
  BY <1>2 DEF Bytes, Machine, Optional
<1>4. \A r \in Bytes, g \in Optional, w \in Bytes : Joined(r, g, w) \in Bytes
  BY JoinedPlaces
<1>5. Joined(ring', rdr', wire'["m33"]) \in Bytes
  BY <1>3, <1>4
<1>6. Unread("host")' \in Bytes /\ Unread("m33")' \in Bytes
  BY <1>3, <1>5 DEF Unread
<1> QED
  BY <1>2, <1>6 DEF Machine

\* The line after a byte was read: the parser keeps bytes it had, or the one.
LEMMA ReadStep ==
  ASSUME FramesInv, NEW m \in Machine, Draining(m), Readable(m) # <<>>, TakeByte(m),
         NEW b, b = Head(Readable(m)), NEW res \in ParserPush(parser[m], b),
         parser' = [parser EXCEPT ![m] = res.parser], OfferedKept
  PROVE  /\ b \in OnLine(m) /\ b \in LineByte
         /\ DOMAIN parser' = Machine /\ \A n \in Machine : ParserOK(parser'[n])
         /\ \A n \in Machine : OnLine(n)' \subseteq OnLine(n)
         /\ \A c \in BytesOf(Unread(m)') : Before(b, c)
         /\ SortedInv' /\ NeedInv'
         /\ res.id # None /\ res.id # NextId =>
              /\ res.id \in Ids \cup {0} /\ OnLine(m)' = BytesOf(Unread(m)')
              /\ b = Byte(res.id, TotalLen(LenOf(res.id)))
              /\ \A k \in (MAGIC_LEN + 1)..TotalLen(LenOf(res.id)) : Byte(res.id, k) \in OnLine(m)
<1>0. TypeOK /\ BusyInv /\ SortedInv /\ NeedInv
  BY DEF FramesInv
<1>1. /\ b = Unread(m)[1] /\ b \in LineByte /\ Shrunk(Unread(m), Unread(m)', 1)
      /\ Unread(Other(m))' = Unread(Other(m))
  BY <1>0, ReadableFirst
<1>2. \A n \in Machine : n = m \/ n = Other(m)
  BY DEF Machine, Other
<1>3. PICK s \in Bytes : s = Unread(m)
  BY <1>0, UnreadType
<1>4. PICK t \in Bytes : t = Unread(m)'
  BY <1>0, TakeTypes
<1>5. PICK a : a = parser[m] /\ ParserOK(a) /\ a.buf \in Bytes
  BY <1>0, UnreadType
<1>6. Sorted(s) /\ \A d \in BytesOf(a.buf), c \in BytesOf(s) : Before(d, c)
  BY <1>0, <1>3, <1>5 DEF SortedInv, Sorted
<1>7. /\ BytesOf(t) \subseteq BytesOf(s) /\ b \in BytesOf(s) /\ Sorted(t)
      /\ \A c \in BytesOf(t) : Before(b, c)
  <2>1. Shrunk(s, t, 1) /\ b = s[1]
    BY <1>1, <1>3, <1>4
  <2>2. BytesOf(t) \subseteq BytesOf(s) /\ s[1] \in BytesOf(s)
    BY <2>1, ShrunkKeeps
  <2>3. Sorted(t) /\ \A c \in BytesOf(t) : Before(s[1], c)
    BY <2>1, <1>6, ShrunkKeeps
  <2> QED
    BY <2>1, <2>2, <2>3
<1>8. b \in OnLine(m)
  BY <1>3, <1>7 DEF OnLine
<1>9. b.id \in Ids \cup {0} /\ \A c \in BytesOf(a.buf) : c.id \in Ids \cup {0}
  <2>1. \A c \in OnLine(m) : c.id \in Ids \cup {0}
    BY LineTypes
  <2>2. BytesOf(a.buf) \subseteq OnLine(m)
    BY <1>5 DEF OnLine
  <2> QED
    BY <1>8, <2>1, <2>2
<1>10. NeedOK(a)
  BY <1>0, <1>5 DEF NeedInv, NeedOK, h
<1>11. res \in ParserPush(a, b)
  BY <1>5
<1>12. /\ ParserOK(res.parser) /\ BytesOf(res.parser.buf) \subseteq BytesOf(a.buf) \cup {b}
       /\ NeedOK(res.parser)
  BY <1>0, <1>1, <1>5, <1>9, <1>10, <1>11, PushKeepsParser
<1>13. /\ DOMAIN parser' = Machine /\ parser'[m] = res.parser
       /\ \A n \in Machine : n # m => parser'[n] = parser[n]
  BY <1>0 DEF TypeOK
<1>14. \A n \in Machine : ParserOK(parser'[n])
  BY <1>0, <1>12, <1>13 DEF TypeOK
<1>15. OnLine(m)' = BytesOf(res.parser.buf) \cup BytesOf(t)
  BY <1>4, <1>13 DEF OnLine, BytesOf
<1>16. \A n \in Machine : OnLine(n)' \subseteq OnLine(n)
  <2>1. OnLine(m)' \subseteq OnLine(m)
    BY <1>3, <1>5, <1>7, <1>12, <1>15 DEF OnLine
  <2>2. ASSUME NEW n \in Machine, n # m
        PROVE  OnLine(n)' = OnLine(n)
    BY <2>2, <1>1, <1>2, <1>13 DEF OnLine, BytesOf
  <2> QED
    BY <2>1, <2>2
<1>17. \A d \in BytesOf(res.parser.buf), c \in BytesOf(t) : Before(d, c)
  BY <1>6, <1>7, <1>12
<1>18. ASSUME NEW n \in Machine, NEW c \in BytesOf(parser'[n].buf) \cup BytesOf(Unread(n)')
       PROVE  c \in OnLine(n)' /\ c.id \in Ids \cup {0}
  <2>1. c \in OnLine(n)' /\ c \in OnLine(n)
    BY <1>16 DEF OnLine, BytesOf
  <2>2. c.id \in Ids \cup {0}
    BY <2>1, LineTypes
  <2> QED
    BY <2>1, <2>2
<1>19. SortedInv'
  <2>1. ASSUME NEW n \in Machine
        PROVE  \E u : /\ u = Unread(n)' /\ Sorted(u)
                      /\ \A d \in BytesOf(parser'[n].buf), c \in BytesOf(u) : Before(d, c)
    <3>1. CASE n = m
      BY <3>1, <1>4, <1>7, <1>13, <1>17
    <3>2. CASE n # m
      <4>1. Unread(n)' = Unread(n) /\ parser'[n] = parser[n]
        BY <3>2, <1>1, <1>2, <1>13
      <4>2. Sorted(Unread(n)) /\ \A d \in BytesOf(parser[n].buf), c \in BytesOf(Unread(n)) : Before(d, c)
        BY <1>0 DEF SortedInv, Sorted
      <4>3. PICK u : u = Unread(n)
        OBVIOUS
      <4>4. u = Unread(n)' /\ Sorted(u) /\ \A d \in BytesOf(parser'[n].buf), c \in BytesOf(u) : Before(d, c)
        BY <4>1, <4>2, <4>3
      <4> QED
        BY <4>4
    <3> QED
      BY <3>1, <3>2
  <2>2. ASSUME NEW n \in Machine, NEW i \in 1..Len(Unread(n)'), NEW j \in 1..Len(Unread(n)'), i < j
        PROVE  Before(Unread(n)[i], Unread(n)[j])'
    <3>1. PICK u : u = Unread(n)' /\ Sorted(u)
      BY <2>1
    <3>2. Before(u[i], u[j])
      BY <2>2, <3>1 DEF Sorted
    <3>3. u[i].id \in Ids \cup {0} /\ u[j].id \in Ids \cup {0}
      <4>1. u[i] \in BytesOf(Unread(n)') /\ u[j] \in BytesOf(Unread(n)')
        BY <2>2, <3>1 DEF BytesOf
      <4> QED
        BY <4>1, <1>18
    <3> QED
      BY <3>1, <3>2, <3>3 DEF Before, OfferedKept
  <2>3. ASSUME NEW n \in Machine, NEW d \in BytesOf(parser'[n].buf), NEW c \in BytesOf(Unread(n)')
        PROVE  Before(d, c)'
    <3>1. PICK u : u = Unread(n)' /\ \A d_1 \in BytesOf(parser'[n].buf), e \in BytesOf(u) : Before(d_1, e)
      BY <2>1
    <3>2. Before(d, c)
      BY <3>1
    <3>3. d.id \in Ids \cup {0} /\ c.id \in Ids \cup {0}
      BY <1>18
    <3> QED
      BY <3>2, <3>3 DEF Before, OfferedKept
  <2> QED
    BY <2>2, <2>3 DEF SortedInv, BytesOf
<1>20. NeedInv'
  <2>1. \A n \in Machine : NeedOK(parser'[n])
    <3>1. \A n \in Machine : NeedOK(parser[n])
      BY <1>0 DEF NeedInv, NeedOK, h
    <3> QED
      BY <3>1, <1>12, <1>13
  <2>2. ASSUME NEW n \in Machine, Len(parser'[n].buf) >= h
        PROVE  /\ parser'[n].buf[h].id \in Ids \cup {0}
               /\ \A id \in Ids : offered'[id] = offered[id]
    <3>1. parser'[n].buf \in Bytes /\ h \in Nat /\ h > 0
      BY <1>14, Constants DEF ParserOK, Bytes, h
    <3>2. parser'[n].buf[h] \in BytesOf(parser'[n].buf)
      BY <2>2, <3>1 DEF BytesOf, Bytes
    <3> QED
      BY <3>2, <1>18 DEF OfferedKept
  <2>3. ASSUME NEW n \in Machine, Len(parser'[n].buf) >= h, parser'[n].buf[h].k = h
        PROVE  parser'[n].need = TotalLen(LenOf(parser'[n].buf[h].id))
    BY <2>1, <2>3 DEF NeedOK
  <2> QED
    BY <2>2, <2>3 DEF NeedInv, h, LenOf
<1>21. ASSUME res.id # None, res.id # NextId
       PROVE  /\ res.id \in Ids \cup {0} /\ OnLine(m)' = BytesOf(t)
              /\ b = Byte(res.id, TotalLen(LenOf(res.id)))
              /\ \A k \in (MAGIC_LEN + 1)..TotalLen(LenOf(res.id)) : Byte(res.id, k) \in OnLine(m)
  <2>1. /\ res.id \in Ids \cup {0} /\ res.parser = EmptyParser
        /\ b = Byte(res.id, TotalLen(LenOf(res.id)))
        /\ \A k \in (MAGIC_LEN + 1)..TotalLen(LenOf(res.id)) :
             k # TotalLen(LenOf(res.id)) => Byte(res.id, k) \in BytesOf(a.buf)
    BY <1>0, <1>1, <1>5, <1>9, <1>10, <1>11, <1>21, CompletesWhole
  <2>2. BytesOf(res.parser.buf) = {}
    BY <2>1 DEF EmptyParser, BytesOf
  <2>3. BytesOf(a.buf) \subseteq OnLine(m)
    BY <1>5 DEF OnLine
  <2> QED
    BY <2>1, <2>2, <2>3, <1>8, <1>15
<1> QED
  BY <1>1, <1>4, <1>7, <1>8, <1>13, <1>14, <1>16, <1>19, <1>20, <1>21

\* A whole frame is what its role may hold.
LEMMA WholeIsSafe ==
  ASSUME FramesInv, NEW m \in Machine, offered' = offered, site' = site, outgoing' = outgoing, torn' = torn,
         NEW id \in Ids, NEW b, b = Byte(id, TotalLen(LenOf(id))), b \in OnLine(m),
         \A k \in (MAGIC_LEN + 1)..TotalLen(LenOf(id)) : Byte(id, k) \in OnLine(m),
         \A n \in Machine : OnLine(n)' \subseteq OnLine(n),
         \A c \in OnLine(m)' : Before(b, c)
  PROVE  /\ offered[id] \in Frame /\ offered[id].id = id /\ offered[id].to \in Role /\ site.kind = "uart"
         /\ \A i \in Held(offered[id].to) : offered[i].from = offered[id].from => i < id
         /\ Safe(offered[id].to, id)'
<1>0. TypeOK /\ OfferedInv /\ OutgoingInv /\ BusyInv /\ LostInv /\ NewerInv
  BY DEF FramesInv
<1>1. id # 0 /\ id \in Nat /\ Ids' = Ids /\ Port' = Port
  BY <1>0 DEF Ids, Port, TypeOK
<1>2. PICK f \in Frame : f = offered[id] /\ LenOf(id) = f.len /\ TotalLen(f.len) \in Nat /\ f.to \in Role /\ f.id = id
  <2>1. offered[id] \in Frame /\ LenOf(id) = offered[id].len /\ TotalLen(LenOf(id)) \in Nat
    BY <1>0, <1>1, LengthOf
  <2>2. offered[id].id = id /\ offered[id].to \in Role
    BY <1>0 DEF OfferedInv
  <2> QED
    BY <2>1, <2>2
<1>3. b = Byte(id, TotalLen(f.len)) /\ b.id = id /\ b.k = TotalLen(f.len)
  BY <1>2 DEF Byte
<1>4. SentTo(m, b) /\ site.kind = "uart" /\ HostOf(f.to) = m
  <2>1. SentTo(m, b)
    BY LineTypes
  <2> QED
    BY <2>1, <1>1, <1>2, <1>3 DEF SentTo
<1>5. \A i \in Held(f.to) : offered[i].from = f.from => i < id
  BY <1>0, <1>1, <1>2, <1>3 DEF NewerInv
<1>6. ~Lost(id)'
  <2> SUFFICES ASSUME NEW k \in (MAGIC_LEN + 1)..TotalLen(f.len), Byte(id, k) \in torn
               PROVE  FALSE
    BY <1>2 DEF Lost
  <2>1. Byte(id, k) \in OnLine(m) /\ Byte(id, k).id = id
    BY <1>2 DEF Byte
  <2> QED
    BY <2>1, <1>0, <1>1 DEF LostInv
<1>7. ASSUME NEW n \in Machine, NEW c \in OnLine(n)', c.id # 0, offered[c.id].from = f.from, offered[c.id].to = f.to
      PROVE  id < c.id
  <2>1. c \in OnLine(n)
    BY <1>7
  <2>2. SentTo(n, c) /\ c.id \in Ids /\ c.k \in Nat
    BY <2>1, <1>7, LineTypes
  <2>3. HostOf(f.to) = n /\ c.k \in 1..TotalLen(offered[c.id].len)
    BY <2>2, <1>7 DEF SentTo
  <2>4. Before(b, c)
    BY <2>3, <1>4, <1>7
  <2>5. id < c.id \/ (id = c.id /\ TotalLen(f.len) < c.k)
    BY <2>4, <1>1, <1>2, <1>3, <1>7 DEF Before
  <2>6. id = c.id => c.k <= TotalLen(f.len)
    BY <2>3, <1>2
  <2> QED
    BY <2>2, <2>5, <2>6, <1>2
<1>8. ASSUME NEW p \in Port, outgoing[p] # None, RoleOf(p) = f.from
      PROVE  id < outgoing[p].id
  <2>1. id <= outgoing[p].id /\ outgoing[p].id \in Ids /\ outgoing[p] = offered[outgoing[p].id]
    BY <1>0, <1>2, <1>8 DEF OutgoingInv
  <2>2. ASSUME outgoing[p].id = id
        PROVE  FALSE
    <3>1. Writing(Other(m)) /\ busy[Other(m)].port = p /\ TotalLen(f.len) < busy[Other(m)].next
      BY <2>2, <1>1, <1>3, <1>4, <1>8 DEF SentTo
    <3>2. Other(m) \in Machine
      BY DEF Other, Machine
    <3>3. busy[Other(m)].next \in 1..TotalLen(outgoing[p].len)
      BY <3>1, <3>2, <1>0 DEF BusyInv, Writing
    <3>4. outgoing[p].len = f.len
      BY <2>1, <2>2, <1>2
    <3> QED
      BY <3>1, <3>3, <3>4, <1>2
  <2>3. outgoing[p].id \in Nat
    BY <2>1 DEF Ids
  <2> QED
    BY <2>1, <2>2, <2>3, <1>1
<1>9. Safe(f.to, id)'
  BY <1>1, <1>2, <1>6, <1>7, <1>8 DEF Safe
<1> QED
  BY <1>2, <1>4, <1>5, <1>9

\* The frame that a byte completes is pushed, or not.
Pushed(id) ==
  /\ id # None /\ id # 0 /\ ~Full(queue[offered[id].to])
  /\ queue' = [queue EXCEPT ![offered[id].to] = PushBack(@, offered[id])]

\* What the roles hold after a byte was read.
LEMMA ReadHolds ==
  ASSUME FramesInv, NEW m \in Machine, site' = site, outgoing' = outgoing, rx' = rx, offered' = offered,
         consumed' = consumed, torn' = torn,
         NEW id, NEW b,
         \A n \in Machine : OnLine(n)' \subseteq OnLine(n),
         \A c \in BytesOf(Unread(m)') : Before(b, c),
         b \in OnLine(m),
         id # None =>
           /\ id \in Ids \cup {0} /\ OnLine(m)' = BytesOf(Unread(m)')
           /\ b = Byte(id, TotalLen(LenOf(id)))
           /\ \A k \in (MAGIC_LEN + 1)..TotalLen(LenOf(id)) : Byte(id, k) \in OnLine(m),
         queue' = queue \/ Pushed(id)
  PROVE  /\ HeldInv' /\ QueueOrder' /\ InOrder' /\ SlotInv'
         /\ DOMAIN queue' = Role /\ \A s \in Role : QueueOK(queue'[s])
         /\ \A r \in Role : \A i \in Held(r)' : i \in Held(r) \/ Safe(r, i)'
         /\ \A r \in Role : Held(r) \subseteq Held(r)'
         /\ Pushed(id) => \E r \in Role : r = offered[id].to /\ id \in Held(r)'
<1>0. TypeOK /\ OfferedKept
  BY DEF FramesInv, OfferedKept, Ids
<1>1. CASE queue' = queue /\ ~Pushed(id)
  <2>1. /\ HeldInv' /\ QueueOrder' /\ InOrder' /\ SlotInv'
        /\ \A r \in Role : Held(r)' = Held(r)
    BY <1>0, <1>1, HoldUnchanged
  <2> QED
    BY <2>1, <1>0, <1>1 DEF TypeOK
<1>2. CASE Pushed(id)
  <2>1. id \in Ids
    BY <1>2 DEF Pushed
  <2>2. /\ b = Byte(id, TotalLen(LenOf(id)))
        /\ \A k \in (MAGIC_LEN + 1)..TotalLen(LenOf(id)) : Byte(id, k) \in OnLine(m)
        /\ \A c \in OnLine(m)' : Before(b, c)
    BY <1>2 DEF Pushed
  <2>3. /\ offered[id] \in Frame /\ offered[id].id = id /\ offered[id].to \in Role /\ site.kind = "uart"
        /\ \A i \in Held(offered[id].to) : offered[i].from = offered[id].from => i < id
        /\ Safe(offered[id].to, id)'
    BY <2>1, <2>2, WholeIsSafe
  <2>4. PICK f \in Frame : f = offered[id] /\ f.id = id
    BY <2>3
  <2>5. PICK r \in Role : r = f.to
    BY <2>3, <2>4
  <2>6. ~Full(queue[r]) /\ queue' = [queue EXCEPT ![r] = PushBack(queue[r], f)]
    BY <1>2, <2>4, <2>5 DEF Pushed
  <2>7. \A i \in Held(r) : offered[i].from = f.from => i < f.id
    BY <2>3, <2>4, <2>5
  <2>8. f.id \in Ids /\ f = offered[f.id] /\ f.to = r /\ site.kind # "split"
    BY <2>1, <2>3, <2>4, <2>5
  <2>9. f.id \in Ids' /\ f = offered'[f.id]
    BY <2>8, <1>0 DEF OfferedKept
  <2>10. /\ HeldInv' /\ QueueOrder' /\ InOrder' /\ SlotInv'
         /\ Held(r)' = Held(r) \cup {f.id} /\ \A s \in Role : s # r => Held(s)' = Held(s)
         /\ DOMAIN queue' = Role /\ \A s \in Role : QueueOK(queue'[s])
    BY <2>6, <2>7, <2>8, <2>9, <1>0, HoldPush
  <2>11. Safe(r, id)'
    BY <2>3, <2>4, <2>5 DEF Safe
  <2>12. ASSUME NEW s \in Role, NEW i \in Held(s)', i \notin Held(s)
         PROVE  Safe(s, i)'
    <3>1. s = r /\ i = id
      BY <2>10, <2>12, <2>4
    <3> QED
      BY <3>1, <2>11
  <2>13. \A s \in Role : Held(s) \subseteq Held(s)'
    BY <2>10
  <2>14. r = offered[id].to /\ id \in Held(r)'
    BY <2>4, <2>5, <2>10
  <2> QED
    BY <2>10, <2>12, <2>13, <2>14
<1> QED
  BY <1>1, <1>2

\* A frame that machine m made up is new, and as good as one that was offered.
LEMMA MadeUpIsNew ==
  ASSUME FramesInv, NEW m \in Machine, NEW f \in MadeUp(m), offered' = Append(offered, f),
         site.kind = "uart", site' = site, outgoing' = outgoing
  PROVE  /\ f \in Frame /\ f.id = NextId /\ f.from = Nobody /\ f.to \in Role /\ HostOf(f.to) = m
         /\ NextId \in Nat /\ NextId \notin Ids /\ NextId \in Ids' /\ offered'[NextId] = f
         /\ \A id \in Ids : id < NextId
         /\ \A id \in Ids' : id \in Ids \/ id = NextId
         /\ offered' \in Seq(Frame) /\ OfferedKept /\ OfferedInv' /\ OutgoingInv'
<1>0. TypeOK /\ OfferedInv /\ OutgoingInv /\ Port' = Port /\ Role' = Role
  BY DEF FramesInv, Port, Role
<1>1. f.id = NextId /\ f.from = Nobody /\ f.to \in Role /\ HostOf(f.to) = m
  BY DEF MadeUp
<1>2. offered \in Seq(Frame) /\ Len(offered) \in Nat /\ NextId = Len(offered) + 1 /\ NextId \in Nat \ {0}
  BY <1>0 DEF TypeOK, NextId
<1>3. f \in Frame
  <2>1. f.lane \in Nat
    <3>1. \A p \in Port : LaneOf(p) \in Nat
      BY <1>0, PortIsPair
    <3> QED
      BY <3>1 DEF MadeUp
  <2>2. f.to \in 0..4
    <3>1. PICK p \in Port : f.to = RoleOf(p)
      BY <1>1 DEF Role, RoleOf
    <3> QED
      BY <3>1, <1>0, PortIsPair
  <2>3. f.len \in PayloadLen /\ f = [id |-> f.id, from |-> f.from, to |-> f.to, lane |-> f.lane, len |-> f.len]
    BY DEF MadeUp
  <2> HIDE DEF NextId
  <2> QED
    BY <2>1, <2>2, <2>3, <1>1, <1>2 DEF Frame, Nobody, PROOF_CARRIER_ROLES
<1>4. /\ offered' \in Seq(Frame) /\ Len(offered') = Len(offered) + 1 /\ offered'[Len(offered) + 1] = f
      /\ \A id \in 1..Len(offered) : offered'[id] = offered[id]
  BY <1>2, <1>3
<1>5. /\ NextId \notin Ids /\ NextId \in Ids' /\ offered'[NextId] = f
      /\ \A id \in Ids : id < NextId /\ id \in Ids' /\ offered'[id] = offered[id]
      /\ \A id \in Ids' : id \in Ids \/ id = NextId
  BY <1>2, <1>4 DEF Ids
<1>6. OfferedKept
  BY <1>5 DEF OfferedKept
<1>7. OfferedInv'
  <2> SUFFICES ASSUME NEW id \in Ids'
               PROVE  /\ offered'[id].id = id /\ offered'[id].to \in Role
                      /\ offered'[id].from # Nobody =>
                           LET g == offered'[id]
                           IN  /\ <<g.from, g.to>> \in site.flow
                               /\ <<g.from, g.lane>> \in Port /\ <<g.to, g.lane>> \in Port
    BY <1>0 DEF OfferedInv, Misread
  <2>1. CASE id \in Ids
    BY <2>1, <1>0, <1>5 DEF OfferedInv, Misread
  <2> QED
    BY <2>1, <1>1, <1>5
<1>8. OutgoingInv'
  <2> SUFFICES ASSUME NEW p \in Port, outgoing[p] # None, NEW id \in Ids', offered'[id].from = RoleOf(p)
               PROVE  id <= outgoing[p].id
    BY <1>0, <1>5 DEF OutgoingInv
  <2>1. RoleOf(p) # Nobody
    BY <1>0, PortIsPair DEF Nobody, PROOF_CARRIER_ROLES
  <2>2. id \in Ids /\ offered[id].from = RoleOf(p)
    BY <2>1, <1>1, <1>5
  <2> QED
    BY <2>2, <1>0 DEF OutgoingInv
<1> QED
  BY <1>1, <1>2, <1>3, <1>4, <1>5, <1>6, <1>7, <1>8

\* What the roles hold after a frame was made up: nobody's bytes were lost, nor
\* are there any to come.
LEMMA MadeUpHolds ==
  ASSUME FramesInv, NEW m \in Machine, NEW f \in MadeUp(m), offered' = Append(offered, f),
         site.kind = "uart", site' = site, outgoing' = outgoing, rx' = rx, consumed' = consumed, torn' = torn,
         \A n \in Machine : OnLine(n)' \subseteq OnLine(n),
         \/ queue' = queue
         \/ ~Full(queue[f.to]) /\ queue' = [queue EXCEPT ![f.to] = PushBack(@, f)]
  PROVE  /\ HeldInv' /\ QueueOrder' /\ InOrder' /\ SlotInv'
         /\ DOMAIN queue' = Role /\ \A s \in Role : QueueOK(queue'[s])
         /\ \A r \in Role : \A i \in Held(r)' : i \in Held(r) \/ Safe(r, i)'
         /\ \A r \in Role : Held(r) \subseteq Held(r)'
<1>0. TypeOK /\ Port' = Port
  BY DEF FramesInv, Port
<1>1. /\ f \in Frame /\ f.id = NextId /\ f.from = Nobody /\ f.to \in Role
      /\ NextId \in Nat /\ NextId \notin Ids /\ NextId \in Ids' /\ offered'[NextId] = f
      /\ \A id \in Ids : id < NextId
      /\ OfferedKept
  BY MadeUpIsNew
<1>2. PICK new : new = NextId
  OBVIOUS
<1>3. CASE queue' = queue
  <2>1. /\ HeldInv' /\ QueueOrder' /\ InOrder' /\ SlotInv'
        /\ \A r \in Role : Held(r)' = Held(r)
    BY <1>1, <1>3, HoldUnchanged
  <2> QED
    BY <2>1, <1>0, <1>3 DEF TypeOK
<1>4. CASE ~Full(queue[f.to]) /\ queue' = [queue EXCEPT ![f.to] = PushBack(@, f)]
  <2>1. PICK r \in Role : r = f.to
    BY <1>1
  <2>2. \A id \in Held(r) : id < f.id
    <3>1. \A id \in Held(r) : id \in Ids
      BY HeldIsSafe DEF Safe
    <3> QED
      BY <3>1, <1>1
  <2>3. f.id \in Ids' /\ f = offered'[f.id] /\ f.to = r
    BY <1>1, <1>2, <2>1
  <2>4. ~Full(queue[r]) /\ queue' = [queue EXCEPT ![r] = PushBack(queue[r], f)]
    BY <1>4, <2>1
  <2>5. /\ HeldInv' /\ QueueOrder' /\ InOrder' /\ SlotInv'
        /\ Held(r)' = Held(r) \cup {f.id} /\ \A s \in Role : s # r => Held(s)' = Held(s)
        /\ DOMAIN queue' = Role /\ \A s \in Role : QueueOK(queue'[s])
    BY <1>1, <2>2, <2>3, <2>4, HoldPush
  <2>6. ASSUME NEW n \in Machine, NEW b \in OnLine(n)', b.id # 0
        PROVE  b.id \in Ids /\ offered'[b.id].from # Nobody
    <3>1. SentTo(n, b)
      BY <2>6, LineTypes
    <3> QED
      BY <3>1, <2>6, <1>1 DEF SentTo, OfferedKept, Misread
  <2>7. ASSUME NEW b \in torn
        PROVE  b.id # new
    <3>1. b.id \in Ids \cup {0}
      BY DEF FramesInv, SentInv, SentTo
    <3>2. 0 # new
      BY <1>1, <1>2, <1>0 DEF NextId, TypeOK
    <3> QED
      BY <3>1, <3>2, <1>1, <1>2
  <2>8. Safe(r, new)'
    <3>1. new \in Ids' /\ offered'[new] = f /\ offered'[new].to = r /\ offered'[new].from = Nobody
      BY <1>1, <1>2, <2>1
    <3>2. ~Lost(new)'
      <4>1. \A k : Byte(new, k).id = new
        BY DEF Byte
      <4> QED
        BY <4>1, <2>7 DEF Lost
    <3>3. \A p \in Port : RoleOf(p) # Nobody
      BY <1>0, PortIsPair DEF Nobody, PROOF_CARRIER_ROLES
    <3> QED
      BY <3>1, <3>2, <3>3, <2>6, <1>0 DEF Safe
  <2>9. ASSUME NEW s \in Role, NEW i \in Held(s)', i \notin Held(s)
        PROVE  Safe(s, i)'
    <3>1. s = r /\ i = new
      BY <2>5, <2>9, <1>1, <1>2
    <3> QED
      BY <3>1, <2>8
  <2>10. \A s \in Role : Held(s) \subseteq Held(s)'
    BY <2>5
  <2> QED
    BY <2>5, <2>9, <2>10
<1> QED
  BY <1>3, <1>4

\* How a round ends: with a frame of the line, or nothing; or with one made up.
DrainsFrame(id) == id # NextId /\ offered' = offered /\ (queue' = queue \/ Pushed(id))

DrainsMadeUp(m) ==
  \E f \in MadeUp(m) :
    /\ offered' = Append(offered, f)
    /\ \/ queue' = queue
       \/ ~Full(queue[f.to]) /\ queue' = [queue EXCEPT ![f.to] = PushBack(@, f)]

LEMMA DrainCases ==
  ASSUME TypeOK, NEW m \in Machine, DrainByte(m), NEW b, b = Head(Readable(m))
  PROVE  \E res \in ParserPush(parser[m], b), full \in BOOLEAN :
           /\ parser' = [parser EXCEPT ![m] = res.parser]
           /\ overflow' = (overflow \/ full)
           /\ fault' = IF full /\ m = "host" THEN fault \cup {m} ELSE fault
           /\ busy' = IF m = "m33" THEN busy
                      ELSE IF full THEN [busy EXCEPT ![m] = None]
                      ELSE [busy EXCEPT ![m].left = @ - 1]
           /\ DrainsFrame(res.id) \/ (res.id = NextId /\ DrainsMadeUp(m))
           /\ res.id # None /\ res.id # NextId /\ ~Rejected(res.id) => full \/ Pushed(res.id)
<1> DEFINE known(res) == res.id # None /\ (res.id = NextId \/ ~Rejected(res.id))
           full(res) == known(res) /\ Full(queue[offered'[res.id].to])
<1>1. PICK res \in ParserPush(parser[m], b) :
        /\ parser' = [parser EXCEPT ![m] = res.parser]
        /\ offered' \in IF res.id = NextId THEN {Append(offered, f) : f \in MadeUp(m)} ELSE {offered}
        /\ queue' = IF known(res) /\ ~full(res)
                    THEN [queue EXCEPT ![offered'[res.id].to] = PushBack(@, offered'[res.id])] ELSE queue
        /\ overflow' = (overflow \/ full(res))
        /\ fault' = IF full(res) /\ m = "host" THEN fault \cup {m} ELSE fault
        /\ busy' = IF m = "m33" THEN busy
                   ELSE IF full(res) THEN [busy EXCEPT ![m] = None]
                   ELSE [busy EXCEPT ![m].left = @ - 1]
  BY ZenonT(60) DEF DrainByte
<1>2. full(res) \in BOOLEAN
  OBVIOUS
<1>3. CASE res.id # NextId
  <2>1. offered' = offered
    BY <1>1, <1>3
  <2>2. queue' = queue \/ Pushed(res.id)
    BY <1>1, <1>3, <2>1, Zenon DEF Pushed, Rejected
  <2>3. res.id # None /\ res.id # NextId /\ ~Rejected(res.id) => full(res) \/ Pushed(res.id)
    BY <1>1, <1>3, <2>1, Zenon DEF Pushed, Rejected
  <2>4. DrainsFrame(res.id)
    BY <1>3, <2>1, <2>2 DEF DrainsFrame
  <2> HIDE DEF full
  <2> QED
    BY <1>1, <1>2, <2>3, <2>4, Zenon
<1>4. CASE res.id = NextId
  <2>1. PICK f \in MadeUp(m) : offered' = Append(offered, f)
    BY <1>1, <1>4
  <2>2. offered'[NextId] = f
    BY <2>1 DEF TypeOK, NextId
  <2>3. \/ queue' = queue
        \/ ~Full(queue[f.to]) /\ queue' = [queue EXCEPT ![f.to] = PushBack(@, f)]
    BY <1>1, <1>4, <2>2, Zenon
  <2>4. DrainsMadeUp(m)
    BY <2>1, <2>3 DEF DrainsMadeUp
  <2> HIDE DEF full
  <2> QED
    BY <1>1, <1>2, <1>4, <2>4, Zenon
<1> QED
  BY <1>3, <1>4

\* A byte is read, and the frame that it completes is queued.
LEMMA DrainByteKeeps ==
  ASSUME FramesInv, NEW m \in Machine, DrainByte(m)
  PROVE  FramesInv'
<1>0. TypeOK /\ BusyInv /\ OfferedInv /\ OutgoingInv
  BY DEF FramesInv
<1>1. /\ Draining(m) /\ Readable(m) # <<>> /\ TakeByte(m)
      /\ site' = site /\ outgoing' = outgoing /\ rx' = rx /\ accepted' = accepted
      /\ consumed' = consumed /\ torn' = torn /\ losses' = losses
  BY DEF DrainByte
<1>2. PICK b : b = Head(Readable(m))
  BY SMTT(40)
<1>3. PICK res \in ParserPush(parser[m], b), full \in BOOLEAN :
        /\ parser' = [parser EXCEPT ![m] = res.parser]
        /\ overflow' = (overflow \/ full)
        /\ fault' = IF full /\ m = "host" THEN fault \cup {m} ELSE fault
        /\ busy' = IF m = "m33" THEN busy
                   ELSE IF full THEN [busy EXCEPT ![m] = None]
                   ELSE [busy EXCEPT ![m].left = @ - 1]
        /\ DrainsFrame(res.id) \/ (res.id = NextId /\ DrainsMadeUp(m))
  BY <1>0, <1>2, DrainCases
<1>4. OfferedKept /\ OfferedInv' /\ OutgoingInv' /\ offered' \in Seq(Frame)
  <2>1. CASE offered' = offered
    <3>1. Port' = Port /\ Role' = Role /\ Ids' = Ids
      BY <2>1, <1>1 DEF Port, Role, Ids
    <3> QED
      BY <2>1, <3>1, <1>0, <1>1, SameOffered DEF OfferedKept, OutgoingInv, TypeOK
  <2>2. CASE DrainsMadeUp(m)
    <3>1. site.kind = "uart"
      BY <1>0, <1>1 DEF BusyInv, Draining
    <3> QED
      BY <2>2, <3>1, <1>1, MadeUpIsNew DEF DrainsMadeUp
  <2> QED
    BY <2>1, <2>2, <1>3 DEF DrainsFrame
<1>5. /\ b \in OnLine(m) /\ b \in LineByte
      /\ DOMAIN parser' = Machine /\ \A n \in Machine : ParserOK(parser'[n])
      /\ \A n \in Machine : OnLine(n)' \subseteq OnLine(n)
      /\ \A c \in BytesOf(Unread(m)') : Before(b, c)
      /\ SortedInv' /\ NeedInv'
      /\ res.id # None /\ res.id # NextId =>
           /\ res.id \in Ids \cup {0} /\ OnLine(m)' = BytesOf(Unread(m)')
           /\ b = Byte(res.id, TotalLen(LenOf(res.id)))
           /\ \A k \in (MAGIC_LEN + 1)..TotalLen(LenOf(res.id)) : Byte(res.id, k) \in OnLine(m)
  BY <1>1, <1>2, <1>3, <1>4, ReadStep
<1>6. /\ wire' \in [Machine -> Seq(LineByte)] /\ rdr' \in LineByte \cup {None}
      /\ ring' \in Seq(LineByte) /\ Len(ring') < RX_RING_CAP
      /\ m = "host" => /\ busy["host"].left \in Nat /\ busy["host"].left > 0
                       /\ Len(wire'["host"]) = Len(wire["host"]) - 1
      /\ m = "m33" => wire' = wire
  BY <1>0, <1>1, TakeTypes
<1>7. Port' = Port /\ Role' = Role /\ Writes' = Writes /\ Drains' = Drains
  BY <1>1 DEF Port, Role, Writes, Drains
<1>8. \A n \in Machine : busy'[n] # busy[n] => n = m /\ m = "host"
  BY <1>0, <1>3 DEF TypeOK, Machine
<1>9. \/ busy'[m] = busy[m] /\ m = "m33"
      \/ m = "host" /\ busy'[m] = None
      \/ m = "host" /\ busy'[m] = [op |-> "drain", port |-> busy[m].port, left |-> busy[m].left - 1]
  <2>1. busy[m] \in Drains
    BY <1>0, <1>1 DEF Draining, TypeOK, Writes, Drains
  <2>2. busy[m] = [op |-> "drain", port |-> busy[m].port, left |-> busy[m].left]
    BY <2>1 DEF Drains
  <2>3. CASE m = "m33"
    BY <2>3, <1>3
  <2>4. CASE m = "host" /\ full
    BY <2>4, <1>0, <1>3 DEF TypeOK
  <2>5. CASE m = "host" /\ ~full
    <3>1. busy'[m] = [busy[m] EXCEPT !.left = @ - 1]
      BY <2>5, <1>0, <1>3 DEF TypeOK
    <3> QED
      BY <3>1, <2>2, <2>5
  <2> QED
    BY <2>3, <2>4, <2>5 DEF Machine
<1>10. busy' \in [Machine -> Writes \cup Drains \cup {None}]
  <2>1. DOMAIN busy' = Machine /\ busy' = [n \in Machine |-> busy'[n]]
    BY <1>0, <1>3 DEF TypeOK
  <2>2. ASSUME NEW n \in Machine
        PROVE  busy'[n] \in Writes \cup Drains \cup {None}
    <3>1. CASE busy'[n] = busy[n]
      BY <3>1, <1>0 DEF TypeOK
    <3>2. CASE n = m /\ m = "host" /\ busy'[m] = None
      BY <3>2
    <3>3. CASE n = m /\ m = "host" /\ busy'[m] = [op |-> "drain", port |-> busy[m].port, left |-> busy[m].left - 1]
      <4>1. busy[m].port \in Port /\ busy[m].left - 1 \in Nat
        BY <3>3, <1>0, <1>1, <1>6 DEF Draining, TypeOK, Writes, Drains
      <4> QED
        BY <3>3, <4>1 DEF Drains
    <3> QED
      BY <3>1, <3>2, <3>3, <1>8, <1>9
  <2> QED
    BY <2>1, <2>2
<1>11. BusyInv'
  <2> SUFFICES ASSUME NEW n \in Machine, busy'[n] # None
               PROVE  /\ site.kind = "uart" /\ HostOf(RoleOf(busy'[n].port)) = n
                      /\ busy'[n].op = "write" => LET f == outgoing[busy'[n].port]
                                                  IN  /\ f # None /\ HostOf(f.to) = Other(n)
                                                      /\ busy'[n].next \in 1..TotalLen(f.len)
                      /\ busy'[n].op = "drain" /\ n = "host" => busy'[n].left <= Len(wire'["host"])
    BY <1>1 DEF BusyInv, HostOf
  <2>1. CASE busy'[n] = busy[n] /\ (m = "m33" \/ n # m)
    <3>1. n = "host" => wire'["host"] = wire["host"]
      BY <2>1, <1>6 DEF Machine
    <3> QED
      BY <2>1, <3>1, <1>0 DEF BusyInv
  <2>2. CASE n = m /\ m = "host" /\ busy'[m] = [op |-> "drain", port |-> busy[m].port, left |-> busy[m].left - 1]
    <3>1. busy[m] # None /\ busy[m].op = "drain"
      BY <1>1 DEF Draining
    <3>2. site.kind = "uart" /\ HostOf(RoleOf(busy[m].port)) = m /\ busy[m].left <= Len(wire["host"])
      BY <3>1, <2>2, <1>0 DEF BusyInv
    <3>3. Len(wire["host"]) \in Nat
      BY <1>0 DEF TypeOK, Machine
    <3>4. busy'[n].op = "drain" /\ busy'[n].port = busy[m].port /\ busy'[n].left = busy[m].left - 1
      BY <2>2
    <3>5. busy'[n].left <= Len(wire'["host"])
      BY <3>2, <3>3, <3>4, <2>2, <1>6
    <3> QED
      BY <3>2, <3>4, <3>5, <2>2
  <2> QED
    BY <2>1, <2>2, <1>8, <1>9
<1>12. WritersGoOn
  <2>1. \A n \in Machine : Writing(n) => n # m /\ busy'[n] = busy[n] /\ busy[n].next \in Nat
    <3>1. ~Writing(m)
      BY <1>1 DEF Writing, Draining
    <3> QED
      BY <3>1, <1>0, <1>8 DEF TypeOK, Writing, Writes, Drains
  <2> QED
    BY <2>1, <1>1 DEF WritersGoOn, Writing
<1>13. /\ HeldInv' /\ QueueOrder' /\ InOrder' /\ SlotInv'
       /\ DOMAIN queue' = Role /\ \A s \in Role : QueueOK(queue'[s])
       /\ \A r \in Role : \A id \in Held(r)' : id \in Held(r) \/ Safe(r, id)'
  <2>1. CASE DrainsFrame(res.id)
    <3>1. PICK id : id = res.id
      OBVIOUS
    <3>2. offered' = offered /\ id # NextId /\ (queue' = queue \/ Pushed(id))
      BY <2>1, <3>1 DEF DrainsFrame
    <3> QED
      BY <1>1, <1>5, <3>1, <3>2, ReadHolds
  <2>2. CASE DrainsMadeUp(m)
    <3>1. site.kind = "uart"
      BY <1>0, <1>1 DEF Draining, BusyInv
    <3> QED
      BY <2>2, <3>1, <1>1, <1>5, MadeUpHolds DEF DrainsMadeUp
  <2> QED
    BY <2>1, <2>2, <1>3
<1>14. TypeOK'
  <2>1. fault' \subseteq Machine /\ overflow' \in BOOLEAN
    BY <1>0, <1>3 DEF TypeOK
  <2>2. accepted' \subseteq Ids'
    BY <1>0, <1>1, <1>4 DEF TypeOK, OfferedKept
  <2> QED
    BY <2>1, <2>2, <1>0, <1>1, <1>5, <1>6, <1>7, <1>10, <1>13, <1>4 DEF TypeOK
<1>15. SentInv' /\ LostInv'
  <2>1. \A n \in Machine : \A c \in OnLine(n)' : c \in OnLine(n)
    BY <1>5
  <2> QED
    BY <2>1, <1>1, <1>12, <1>4, <1>14, LineStep
<1>16. ASSUME NEW r \in Role, NEW id \in Held(r)
       PROVE  Safe(r, id)'
  <2>1. Safe(r, id)
    BY HeldIsSafe
  <2>2. \A n \in Machine : \A c \in OnLine(n)' : c \in OnLine(n)
    BY <1>5
  <2> QED
    BY <2>1, <2>2, <1>1, <1>14, <1>4, SafeStep
<1>17. IntactFrames' /\ NewerInv'
  <2>1. \A r \in Role : \A id \in Held(r)' : Safe(r, id)'
    BY <1>13, <1>16
  <2> QED
    BY <2>1, <1>7, SafeIsHeld
<1>18. HeldOnce'
  BY <1>0, <1>1, <1>13, <1>14, HeldOnceStep
<1> QED
  BY <1>5, <1>11, <1>13, <1>14, <1>15, <1>17, <1>18, <1>4, Together

-----------------------------------------------------------------------------
(* The invariant. *)

\* What the tty holds before the session is of none of its frames.
LEMMA LeftoverBytes ==
  ASSUME NEW left \in {"nothing", "banner", "frame", "cut"}
  PROVE  /\ Leftover(left) \in Bytes
         /\ \A i \in 1..Len(Leftover(left)) : Leftover(left)[i].id = 0
<1>1. TotalLen(StaleLen) \in Nat /\ h \in Nat /\ h < TotalLen(StaleLen)
  BY Constants DEF TotalLen, StaleLen, h
<1>2. \A k \in Nat : Byte(0, k) \in LineByte /\ Byte(0, k).id = 0
  BY DEF Byte, LineByte
<1>3. StaleFrame \in Bytes /\ Len(StaleFrame) = TotalLen(StaleLen)
      /\ \A k \in 1..TotalLen(StaleLen) : StaleFrame[k] = Byte(0, k) /\ StaleFrame[k].id = 0
  BY <1>1, <1>2 DEF StaleFrame, Bytes
<1>4. CASE left = "nothing"
  <2>1. Leftover(left) = <<>>
    BY <1>4 DEF Leftover
  <2> QED
    BY <2>1 DEF Bytes
<1>5. CASE left = "banner"
  <2>1. Leftover(left) = <<Byte(0, 1), Byte(0, OtherText)>>
    BY <1>5 DEF Leftover
  <2>2. OtherText \in Nat
    BY <1>1 DEF OtherText
  <2>3. PICK a \in LineByte, c \in LineByte : Leftover(left) = <<a, c>> /\ a.id = 0 /\ c.id = 0
    BY <2>1, <2>2, <1>2
  <2> QED
    BY <2>3 DEF Bytes
<1>6. CASE left = "frame"
  <2>1. Leftover(left) = StaleFrame
    BY <1>6 DEF Leftover
  <2> QED
    BY <2>1, <1>1, <1>3
<1>7. CASE left = "cut"
  <2>1. Leftover(left) = SubSeq(StaleFrame, 1, h)
    BY <1>7 DEF Leftover, h
  <2>2. PICK s \in Bytes : s = StaleFrame /\ h <= Len(s)
    BY <1>1, <1>3
  <2>3. /\ SubSeq(s, 1, h) \in Bytes /\ Len(SubSeq(s, 1, h)) = h
        /\ \A i \in 1..h : SubSeq(s, 1, h)[i] = s[i]
    BY <2>2, <1>1 DEF Bytes
  <2>4. \A i \in 1..h : s[i].id = 0
    BY <2>2, <1>1, <1>3
  <2> QED
    BY <2>1, <2>2, <2>3, <2>4
<1> QED
  BY <1>4, <1>5, <1>6, <1>7

\* At the start nothing was sent.
LEMMA LinkInit ==
  ASSUME Init
  PROVE  FramesInv
<1>0. /\ site \in Site /\ rdr = None /\ ring = <<>> /\ fault = {} /\ offered = <<>> /\ accepted = {}
      /\ wire = [m \in Machine |-> IF m = "host" THEN Leftover(site.left) ELSE <<>>]
      /\ parser = [m \in Machine |-> EmptyParser] /\ queue = [r \in Role |-> EmptyQueue]
      /\ outgoing = [p \in Port |-> None] /\ rx = [p \in Port |-> None]
      /\ busy = [m \in Machine |-> None] /\ consumed = [p \in Port |-> <<>>] /\ overflow = FALSE
  BY DEF Init
<1>1. site.left \in {"nothing", "banner", "frame", "cut"}
  BY <1>0, UartAssumption
<1>2. PICK s \in Bytes : s = Leftover(site.left) /\ \A i \in 1..Len(s) : s[i].id = 0
  BY <1>1, LeftoverBytes
<1>3. wire["host"] = s /\ wire["m33"] = <<>>
  BY <1>0, <1>2 DEF Machine
<1>4. \A b \in torn : b \in LineByte /\ b.id = 0
  <2>1. \A b \in torn : b \in BytesFrom(0, h + 1, StaleLen)
    BY DEF Init, h
  <2>2. h \in Nat
    BY Constants DEF h
  <2>3. ASSUME NEW k \in (h + 1)..TotalLen(StaleLen)
        PROVE  Byte(0, k) \in LineByte /\ Byte(0, k).id = 0
    <3>1. k \in Nat
      BY <2>2, Constants DEF TotalLen, StaleLen
    <3> QED
      BY <3>1 DEF Byte, LineByte
  <2> QED
    BY <2>1, <2>3 DEF BytesFrom
<1>5. QueueOK(EmptyQueue) /\ EmptyQueue.len = 0
  <2>1. PROOF_CARRIER_QUEUE_DEPTH \in Nat \ {0}
    BY Constants
  <2>2. EmptyQueue.frames = [i \in QueueSlots |-> None] /\ EmptyQueue.head = 0 /\ EmptyQueue.len = 0
    BY DEF EmptyQueue, QueueSlots
  <2>3. EmptyQueue \in Queue
    <3>1. [i \in QueueSlots |-> None] \in [QueueSlots -> Frame \cup {None}]
      OBVIOUS
    <3>2. 0 \in QueueSlots /\ 0 \in 0..PROOF_CARRIER_QUEUE_DEPTH
      BY <2>1 DEF QueueSlots
    <3>3. EmptyQueue = [frames |-> [i \in QueueSlots |-> None], head |-> 0, len |-> 0]
      BY DEF EmptyQueue, QueueSlots
    <3> QED
      BY <3>1, <3>2, <3>3 DEF Queue
  <2>4. \A i \in QueueSlots : EmptyQueue.frames[i] # None <=> \E j \in 0..(EmptyQueue.len - 1) : At(EmptyQueue, j) = i
    BY <2>2
  <2> QED
    BY <2>2, <2>3, <2>4 DEF QueueOK
<1>6. ParserOK(EmptyParser) /\ EmptyParser.buf = <<>>
  <2>1. EmptyParser = [buf |-> <<>>, need |-> 0] /\ EmptyParser.buf = <<>> /\ EmptyParser.need = 0
    BY DEF EmptyParser
  <2>2. Len(EmptyParser.buf) < UART_CARRIER_HEADER_BYTES
    BY <2>1, Constants
  <2> QED
    BY <2>1, <2>2 DEF ParserOK
<1>7. TypeOK
  <2>1. RX_RING_CAP \in Nat \ {0}
    BY UartAssumption
  <2>2. Len(<<>>) < RX_RING_CAP
    BY <2>1
  <2>3. wire \in [Machine -> Seq(LineByte)]
    BY <1>0, <1>2 DEF Bytes
  <2>4. DOMAIN parser = Machine /\ \A m \in Machine : ParserOK(parser[m])
    BY <1>0, <1>6
  <2>5. DOMAIN queue = Role /\ \A r \in Role : QueueOK(queue[r])
    BY <1>0, <1>5
  <2>6. /\ outgoing \in [Port -> Frame \cup {None}] /\ rx \in [Port -> Frame \cup {None}]
        /\ busy \in [Machine -> Writes \cup Drains \cup {None}]
    BY <1>0
  <2>7. consumed \in [Port -> Seq(Nat)] /\ offered \in Seq(Frame) /\ ring \in Seq(LineByte)
    BY <1>0
  <2>8. accepted \subseteq Ids /\ torn \subseteq LineByte /\ fault \subseteq Machine /\ overflow \in BOOLEAN
    BY <1>0, <1>4
  <2>9. rdr \in LineByte \cup {None} /\ Len(ring) < RX_RING_CAP
    BY <1>0, <2>2
  <2> QED
    BY <1>0, <2>3, <2>4, <2>5, <2>6, <2>7, <2>8, <2>9 DEF TypeOK
<1>8. \A m \in Machine : \A b \in OnLine(m) : b.id = 0
  <2>1. Unread("host") = s
    BY <1>3 DEF Unread
  <2>2. Unread("m33") = <<>> /\ Len(Unread("m33")) = 0
    BY <1>0, <1>3 DEF Unread, Joined
  <2>3. \A m \in Machine : parser[m].buf = <<>>
    BY <1>0, <1>6
  <2> QED
    BY <1>2, <2>1, <2>2, <2>3 DEF OnLine, BytesOf, Machine
<1>9. \A r \in Role : queue[r].len = 0 /\ Held(r) = {}
  <2>1. \A r \in Role : queue[r].len = 0
    BY <1>0, <1>5
  <2>2. \A p \in Port : Taken(p) = {}
    BY <1>0 DEF Taken
  <2> QED
    BY <2>1, <2>2 DEF Held, Queued
<1>10. IntactFrames /\ HeldOnce /\ InOrder /\ HeldInv /\ NewerInv /\ QueueOrder /\ SlotInv
  <2>1. \A p \in Port : consumed[p] = <<>> /\ DOMAIN consumed[p] = {} /\ Taken(p) = {} /\ rx[p] = None
    BY <1>0 DEF Taken
  <2> QED
    BY <1>9, <2>1 DEF IntactFrames, HeldOnce, InOrder, HeldInv, NewerInv, QueueOrder, SlotInv
<1>11. Ids = {}
  BY <1>0 DEF Ids
<1>12. OfferedInv /\ OutgoingInv /\ BusyInv
  BY <1>0, <1>11 DEF OfferedInv, OutgoingInv, BusyInv
<1>13. SentInv /\ LostInv
  BY <1>4, <1>8 DEF SentInv, LostInv, SentTo, Machine
<1>14. SortedInv
  <2>1. \A m \in Machine : \A i \in 1..Len(Unread(m)) : Unread(m)[i].id = 0
    BY <1>8 DEF OnLine, BytesOf
  <2>2. \A m \in Machine : \A b \in BytesOf(parser[m].buf) : b.id = 0
    BY <1>8 DEF OnLine
  <2> QED
    BY <2>1, <2>2 DEF SortedInv, Before
<1>15. NeedInv
  <2>1. \A m \in Machine : Len(parser[m].buf) = 0
    BY <1>0, <1>6
  <2> QED
    BY <2>1, Constants DEF NeedInv
<1> QED
  BY <1>7, <1>10, <1>12, <1>13, <1>14, <1>15 DEF FramesInv

\* A poll of Hibana begins, or is done at once.
LEMMA PollsKeep ==
  ASSUME FramesInv, NEW p \in Port, Polls(p)
  PROVE  FramesInv'
<1>1. CASE HostPollSendLocal(p) \/ ProofPollSend(p)
  BY <1>1, SendThroughQueueKeeps
<1>2. CASE HostPollSend(p) \/ M33PollSend(p)
  BY <1>2, StartWritingKeeps
<1>3. CASE SplitPollSend(p)
  BY <1>3, SplitPollSendKeeps
<1>4. CASE HostPollRecv(p)
  BY <1>4, HostPollRecvKeeps
<1>5. CASE M33PollRecv(p)
  BY <1>5, M33PollRecvKeeps
<1>6. CASE ProofPollRecv(p) \/ SplitPollRecv(p)
  BY <1>6, ProofPollRecvKeeps
<1> QED
  BY <1>1, <1>2, <1>3, <1>4, <1>5, <1>6 DEF Polls

\* Nothing happens.
LEMMA StutterKeeps ==
  ASSUME FramesInv, UNCHANGED vars
  PROVE  FramesInv'
<1>1. TypeOK
  BY DEF FramesInv
<1>2. /\ site' = site /\ line' = line /\ outgoing' = outgoing /\ offered' = offered /\ accepted' = accepted
      /\ torn' = torn /\ fault' = fault /\ overflow' = overflow /\ queue' = queue /\ rx' = rx
      /\ consumed' = consumed /\ busy' = busy
  BY DEF vars
<1>3. busy' \in [Machine -> Writes \cup Drains \cup {None}] /\ fault' \subseteq Machine
  BY <1>1, <1>2 DEF TypeOK
<1> QED
  BY <1>2, <1>3, QuietPoll

\* A step of the two machines.
LEMMA LinkStep ==
  ASSUME FramesInv, [Next]_vars
  PROVE  FramesInv'
<1>1. ASSUME NEW p \in Port, NEW to \in Role, NEW l \in site.lens, BeginSend(p, to, l)
      PROVE  FramesInv'
  BY <1>1, BeginSendKeeps
<1>2. ASSUME NEW p \in Port, Polls(p)
      PROVE  FramesInv'
  BY <1>2, PollsKeep
<1>3. ASSUME NEW p \in Port, Requeue(p) \/ SplitRequeue(p)
      PROVE  FramesInv'
  BY <1>3, RequeueKeeps
<1>4. ASSUME NEW m \in Machine, WriteByte(m)
      PROVE  FramesInv'
  BY <1>4, WriteByteKeeps
<1>5. ASSUME NEW m \in Machine, AbortWrite(m)
      PROVE  FramesInv'
  BY <1>5, AbortWriteKeeps
<1>6. ASSUME NEW m \in Machine, DrainByte(m)
      PROVE  FramesInv'
  BY <1>6, DrainByteKeeps
<1>7. ASSUME NEW m \in Machine, DrainEnd(m)
      PROVE  FramesInv'
  BY <1>7, DrainEndKeeps
<1>8. CASE M33DropByte
  BY <1>8, M33DropByteKeeps
<1>9. CASE Arrive \/ PumpRxRing
  <2>1. RegisterStep
    BY <1>9, ArriveIsRegister, PumpIsRegister DEF FramesInv
  <2> QED
    BY <2>1, RegisterKeeps
<1>10. CASE M33RecvDeadline
  BY <1>10, M33RecvDeadlineKeeps
<1>11. CASE UNCHANGED vars
  BY <1>11, StutterKeeps
<1> QED
  BY <1>1, <1>2, <1>3, <1>4, <1>5, <1>6, <1>7, <1>8, <1>9, <1>10, <1>11 DEF Next

-----------------------------------------------------------------------------
(* The stream of a line that lost nothing. *)

\* The frames of its bytes stay what they are.
LEMMA StreamKept ==
  ASSUME OfferedKept, NEW buf \in Bytes, NEW in \in Bytes, NEW w, Stream(buf, in, w),
         w # None => w.id \in Ids,
         \A b \in BytesOf(buf) \cup BytesOf(in) : b.id \in Ids \cup {0}
  PROVE  Stream(buf, in, w)'
<1>1. ASSUME NEW b, b.id \in Ids \cup {0}
      PROVE  Ends(b)' <=> Ends(b)
  BY <1>1 DEF OfferedKept, Ends, LenOf
<1>2. /\ \A i \in 1..Len(buf) : buf[i].id \in Ids \cup {0}
      /\ \A i \in 1..Len(in) : in[i].id \in Ids \cup {0}
  BY DEF BytesOf
<1>3. Len(buf) \in Nat /\ Len(in) \in Nat /\ (buf # <<>> => Len(buf) > 0) /\ (in # <<>> => Len(in) > 0)
  BY DEF Bytes
<1>4. \A i \in 1..Len(buf) : buf[i] = Byte(buf[1].id, i)
  BY DEF Stream
<1>5. \A i \in 1..(Len(in) - 1) : Follows(in[i], in[i + 1])'
  <2> SUFFICES ASSUME NEW i \in 1..(Len(in) - 1)
               PROVE  Follows(in[i], in[i + 1])'
    OBVIOUS
  <2>1. Follows(in[i], in[i + 1])
    BY DEF Stream
  <2>2. i \in 1..Len(in)
    BY <1>3
  <2>3. Ends(in[i])' <=> Ends(in[i])
    BY <1>1, <1>2, <2>2
  <2> QED
    BY <2>1, <2>3 DEF Follows
<1>6. in # <<>> => /\ IF buf = <<>> THEN in[1].k = 1 ELSE Follows(buf[Len(buf)], in[1])'
                   /\ Closes(w, in[Len(in)])'
  <2> SUFFICES ASSUME in # <<>>
               PROVE  /\ IF buf = <<>> THEN in[1].k = 1 ELSE Follows(buf[Len(buf)], in[1])'
                      /\ Closes(w, in[Len(in)])'
    OBVIOUS
  <2>1. /\ IF buf = <<>> THEN in[1].k = 1 ELSE Follows(buf[Len(buf)], in[1])
        /\ Closes(w, in[Len(in)])
    BY DEF Stream
  <2>2. Ends(in[Len(in)])' <=> Ends(in[Len(in)])
    BY <1>1, <1>2, <1>3
  <2>3. buf # <<>> => (Ends(buf[Len(buf)])' <=> Ends(buf[Len(buf)]))
    BY <1>1, <1>2, <1>3
  <2> QED
    BY <2>1, <2>2, <2>3 DEF Follows, Closes
<1>7. in = <<>> => IF buf = <<>> THEN w = None ELSE Closes(w, buf[Len(buf)])'
  <2>1. in = <<>> => IF buf = <<>> THEN w = None ELSE Closes(w, buf[Len(buf)])
    BY DEF Stream
  <2>2. buf # <<>> => (Ends(buf[Len(buf)])' <=> Ends(buf[Len(buf)]))
    BY <1>1, <1>2, <1>3
  <2> QED
    BY <2>1, <2>2 DEF Closes
<1> QED
  BY <1>4, <1>5, <1>6, <1>7 DEF Stream

\* The writer's next byte goes on from its last.
LEMMA StreamGrows ==
  ASSUME NEW buf \in Bytes, NEW s \in Bytes, NEW t \in Bytes, NEW y, Grown(s, t, y),
         NEW w, NEW v, Stream(buf, s, w),
         \A b : Closes(w, b) => Follows(b, y),
         w = None => y.k = 1,
         Closes(v, y)
  PROVE  Stream(buf, t, v)
<1>1. /\ Len(s) \in Nat /\ Len(t) = Len(s) + 1 /\ t[Len(t)] = y /\ t # <<>> /\ (s = <<>> <=> Len(s) = 0)
      /\ \A i \in 1..Len(s) : t[i] = s[i]
  BY DEF Grown, Bytes
<1>2. \A i \in 1..(Len(t) - 1) : Follows(t[i], t[i + 1])
  <2> SUFFICES ASSUME NEW i \in 1..Len(s)
               PROVE  Follows(t[i], t[i + 1])
    BY <1>1
  <2>1. CASE i = Len(s)
    <3>1. Closes(w, s[Len(s)])
      BY <1>1 DEF Stream
    <3>2. t[i] = s[Len(s)] /\ t[i + 1] = y
      BY <2>1, <1>1
    <3> QED
      BY <3>1, <3>2
  <2>2. CASE i # Len(s)
    <3>1. i \in 1..(Len(s) - 1) /\ i + 1 \in 1..Len(s)
      BY <2>2, <1>1
    <3>2. Follows(s[i], s[i + 1])
      BY <3>1 DEF Stream
    <3> QED
      BY <3>1, <3>2, <1>1
  <2> QED
    BY <2>1, <2>2
<1>3. IF buf = <<>> THEN t[1].k = 1 ELSE Follows(buf[Len(buf)], t[1])
  <2>1. CASE s = <<>>
    <3>1. IF buf = <<>> THEN w = None ELSE Closes(w, buf[Len(buf)])
      BY <2>1 DEF Stream
    <3>2. t[1] = y
      BY <2>1, <1>1
    <3> QED
      BY <3>1, <3>2
  <2>2. CASE s # <<>>
    <3>1. IF buf = <<>> THEN s[1].k = 1 ELSE Follows(buf[Len(buf)], s[1])
      BY <2>2 DEF Stream
    <3>2. t[1] = s[1]
      BY <2>2, <1>1
    <3> QED
      BY <3>1, <3>2
  <2> QED
    BY <2>1, <2>2
<1> QED
  BY <1>1, <1>2, <1>3 DEF Stream

\* The parser takes a byte: it has the beginning of the same frame, or of the
\* next, and completes the frame whose last byte it is.
LEMMA StreamReads ==
  ASSUME TypeOK, NEW a, ParserOK(a), NeedOK(a), NEW s \in Bytes, NEW t \in Bytes, Shrunk(s, t, 1),
         NEW w, Stream(a.buf, s, w), w # None => ~Ends(w),
         NEW b \in LineByte, b = s[1], b.id \in Ids \cup {0},
         \A c \in BytesOf(a.buf) : c.id \in Ids \cup {0},
         NEW res \in ParserPush(a, b)
  PROVE  /\ Stream(res.parser.buf, t, w)
         /\ (Ends(b) /\ b.id # 0 => res.id = b.id) /\ res.id # NextId
<1> DEFINE n == Len(a.buf)
           id == a.buf[1].id
           len == TotalLen(LenOf(id))
<1>0. h \in Nat /\ MAGIC_LEN \in Nat /\ MAGIC_LEN < h /\ MAGIC_LEN > 1 /\ OtherText \in Nat /\ OtherText > h + 1
  BY Constants DEF h, OtherText, TotalLen, StaleLen
<1>1. a.buf \in Bytes /\ n \in Nat /\ (a.buf = <<>> <=> n = 0)
  BY DEF ParserOK, Bytes
<1>2. /\ Len(s) \in Nat /\ Len(t) \in Nat /\ Len(t) = Len(s) - 1 /\ Len(s) > 0 /\ s # <<>>
      /\ (t = <<>> <=> Len(t) = 0) /\ \A i \in 1..Len(t) : t[i] = s[i + 1]
  BY SMTT(40) DEF Shrunk, Bytes
<1>3. \A i \in 1..(Len(t) - 1) : Follows(t[i], t[i + 1])
  <2> SUFFICES ASSUME NEW i \in 1..(Len(t) - 1)
               PROVE  Follows(t[i], t[i + 1])
    OBVIOUS
  <2>1. i + 1 \in 1..(Len(s) - 1) /\ i \in 1..Len(t) /\ i + 1 \in 1..Len(t)
    BY <1>2
  <2>2. Follows(s[i + 1], s[(i + 1) + 1])
    BY <2>1 DEF Stream
  <2> QED
    BY <2>1, <2>2, <1>2
<1>4. t # <<>> => Follows(b, t[1]) /\ Closes(w, t[Len(t)])
  <2> SUFFICES ASSUME t # <<>>
               PROVE  Follows(b, t[1]) /\ Closes(w, t[Len(t)])
    OBVIOUS
  <2>1. 1 \in 1..(Len(s) - 1) /\ 1 \in 1..Len(t) /\ Len(t) \in 1..Len(t) /\ Len(t) + 1 = Len(s)
    BY <1>2
  <2>2. Follows(s[1], s[1 + 1]) /\ Closes(w, s[Len(s)])
    BY <1>2, <2>1 DEF Stream
  <2>3. t[1] = s[1 + 1] /\ t[Len(t)] = s[Len(s)]
    BY <1>2, <2>1
  <2> QED
    BY <2>2, <2>3
<1>5. t = <<>> => Closes(w, b)
  <2>1. t = <<>> => Len(s) = 1
    BY <1>2
  <2>2. Closes(w, s[Len(s)])
    BY <1>2 DEF Stream
  <2> QED
    BY <2>1, <2>2
<1>6. ASSUME Ends(b)
      PROVE  Stream(<<>>, t, w)
  <2>1. t # <<>> => t[1].k = 1
    BY <1>4, <1>6 DEF Follows
  <2>2. t = <<>> => w = None
    BY <1>5, <1>6 DEF Closes
  <2> QED
    BY <1>3, <1>4, <2>1, <2>2 DEF Stream
<1>7. ASSUME NEW c \in Bytes, c # <<>>, c[Len(c)] = b, \A i \in 1..Len(c) : c[i] = Byte(c[1].id, i)
      PROVE  Stream(c, t, w)
  BY <1>3, <1>4, <1>5, <1>7 DEF Stream
<1>8. \/ Restarts(a, b, res) \/ (\E m \in Nat : Keeps(a, b, res, m))
      \/ Completes(a, b, res) \/ MakesUp(a, b, res)
  BY PushCases
<1>9. None # NextId /\ \A i \in Ids \cup {0} : i # NextId
  BY Constants DEF TypeOK, NextId, Ids
<1>10. a.need # 0 => h <= n /\ n < a.need
  BY DEF ParserOK, h
<1>11. a.need = 0 => n < h
  BY DEF ParserOK, h
<1>12. EmptyParser.buf = <<>>
  BY DEF EmptyParser
<1>13. Append(a.buf, b) \in Bytes /\ Len(Append(a.buf, b)) = n + 1 /\ Append(a.buf, b)[n + 1] = b
       /\ \A i \in 1..n : Append(a.buf, b)[i] = a.buf[i]
  BY SMTT(40), <1>1, Appended
<1>14. Append(a.buf, b) # <<>>
  <2>1. Len(Append(a.buf, b)) # 0
    BY <1>1, <1>13
  <2> QED
    BY <2>1
<1>15. b.k \in Nat /\ b = Byte(b.id, b.k)
  BY DEF LineByte, Byte
<1>16. CASE n = 0
  <2>1. b.k = 1
    BY <1>1, <1>2, <1>16 DEF Stream
  <2>2. ~Restarts(a, b, res) /\ ~Completes(a, b, res) /\ ~MakesUp(a, b, res)
    BY <1>0, <1>10, <1>16, <2>1 DEF Restarts, Completes, MakesUp
  <2>3. res.parser.buf = Append(a.buf, b) /\ res.id # NextId
    <3>1. PICK m \in Nat : Keeps(a, b, res, m)
      BY <1>8, <2>2
    <3>2. res.parser = [buf |-> Append(a.buf, b), need |-> m] /\ res.id = None
      BY <3>1 DEF Keeps
    <3> QED
      BY <3>2, <1>9
  <2>4. \A i \in 1..(n + 1) : Append(a.buf, b)[i] = Byte(Append(a.buf, b)[1].id, i)
    BY <1>13, <1>15, <1>16, <2>1
  <2>5. Stream(res.parser.buf, t, w)
    BY <1>7, <1>13, <1>14, <2>3, <2>4
  <2>6. ~Ends(b)
    <3>1. TotalLen(LenOf(b.id)) > h /\ TotalLen(LenOf(b.id)) \in Nat
      BY LengthOf
    <3>2. b # Byte(0, OtherText)
      BY <1>0, <2>1 DEF Byte
    <3> QED
      BY <3>1, <3>2, <1>0, <2>1 DEF Ends
  <2> QED
    BY <2>3, <2>5, <2>6
<1>17. CASE n > 0
  <2>1. 1 \in 1..n /\ n \in 1..n /\ a.buf # <<>>
    BY <1>1, <1>17
  <2>2. \A i \in 1..n : a.buf[i] = Byte(id, i)
    BY DEF Stream
  <2>3. id \in Ids \cup {0}
    BY <2>1 DEF BytesOf
  <2>4. len \in Nat /\ len > h
    BY <2>3, LengthOf
  <2>5. a.need # 0 => a.need = len
    <3>1. a.need # 0 => h \in 1..n
      BY <1>0, <1>10, <1>1
    <3>2. a.need # 0 => a.buf[h] = Byte(id, h)
      BY <3>1, <2>2
    <3>3. Byte(id, h).k = h /\ Byte(id, h).id = id
      BY DEF Byte
    <3> QED
      BY <1>10, <3>2, <3>3 DEF NeedOK
  <2>6. n < len
    BY <1>0, <1>1, <1>10, <1>11, <2>4, <2>5
  <2>7. a.buf[n] = Byte(id, n) /\ a.buf[n].id = id /\ a.buf[n].k = n
    BY <2>1, <2>2 DEF Byte
  <2>8. ~Ends(a.buf[n])
    <3>1. ASSUME a.buf[n] = Byte(0, OtherText)
          PROVE  FALSE
      <4>1. id = 0 /\ n = OtherText
        BY <3>1, <2>7 DEF Byte
      <4>2. len = TotalLen(StaleLen)
        BY <4>1 DEF LenOf
      <4> QED
        BY <4>1, <4>2, <2>4, <2>6, <1>1 DEF OtherText
    <3> QED
      BY <3>1, <2>6, <2>7 DEF Ends
  <2>9. Follows(a.buf[n], b)
    BY <1>2, <2>1 DEF Stream
  <2>10. b = Byte(id, n + 1) \/ (a.buf[n] = Byte(0, 1) /\ b = Byte(0, OtherText))
    BY <2>7, <2>8, <2>9 DEF Follows
  <2>11. CASE b = Byte(id, n + 1)
    <3>1. b.id = id /\ b.k = n + 1
      BY <2>11 DEF Byte
    <3>2. \A i \in 1..(n + 1) : Append(a.buf, b)[i] = Byte(id, i)
      BY <1>1, <1>13, <2>2, <2>11
    <3>3. Append(a.buf, b)[h].id = id \/ n + 1 < h
      <4>1. h \in 1..(n + 1) \/ n + 1 < h
        BY <1>0, <1>1
      <4>2. Byte(id, h).id = id
        BY DEF Byte
      <4>3. h \in 1..(n + 1) => Append(a.buf, b)[h] = Byte(id, h)
        BY <3>2
      <4> QED
        BY <4>1, <4>2, <4>3
    <3>4. Append(a.buf, b)[1].id = id
      BY <1>13, <2>1
    <3>5. a.need # 0 => Intact(Append(a.buf, b))
      <4>1. a.need # 0 => Append(a.buf, b)[h].id = id
        BY <3>3, <1>0, <1>1, <1>10
      <4>2. \A k \in (MAGIC_LEN + 1)..Len(Append(a.buf, b)) : k \in 1..(n + 1)
        BY <1>0, <1>1, <1>13
      <4> QED
        BY <4>1, <4>2, <3>2 DEF Intact, h
    <3>6. ~Restarts(a, b, res) /\ ~MakesUp(a, b, res)
      <4>1. a.need = Len(a.buf) + 1 => a.need # 0
        BY <1>1
      <4> QED
        BY <3>1, <3>5, <4>1 DEF Restarts, MakesUp
    <3>7. CASE \E m \in Nat : Keeps(a, b, res, m)
      <4>1. res.parser.buf = Append(a.buf, b) /\ (a.need # 0 => n + 1 < a.need) /\ res.id = None
        BY <3>7, <1>0, <1>1, <1>11 DEF Keeps
      <4>2. Stream(res.parser.buf, t, w)
        BY ZenonT(60), <4>1, <3>2, <3>4, <1>7, <1>13, <1>14
      <4>3. ~Ends(b)
        <5>1. b.k # len
          BY <3>1, <4>1, <2>4, <2>5, <1>0, <1>1, <1>11
        <5>2. ASSUME b = Byte(0, OtherText)
              PROVE  FALSE
          <6>1. id = 0 /\ n + 1 = OtherText
            BY <5>2, <3>1 DEF Byte
          <6>2. len = TotalLen(StaleLen)
            BY <6>1 DEF LenOf
          <6>3. n = len
            BY <6>1, <6>2, <2>4, <1>1 DEF OtherText
          <6> QED
            BY <6>3, <2>6, <1>1
        <5> QED
          BY <5>1, <5>2, <3>1 DEF Ends
      <4> QED
        BY <4>1, <4>2, <4>3, <1>9
    <3>8. CASE Completes(a, b, res)
      <4>1. res.parser.buf = <<>> /\ a.need = n + 1 /\ res.id = Append(a.buf, b)[h].id
        BY <3>8, <1>12 DEF Completes
      <4>2. b.k = len
        BY <4>1, <3>1, <2>5, <1>1
      <4>3. Ends(b)
        BY <4>2, <3>1 DEF Ends
      <4>4. res.id = id
        BY <4>1, <3>3, <1>0, <1>1, <1>10
      <4> QED
        BY <4>1, <4>3, <4>4, <1>6, <1>9, <2>3, <3>1
    <3> QED
      BY <1>8, <3>6, <3>7, <3>8
  <2>12. CASE a.buf[n] = Byte(0, 1) /\ b = Byte(0, OtherText)
    <3>1. n = 1 /\ b.id = 0 /\ b.k = OtherText
      BY <2>12, <2>7 DEF Byte
    <3>2. a.need = 0
      BY <3>1, <1>0, <1>10
    <3>3. ~Completes(a, b, res) /\ ~MakesUp(a, b, res) /\ \A m : ~Keeps(a, b, res, m)
      BY <3>1, <3>2, <1>0, <1>17 DEF Completes, MakesUp, Keeps
    <3>4. res.parser.buf = <<>> /\ res.id # NextId
      BY <1>8, <1>12, <1>9, <3>3 DEF Restarts
    <3>5. Ends(b)
      BY <2>12 DEF Ends
    <3> QED
      BY <3>1, <3>4, <3>5, <1>6
  <2> QED
    BY <2>10, <2>11, <2>12
<1> QED
  BY <1>1, <1>16, <1>17

-----------------------------------------------------------------------------
(* Nothing is lost by the carrier itself. *)

\* What was damaged stays so.
LEMMA DamageKept ==
  ASSUME FramesInv, OfferedKept, torn \subseteq torn', NEW m, Damaged(m)
  PROVE  Damaged(m)'
<1>1. PICK b \in torn : IF b.id = 0 THEN m = "host" ELSE HostOf(offered[b.id].to) = m
  BY DEF Damaged
<1>2. b.id # 0 => b.id \in Ids
  BY DEF FramesInv, SentInv, SentTo
<1>3. b \in torn' /\ (b.id # 0 => HostOf(offered[b.id].to)' = m)
  BY <1>1, <1>2 DEF OfferedKept, HostOf
<1> QED
  BY <1>1, <1>3 DEF Damaged, HostOf

\* A byte that is lost on the way to a machine damages what it is sent.
LEMMA LossDamages ==
  ASSUME FramesInv, StreamInv, OfferedKept, NEW m \in Machine, NEW b \in torn', b \in OnLine(m)
  PROVE  Damaged(m)'
<1>1. SentTo(m, b) /\ (b.id # 0 => b.id \in Ids)
  BY LineTypes
<1>2. CASE b.id = 0
  <2>1. m = "host"
    BY <1>2 DEF StreamInv, Machine
  <2> QED
    BY <1>2, <2>1 DEF Damaged
<1>3. CASE b.id # 0
  <2>1. HostOf(offered[b.id].to) = m /\ offered'[b.id] = offered[b.id] /\ site' = site
    BY <1>1, <1>3 DEF SentTo, OfferedKept
  <2>2. HostOf(offered[b.id].to)' = m
    BY <2>1 DEF HostOf
  <2> QED
    BY <1>3, <2>2 DEF Damaged, HostOf
<1> QED
  BY <1>2, <1>3

\* The byte written last, of a frame being sent.
LEMMA WrittenType ==
  ASSUME FramesInv, NEW m \in Machine
  PROVE  Written(m) # None => /\ Writing(m) /\ Written(m).id \in Ids /\ Written(m).id # 0
                              /\ Written(m) = Byte(outgoing[busy[m].port].id, busy[m].next - 1)
                              /\ ~Ends(Written(m))
<1> SUFFICES ASSUME Written(m) # None
             PROVE  /\ Writing(m) /\ Written(m).id \in Ids /\ Written(m).id # 0
                    /\ Written(m) = Byte(outgoing[busy[m].port].id, busy[m].next - 1)
                    /\ ~Ends(Written(m))
  OBVIOUS
<1>1. Writing(m) /\ busy[m].next > 1 /\ Written(m) = Byte(outgoing[busy[m].port].id, busy[m].next - 1)
  BY DEF Written
<1>2. /\ busy[m].port \in Port /\ outgoing[busy[m].port] # None /\ busy[m].next \in Nat
      /\ busy[m].next \in 1..TotalLen(outgoing[busy[m].port].len)
  BY <1>1, WritingFacts
<1>3. PICK f \in Frame : /\ f = outgoing[busy[m].port] /\ f.id \in Ids /\ f.id # 0 /\ f = offered[f.id]
                         /\ TotalLen(f.len) \in Nat
  BY <1>2, OutgoingFrame
<1>4. Written(m).id = f.id /\ Written(m).k = busy[m].next - 1
  BY <1>1, <1>3 DEF Byte
<1>5. Written(m).k # TotalLen(LenOf(f.id))
  <2>1. LenOf(f.id) = f.len
    BY <1>3 DEF LenOf
  <2>2. busy[m].next - 1 # TotalLen(f.len)
    BY <1>2, <1>3
  <2> QED
    BY <1>4, <2>1, <2>2
<1>6. Written(m) # Byte(0, OtherText)
  BY <1>3, <1>4 DEF Byte
<1> QED
  BY <1>1, <1>3, <1>4, <1>5, <1>6 DEF Ends

\* Writers that go on as they were, or begin.
LEMMA WrittenSame ==
  ASSUME \A m \in Machine :
           \/ ~Writing(m) /\ ~Writing(m)'
           \/ /\ Writing(m) /\ busy'[m] = busy[m]
              /\ outgoing'[busy[m].port] = outgoing[busy[m].port]
           \/ ~Writing(m) /\ Writing(m)' /\ busy'[m].next = 1,
         NEW m \in Machine
  PROVE  Written(m)' = Written(m)
  BY DEF Written, Writing

\* A machine whose line is left alone.
LEMMA StreamStays ==
  ASSUME FramesInv, StreamInv, OfferedKept, torn \subseteq torn', NEW m \in Machine,
         parser'[m] = parser[m], Unread(m)' = Unread(m), Written(Other(m))' = Written(Other(m)),
         ~Damaged(m)'
  PROVE  Stream(parser[m].buf, Unread(m), Written(Other(m)))'
<1>1. ~Damaged(m)
  BY DamageKept
<1>2. PICK buf \in Bytes : buf = parser[m].buf
  BY UnreadType DEF FramesInv
<1>3. PICK in \in Bytes : in = Unread(m)
  BY UnreadType DEF FramesInv
<1>4. PICK w : w = Written(Other(m))
  OBVIOUS
<1>5. Stream(buf, in, w)
  BY <1>1, <1>2, <1>3, <1>4 DEF StreamInv
<1>6. \A b \in BytesOf(buf) \cup BytesOf(in) : b.id \in Ids \cup {0}
  <2>1. \A b \in OnLine(m) : b.id \in Ids \cup {0}
    BY LineTypes
  <2> QED
    BY <2>1, <1>2, <1>3 DEF OnLine
<1>7. w # None => w.id \in Ids
  BY <1>4, WrittenType DEF Other, Machine
<1>8. Stream(buf, in, w)'
  BY <1>5, <1>6, <1>7, StreamKept
<1>9. buf = parser'[m].buf /\ in = Unread(m)' /\ w = Written(Other(m))'
  BY <1>2, <1>3, <1>4
<1> QED
  BY <1>8, <1>9 DEF Stream, Follows, Closes, Ends

\* The frames that were accepted stay with their roles or on their way, and a
\* new one is there.
LEMMA AcceptedStep ==
  ASSUME FramesInv, AcceptedInv, OfferedKept, torn \subseteq torn', overflow => overflow',
         \A id \in accepted' : id \in Ids,
         \A id \in accepted' : \A m \in Machine : m = HostOf(offered[id].to) =>
           \/ overflow' \/ Damaged(m)' \/ Arrived(id)'
           \/ id \in accepted /\ (Arrived(id) => Arrived(id)')
  PROVE  AcceptedInv'
<1>1. ASSUME NEW id \in accepted', ~overflow', NEW m \in Machine, m = HostOf(offered[id].to), ~Damaged(m)'
      PROVE  Arrived(id)'
  <2>1. CASE id \in accepted
    <3>1. ~overflow /\ ~Damaged(m)
      BY <1>1, DamageKept
    <3>2. ~Damaged(HostOf(offered[id].to))
      BY <1>1, <3>1
    <3>3. Arrived(id)
      BY <2>1, <3>1, <3>2 DEF AcceptedInv
    <3> QED
      BY <1>1, <3>3
  <2> QED
    BY <2>1, <1>1
<1>2. ASSUME NEW id \in accepted', ~overflow', ~Damaged(HostOf(offered[id].to))'
      PROVE  Arrived(id)'
  <2>1. offered'[id] = offered[id] /\ site' = site
    BY <1>2 DEF OfferedKept
  <2>2. PICK m \in Machine : m = HostOf(offered[id].to)
    BY DEF HostOf, Machine
  <2>3. HostOf(offered[id].to)' = m
    BY <2>1, <2>2 DEF HostOf
  <2>4. ~Damaged(m)'
    BY <1>2, <2>3 DEF Damaged
  <2> QED
    BY <1>1, <1>2, <2>2, <2>4
<1> QED
  BY <1>2 DEF AcceptedInv

\* A frame that has arrived stays.
LEMMA ArrivedKept ==
  ASSUME OfferedKept, NEW id \in Ids, Arrived(id),
         \A r \in Role : id \in Held(r) => id \in Held(r)',
         \A m \in Machine : m = HostOf(offered[id].to) =>
           \A b \in BytesOf(Unread(m)) : b \in BytesOf(Unread(m))',
         offered[id].to \in Role
  PROVE  Arrived(id)'
<1>1. PICK f : f = offered[id] /\ f = offered'[id] /\ f.to \in Role
  BY DEF OfferedKept
<1>2. PICK m \in Machine : m = HostOf(f.to)
  BY DEF HostOf, Machine
<1>3. PICK n \in Machine : n = HostOf(f.from)
  BY DEF HostOf, Machine
<1>4. m = HostOf(f.to)' /\ n = HostOf(f.from)'
  BY <1>2, <1>3 DEF HostOf, OfferedKept
<1>5. id \in Held(f.to) \/ (n # m /\ Byte(id, TotalLen(f.len)) \in BytesOf(Unread(m)))
  BY <1>1, <1>2, <1>3 DEF Arrived
<1>6. \A b \in BytesOf(Unread(m)) : b \in BytesOf(Unread(m))'
  BY <1>1, <1>2
<1>7. id \in Held(f.to)' \/ (n # m /\ Byte(id, TotalLen(f.len)) \in BytesOf(Unread(m))')
  BY <1>1, <1>5, <1>6
<1> QED
  BY <1>1, <1>4, <1>7 DEF Arrived, HostOf

\* The two invariants after a step that leaves the line alone.
LEMMA QuietCarries ==
  ASSUME FramesInv, StreamInv, AcceptedInv, OfferedKept, line' = line, torn' = torn, overflow => overflow',
         \A m \in Machine :
           \/ ~Writing(m) /\ ~Writing(m)'
           \/ /\ Writing(m) /\ busy'[m] = busy[m]
              /\ outgoing'[busy[m].port] = outgoing[busy[m].port]
           \/ ~Writing(m) /\ Writing(m)' /\ busy'[m].next = 1,
         overflow' \/ \A r \in Role : Held(r) \subseteq Held(r)',
         \A id \in accepted' : id \in accepted \/ (id \in Ids /\ id \in Held(offered[id].to)')
  PROVE  StreamInv' /\ AcceptedInv'
<1>0. TypeOK /\ OfferedInv
  BY DEF FramesInv
<1>1. parser' = parser /\ \A m \in Machine : Unread(m)' = Unread(m) /\ OnLine(m)' = OnLine(m)
  BY DEF line, Unread, OnLine
<1>2. \A m \in Machine : Written(m)' = Written(m)
  BY WrittenSame
<1>3. \A m \in Machine : Other(m) \in Machine
  BY DEF Machine, Other
<1>4. \A m \in Machine : ~Damaged(m)' => Stream(parser[m].buf, Unread(m), Written(Other(m)))'
  BY <1>1, <1>2, <1>3, StreamStays
<1>5. \A b \in OnLine("m33") : b.id # 0
  BY DEF StreamInv
<1>6. StreamInv'
  <2>1. \A b \in OnLine("m33")' : b.id # 0
    BY <1>1, <1>5 DEF Machine
  <2> QED
    BY <2>1, <1>4 DEF StreamInv
<1>7. \A id \in Ids : offered[id].to \in Role
  BY <1>0 DEF OfferedInv
<1>8. accepted \subseteq Ids
  BY <1>0 DEF TypeOK
<1>9. ASSUME NEW id \in accepted', NEW m \in Machine, m = HostOf(offered[id].to)
      PROVE  \/ overflow' \/ Damaged(m)' \/ Arrived(id)'
             \/ id \in accepted /\ (Arrived(id) => Arrived(id)')
  <2>1. CASE id \in accepted
    <3>1. id \in Ids /\ offered[id].to \in Role
      BY <2>1, <1>7, <1>8
    <3>2. \A n \in Machine : \A b \in BytesOf(Unread(n)) : b \in BytesOf(Unread(n))'
      BY <1>1 DEF BytesOf
    <3>3. overflow' \/ (Arrived(id) => Arrived(id)')
      BY <3>1, <3>2, ArrivedKept
    <3> QED
      BY <2>1, <3>3
  <2>2. CASE id \in Ids /\ id \in Held(offered[id].to)'
    <3>1. PICK r : r = offered[id].to
      BY SMTT(40)
    <3>2. id \in Held(r)' /\ offered'[id].to = r
      BY <2>2, <3>1 DEF OfferedKept, Held, Queued
    <3>3. Arrived(id)'
      BY <3>2 DEF Arrived
    <3> QED
      BY <3>3
  <2> QED
    BY <2>1, <2>2
<1>10. AcceptedInv'
  BY <1>8, <1>9, AcceptedStep
<1> QED
  BY <1>6, <1>10

\* The two invariants after a step of Hibana's calls.
LEMMA BeginSendCarries ==
  ASSUME FramesInv, StreamInv, AcceptedInv, NEW p \in Port, NEW to \in Role, NEW len \in site.lens,
         BeginSend(p, to, len)
  PROVE  StreamInv' /\ AcceptedInv'
<1>0. TypeOK
  BY DEF FramesInv
<1>1. /\ outgoing[p] = None /\ busy' = busy /\ queue' = queue /\ rx' = rx /\ consumed' = consumed
      /\ line' = line /\ torn' = torn /\ overflow' = overflow /\ accepted' = accepted /\ site' = site
      /\ \A q \in Port : q # p => outgoing'[q] = outgoing[q]
      /\ \E f : offered' = Append(offered, f)
  BY <1>0 DEF BeginSend, Quiet, TypeOK
<1>2. OfferedKept
  <2>1. PICK f : offered' = Append(offered, f)
    BY <1>1
  <2>2. Len(offered) \in Nat /\ offered \in Seq(Frame)
    BY <1>0 DEF TypeOK
  <2>3. Len(offered') = Len(offered) + 1 /\ \A i \in 1..Len(offered) : offered'[i] = offered[i]
    BY <2>1, <2>2
  <2> QED
    BY <1>1, <2>2, <2>3 DEF OfferedKept, Ids
<1>3. \A r \in Role : Held(r)' = Held(r)
  BY <1>1, <1>2, HoldUnchanged
<1>4. ASSUME NEW m \in Machine, Writing(m)
      PROVE  outgoing'[busy[m].port] = outgoing[busy[m].port]
  <2>1. busy[m].port \in Port /\ outgoing[busy[m].port] # None
    BY <1>4, WritingFacts
  <2> QED
    BY <2>1, <1>1
<1>5. \A m \in Machine :
        \/ ~Writing(m) /\ ~Writing(m)'
        \/ /\ Writing(m) /\ busy'[m] = busy[m]
           /\ outgoing'[busy[m].port] = outgoing[busy[m].port]
  BY <1>1, <1>4 DEF Writing
<1> QED
  BY <1>1, <1>2, <1>3, <1>5, QuietCarries

\* A frame goes to a queue, or the poll fails.
LEMMA QueueSendCarries ==
  ASSUME FramesInv, StreamInv, AcceptedInv, NEW p \in Port, outgoing[p] # None, Idle("host"),
         site.kind = "uart" => HostOf(RoleOf(p)) = "host",
         site' = site, line' = line, rx' = rx, busy' = busy, offered' = offered, consumed' = consumed,
         torn' = torn,
         outgoing' = [outgoing EXCEPT ![p] = None],
         LET f == outgoing[p]
         IN  \/ overflow' = TRUE /\ accepted' = accepted
             \/ /\ ~Full(queue[f.to]) /\ (site.kind = "split" => OnLane(queue[f.to], f.lane) = {})
                /\ queue' = [queue EXCEPT ![f.to] = PushBack(queue[f.to], f)]
                /\ accepted' = accepted \cup {f.id}
                /\ overflow' = overflow
  PROVE  StreamInv' /\ AcceptedInv'
<1>0. TypeOK /\ BusyInv /\ NewerInv
  BY DEF FramesInv
<1>1. OfferedKept
  BY DEF OfferedKept, Ids
<1>2. ASSUME NEW m \in Machine, Writing(m)
      PROVE  outgoing'[busy[m].port] = outgoing[busy[m].port]
  <2>1. busy[m].port \in Port /\ site.kind = "uart" /\ HostOf(RoleOf(busy[m].port)) = m
    BY <1>2, WritingFacts
  <2>2. m # "host"
    BY <1>2 DEF Idle, Writing
  <2>3. busy[m].port # p
    BY <2>1, <2>2
  <2> QED
    BY <2>1, <2>3, <1>0 DEF TypeOK
<1>3. \A m \in Machine :
        \/ ~Writing(m) /\ ~Writing(m)'
        \/ /\ Writing(m) /\ busy'[m] = busy[m]
           /\ outgoing'[busy[m].port] = outgoing[busy[m].port]
  BY <1>2 DEF Writing
<1>4. CASE overflow' = TRUE /\ accepted' = accepted
  BY <1>1, <1>3, <1>4, QuietCarries
<1>5. CASE /\ ~Full(queue[outgoing[p].to])
           /\ (site.kind = "split" => OnLane(queue[outgoing[p].to], outgoing[p].lane) = {})
           /\ queue' = [queue EXCEPT ![outgoing[p].to] = PushBack(queue[outgoing[p].to], outgoing[p])]
           /\ accepted' = accepted \cup {outgoing[p].id}
           /\ overflow' = overflow
  <2>1. PICK f \in Frame : /\ f = outgoing[p] /\ f.id \in Ids /\ f = offered[f.id] /\ f.to \in Role
                           /\ f.from = RoleOf(p)
    BY OutgoingFrame
  <2>2. PICK r \in Role : r = f.to
    BY <2>1
  <2>3. \A id \in Held(r) : offered[id].from = f.from => id < f.id
    BY <1>0, <2>1 DEF NewerInv
  <2>4. /\ ~Full(queue[r]) /\ (site.kind = "split" => OnLane(queue[r], f.lane) = {})
        /\ queue' = [queue EXCEPT ![r] = PushBack(queue[r], f)]
    BY <1>5, <2>1, <2>2
  <2>5. Held(r)' = Held(r) \cup {f.id} /\ \A s \in Role : s # r => Held(s)' = Held(s)
    <3>1. OfferedKept /\ f.id \in Ids' /\ f = offered'[f.id]
      BY <2>1 DEF OfferedKept, Ids
    <3> QED
      BY <2>1, <2>2, <2>3, <2>4, <3>1, HoldPush
  <2>6. \A s \in Role : Held(s) \subseteq Held(s)'
    BY <2>5
  <2>7. ASSUME NEW id \in accepted'
        PROVE  id \in accepted \/ (id \in Ids /\ id \in Held(offered[id].to)')
    <3>1. CASE id = f.id
      <4>1. id \in Held(r)' /\ offered[id].to = r /\ offered'[id].to = r
        BY <3>1, <2>1, <2>2, <2>5
      <4> QED
        BY <4>1, <3>1, <2>1 DEF Held, Queued
    <3> QED
      BY <3>1, <2>1, <1>5
  <2> QED
    BY <1>1, <1>3, <1>5, <2>6, <2>7, QuietCarries
<1> QED
  BY <1>4, <1>5

\* A poll begins to write, or to drain the line, or is done.
LEMMA QuietPollCarries ==
  ASSUME FramesInv, StreamInv, AcceptedInv, site' = site, offered' = offered, outgoing' = outgoing,
         line' = line, torn' = torn, overflow => overflow', accepted' = accepted,
         \A m \in Machine :
           \/ busy'[m] = busy[m]
           \/ ~Writing(m) /\ ~Writing(m)'
           \/ ~Writing(m) /\ Writing(m)' /\ busy'[m].next = 1,
         overflow' \/ \A r \in Role : Held(r) \subseteq Held(r)'
  PROVE  StreamInv' /\ AcceptedInv'
<1>1. OfferedKept
  BY DEF OfferedKept, Ids
<1>2. \A m \in Machine :
        \/ ~Writing(m) /\ ~Writing(m)'
        \/ /\ Writing(m) /\ busy'[m] = busy[m]
           /\ outgoing'[busy[m].port] = outgoing[busy[m].port]
        \/ ~Writing(m) /\ Writing(m)' /\ busy'[m].next = 1
  BY DEF Writing
<1> QED
  BY <1>1, <1>2, QuietCarries

\* A send that is done at once: its frame is queued, or the queue was full.
LEMMA SendPollsCarry ==
  ASSUME FramesInv, StreamInv, AcceptedInv, NEW p \in Port,
         HostPollSendLocal(p) \/ ProofPollSend(p) \/ SplitPollSend(p)
  PROVE  StreamInv' /\ AcceptedInv'
<1>1. /\ Idle("host") /\ outgoing[p] # None
      /\ site' = site /\ line' = line /\ rx' = rx /\ busy' = busy /\ offered' = offered
      /\ consumed' = consumed /\ torn' = torn
      /\ site.kind = "uart" => HostOf(RoleOf(p)) = "host"
  BY DEF HostPollSendLocal, ProofPollSend, SplitPollSend
<1>2. CASE HostPollSendLocal(p) \/ ProofPollSend(p)
  <2>1. site.kind # "split" /\ SendThroughQueue(p)
    BY <1>2 DEF HostPollSendLocal, ProofPollSend
  <2>2. outgoing' = [outgoing EXCEPT ![p] = None]
    BY <2>1 DEF SendThroughQueue, Finish
  <2>3. LET f == outgoing[p]
        IN  \/ overflow' = TRUE /\ accepted' = accepted
            \/ /\ ~Full(queue[f.to]) /\ (site.kind = "split" => OnLane(queue[f.to], f.lane) = {})
               /\ queue' = [queue EXCEPT ![f.to] = PushBack(queue[f.to], f)]
               /\ accepted' = accepted \cup {f.id}
               /\ overflow' = overflow
    BY <2>1 DEF SendThroughQueue, Finish
  <2> QED
    BY <1>1, <2>2, <2>3, QueueSendCarries
<1>3. CASE SplitPollSend(p)
  <2>1. site.kind = "split" /\ outgoing' = [outgoing EXCEPT ![p] = None]
    BY <1>3 DEF SplitPollSend, Finish
  <2>2. CASE overflow' = TRUE /\ accepted' = accepted
    BY <1>1, <2>1, <2>2, QueueSendCarries
  <2>3. CASE /\ OnLane(queue[outgoing[p].to], outgoing[p].lane) = {}
             /\ queue' = [queue EXCEPT ![outgoing[p].to] = PushBack(@, outgoing[p])]
             /\ accepted' = accepted \cup {outgoing[p].id} /\ overflow' = overflow
    <3>1. outgoing[p].to \in Role /\ outgoing[p].lane = LaneOf(p)
      BY <1>1, OutgoingFrame
    <3>2. outgoing[p].lane \in QueueSlots
      BY <2>1, <3>1, PortIsPair DEF FramesInv
    <3>3. ~Full(queue[outgoing[p].to])
      BY <2>1, <2>3, <3>1, <3>2, SlotFree
    <3> QED
      BY <1>1, <2>1, <2>3, <3>3, QueueSendCarries
  <2> QED
    BY <1>3, <2>2, <2>3 DEF SplitPollSend, SlotReady, Finish
<1> QED
  BY <1>2, <1>3

\* A write loop begins, with nothing written.
LEMMA StartWritingCarries ==
  ASSUME FramesInv, StreamInv, AcceptedInv, NEW p \in Port, HostPollSend(p) \/ M33PollSend(p)
  PROVE  StreamInv' /\ AcceptedInv'
<1>0. TypeOK
  BY DEF FramesInv
<1>1. PICK m \in Machine : StartWriting(p, m)
  BY DEF HostPollSend, M33PollSend, Machine
<1>2. /\ busy[m] = None /\ busy' = [busy EXCEPT ![m] = [op |-> "write", port |-> p, next |-> 1]]
      /\ site' = site /\ line' = line /\ queue' = queue /\ outgoing' = outgoing /\ rx' = rx
      /\ offered' = offered /\ accepted' = accepted /\ consumed' = consumed /\ torn' = torn
      /\ overflow' = overflow
  BY <1>1 DEF StartWriting, Idle
<1>3. OfferedKept
  BY <1>2 DEF OfferedKept, Ids
<1>4. \A r \in Role : Held(r)' = Held(r)
  BY <1>2, <1>3, HoldUnchanged
<1>5. ~Writing(m) /\ busy'[m] = [op |-> "write", port |-> p, next |-> 1]
      /\ \A n \in Machine : n # m => busy'[n] = busy[n]
  BY <1>0, <1>2 DEF Writing, TypeOK
<1>6. \A n \in Machine :
        \/ busy'[n] = busy[n]
        \/ ~Writing(n) /\ ~Writing(n)'
        \/ ~Writing(n) /\ Writing(n)' /\ busy'[n].next = 1
  BY <1>5 DEF Writing
<1> QED
  BY <1>2, <1>4, <1>6, QuietPollCarries

\* A poll takes a frame, or begins or ends to drain the line.
LEMMA RecvPollsCarry ==
  ASSUME FramesInv, StreamInv, AcceptedInv,
         site' = site, offered' = offered, outgoing' = outgoing, line' = line, torn' = torn,
         overflow' = overflow, accepted' = accepted,
         \A m \in Machine : busy'[m] = busy[m] \/ (~Writing(m) /\ ~Writing(m)'),
         \/ queue' = queue /\ rx' = rx /\ consumed' = consumed
         \/ \E p \in Port : HasFrame(p) /\ TakeFrame(p)
  PROVE  StreamInv' /\ AcceptedInv'
<1>1. OfferedKept
  BY DEF OfferedKept, Ids
<1>2. CASE queue' = queue /\ rx' = rx /\ consumed' = consumed
  <2>1. \A r \in Role : Held(r)' = Held(r)
    BY <1>1, <1>2, HoldUnchanged
  <2> QED
    BY <2>1, QuietPollCarries
<1>3. CASE \E p \in Port : HasFrame(p) /\ TakeFrame(p)
  <2>1. \A r \in Role : Held(r)' = Held(r)
    BY <1>3, HoldTake
  <2> QED
    BY <2>1, QuietPollCarries
<1> QED
  BY <1>2, <1>3

\* A receive takes a frame, which its role still holds, or begins to read.
LEMMA PollRecvCarries ==
  ASSUME FramesInv, StreamInv, AcceptedInv, NEW p \in Port,
         HostPollRecv(p) \/ M33PollRecv(p) \/ ProofPollRecv(p) \/ SplitPollRecv(p)
  PROVE  StreamInv' /\ AcceptedInv'
<1>0. TypeOK
  BY DEF FramesInv
<1>1. /\ site' = site /\ offered' = offered /\ outgoing' = outgoing /\ line' = line /\ torn' = torn
      /\ overflow' = overflow /\ accepted' = accepted /\ Idle(HostOf(RoleOf(p)))
  BY DEF HostPollRecv, M33PollRecv, ProofPollRecv, SplitPollRecv, MayRecv
<1>2. \/ queue' = queue /\ rx' = rx /\ consumed' = consumed
      \/ \E q \in Port : HasFrame(q) /\ TakeFrame(q)
  BY DEF HostPollRecv, M33PollRecv, ProofPollRecv, SplitPollRecv
<1>3. \/ busy' = busy
      \/ \E m \in Machine : \E d : busy[m] = None /\ d.op = "drain" /\ busy' = [busy EXCEPT ![m] = d]
  <2>1. CASE HostPollRecv(p)
    <3>1. busy["host"] = None /\ "host" \in Machine
      BY <2>1, <1>1 DEF HostPollRecv, Idle, Machine
    <3>2. PICK d : d = [op |-> "drain", port |-> p, left |-> Len(wire["host"])] /\ d.op = "drain"
      <4>1. [op |-> "drain", port |-> p, left |-> Len(wire["host"])].op = "drain"
        OBVIOUS
      <4> QED
        BY <4>1
    <3>3. busy' = busy \/ busy' = [busy EXCEPT !["host"] = d]
      BY <2>1, <3>2 DEF HostPollRecv
    <3> QED
      BY <3>1, <3>2, <3>3
  <2>2. CASE M33PollRecv(p)
    <3>1. busy["m33"] = None /\ "m33" \in Machine
      BY <2>2, <1>1 DEF M33PollRecv, Idle, Machine
    <3>2. PICK d : d = [op |-> "drain", port |-> p, left |-> 0] /\ d.op = "drain"
      <4>1. [op |-> "drain", port |-> p, left |-> 0].op = "drain"
        OBVIOUS
      <4> QED
        BY <4>1
    <3>3. busy' = [busy EXCEPT !["m33"] = d]
      BY <2>2, <3>2 DEF M33PollRecv
    <3> QED
      BY <3>1, <3>2, <3>3
  <2>3. CASE ProofPollRecv(p) \/ SplitPollRecv(p)
    BY <2>3 DEF ProofPollRecv, SplitPollRecv
  <2> QED
    BY <2>1, <2>2, <2>3
<1>4. \A m \in Machine : busy'[m] = busy[m] \/ (~Writing(m) /\ ~Writing(m)')
  <2>1. CASE busy' = busy
    BY <2>1
  <2>2. ASSUME NEW n \in Machine, NEW d, busy[n] = None, d.op = "drain", busy' = [busy EXCEPT ![n] = d],
               NEW m \in Machine
        PROVE  busy'[m] = busy[m] \/ (~Writing(m) /\ ~Writing(m)')
    <3>1. busy'[m] = IF m = n THEN d ELSE busy[m]
      BY <2>2, <1>0 DEF TypeOK
    <3> QED
      BY <3>1, <2>2 DEF Writing
  <2> QED
    BY <2>1, <2>2, <1>3
<1> QED
  BY <1>1, <1>2, <1>4, RecvPollsCarry

\* A receive ends.
LEMMA DrainEndCarries ==
  ASSUME FramesInv, StreamInv, AcceptedInv, NEW m \in Machine, DrainEnd(m) \/ (m = "m33" /\ M33RecvDeadline)
  PROVE  StreamInv' /\ AcceptedInv'
<1>0. TypeOK
  BY DEF FramesInv
<1>1. /\ site' = site /\ offered' = offered /\ outgoing' = outgoing /\ line' = line /\ torn' = torn
      /\ overflow' = overflow /\ accepted' = accepted
      /\ Draining(m) /\ busy' = [busy EXCEPT ![m] = None]
  BY DEF DrainEnd, M33RecvDeadline
<1>2. busy[m].port \in Port
  BY <1>0, <1>1 DEF Draining, TypeOK, Writes, Drains
<1>3. \/ queue' = queue /\ rx' = rx /\ consumed' = consumed
      \/ \E q \in Port : HasFrame(q) /\ TakeFrame(q)
  BY <1>2 DEF DrainEnd, M33RecvDeadline
<1>4. \A n \in Machine : busy'[n] = busy[n] \/ (~Writing(n) /\ ~Writing(n)')
  <2>1. \A n \in Machine : busy'[n] = IF n = m THEN None ELSE busy[n]
    BY <1>0, <1>1 DEF TypeOK
  <2>2. ~Writing(m)
    BY <1>1 DEF Writing, Draining
  <2> QED
    BY <2>1, <2>2 DEF Writing
<1> QED
  BY <1>1, <1>3, <1>4, RecvPollsCarry

\* A frame given back is queued, or counted as an overflow.
LEMMA RequeueCarries ==
  ASSUME FramesInv, StreamInv, AcceptedInv, NEW p \in Port, Requeue(p) \/ SplitRequeue(p)
  PROVE  StreamInv' /\ AcceptedInv'
<1>0. TypeOK
  BY DEF FramesInv
<1>1. /\ GivenBack(p)
      /\ site' = site /\ line' = line /\ outgoing' = outgoing /\ busy' = busy /\ offered' = offered
      /\ accepted' = accepted /\ torn' = torn
  BY DEF Requeue, SplitRequeue, GivenBack
<1>2. CASE overflow' = TRUE
  BY <1>1, <1>2, QuietPollCarries
<1>3. CASE /\ ~Full(queue[RoleOf(p)]) /\ site.kind # "split" /\ overflow' = overflow
           /\ queue' = [queue EXCEPT ![RoleOf(p)] = PushFront(@, rx[p])]
  <2>1. \A s \in Role : Held(s)' = Held(s)
    BY <1>1, <1>3, HoldRequeue
  <2> QED
    BY <1>1, <1>3, <2>1, QuietPollCarries
<1> QED
  BY <1>2, <1>3 DEF Requeue, SplitRequeue

\* Nothing happens.
LEMMA StutterCarries ==
  ASSUME FramesInv, StreamInv, AcceptedInv, UNCHANGED vars
  PROVE  StreamInv' /\ AcceptedInv'
<1>1. /\ site' = site /\ line' = line /\ outgoing' = outgoing /\ offered' = offered /\ accepted' = accepted
      /\ torn' = torn /\ overflow' = overflow /\ queue' = queue /\ rx' = rx /\ consumed' = consumed
      /\ busy' = busy
  BY DEF vars
<1> QED
  BY <1>1, RecvPollsCarry

\* A writer goes on, and says what it lost.
LEMMA WriterCarries ==
  ASSUME FramesInv, StreamInv, AcceptedInv, NEW m \in Machine, Writing(m), WritesOn(m),
         site' = site, offered' = offered, queue' = queue, rx' = rx, consumed' = consumed,
         rdr' = rdr, ring' = ring, parser' = parser, overflow' = overflow, torn \subseteq torn',
         NEW put \in BOOLEAN,
         wire' = IF put THEN [wire EXCEPT ![Other(m)] = Append(@, NextByte(m))] ELSE wire,
         NEW f, f = outgoing[busy[m].port], NEW x, x = busy[m].next,
         ~put => Byte(f.id, x) \in torn',
         busy'[m] = None /\ x < TotalLen(f.len) => \E k \in Nat : Byte(f.id, k) \in torn',
         \A id \in accepted' : id \in accepted \/ (id = f.id /\ x = TotalLen(f.len))
  PROVE  StreamInv' /\ AcceptedInv'
<1>0. TypeOK /\ BusyInv /\ OfferedInv
  BY DEF FramesInv
<1>1. /\ busy[m] \in Writes /\ busy[m].port \in Port /\ outgoing[busy[m].port] # None
      /\ Other(m) \in Machine /\ Other(m) # m /\ HostOf(RoleOf(busy[m].port)) = m
      /\ site.kind = "uart" /\ Other(Other(m)) = m /\ x \in 1..TotalLen(f.len) /\ x \in Nat
      /\ NextByte(m) = Byte(f.id, x) /\ NextByte(m) \in LineByte /\ HostOf(f.to) = Other(m)
  BY WritingFacts
<1>2. PICK g \in Frame : /\ g = f /\ g.id \in Ids /\ g.id # 0 /\ g = offered[g.id] /\ TotalLen(g.len) \in Nat
                         /\ g.from = RoleOf(busy[m].port) /\ g.to \in Role
  BY <1>1, OutgoingFrame
<1>3. PICK n \in Machine : n = Other(m) /\ n # m /\ Other(n) = m
  BY <1>1
<1>4. PICK y \in LineByte : y = NextByte(m) /\ y = Byte(f.id, x) /\ y.id = f.id /\ y.k = x
  BY SMTT(40), <1>1 DEF Byte
<1>5. /\ Unread(m)' = Unread(m)
      /\ \/ Unread(n)' = Unread(n) /\ ~put
         \/ put /\ Unread(n)' \in Bytes /\ Grown(Unread(n), Unread(n)', y)
      /\ \A q \in Machine : \A b \in OnLine(q)' : b \in OnLine(q) \/ (put /\ q = n /\ b = y)
  BY ZenonT(60), <1>3, <1>4, WriterLine
<1>6. OfferedKept /\ Ids' = Ids
  BY DEF OfferedKept, Ids
<1>7. \A b : b \in torn' /\ b.id = f.id => Damaged(n)'
  BY <1>1, <1>2, <1>3 DEF Damaged, HostOf
<1>8. ~Damaged(n)' => put /\ (busy'[m] = None => x = TotalLen(f.len))
  <2>1. \A k : Byte(f.id, k).id = f.id
    BY DEF Byte
  <2> QED
    BY <2>1, <1>1, <1>2, <1>7
<1>9. Written(n)' = Written(n)
  <2>1. busy'[n] = busy[n]
    BY <1>0, <1>3 DEF WritesOn, TypeOK
  <2>2. Writing(n) => outgoing'[busy[n].port] = outgoing[busy[n].port]
    <3>1. Writing(n) => busy[n].port \in Port /\ HostOf(RoleOf(busy[n].port)) = n
      BY WritingFacts
    <3>2. Writing(n) => busy[n].port # busy[m].port
      BY <3>1, <1>1, <1>3
    <3> QED
      BY <3>1, <3>2, <1>0 DEF WritesOn, TypeOK
  <2> QED
    BY <2>1, <2>2 DEF Written, Writing
<1>10. ~Damaged(m)' => Stream(parser[m].buf, Unread(m), Written(n))'
  <2>1. Written(Other(m))' = Written(Other(m))
    BY <1>3, <1>9
  <2>2. ~Damaged(m)' => Stream(parser[m].buf, Unread(m), Written(Other(m)))'
    BY SMTT(40), <2>1, <1>5, <1>6, StreamStays
  <2> QED
    BY <2>2, <1>3 DEF Other
<1>11. ASSUME ~Damaged(n)'
       PROVE  Stream(parser[n].buf, Unread(n), Written(m))'
  <2>1. put /\ (busy'[m] = None => x = TotalLen(f.len)) /\ ~Damaged(n)
    BY <1>6, <1>8, <1>11, DamageKept
  <2>2. PICK buf \in Bytes : buf = parser[n].buf
    BY <1>0, UnreadType
  <2>3. PICK s \in Bytes : s = Unread(n)
    BY <1>0, UnreadType
  <2>4. PICK t \in Bytes : t = Unread(n)' /\ Grown(s, t, y)
    BY <1>5, <2>1, <2>3
  <2>5. PICK w : w = Written(m)
    OBVIOUS
  <2>6. PICK v : v = Written(m)'
    OBVIOUS
  <2>7. Stream(buf, s, w)
    BY <1>3, <2>1, <2>2, <2>3, <2>5 DEF StreamInv
  <2>8. \A i, k \in Nat : Byte(i, k) # None
    BY Constants DEF Byte, LineByte
  <2>9. f.id \in Nat
    BY <1>2 DEF Ids
  <2>10. w = IF x > 1 THEN Byte(f.id, x - 1) ELSE None
    BY <2>5 DEF Written
  <2>11. w = None => x = 1
    BY <2>8, <2>9, <2>10, <1>1
  <2>12. \A b : Closes(w, b) => Follows(b, y)
    <3>1. CASE w = None
      BY <3>1, <2>11, <1>4 DEF Closes, Follows
    <3>2. CASE w # None
      <4>1. w = Byte(f.id, x - 1) /\ w.id = f.id /\ w.k = x - 1
        BY <3>2, <2>10 DEF Byte
      <4>2. ~Ends(w)
        BY SMTT(40), <3>2, <2>5, WrittenType
      <4>3. y = Byte(w.id, w.k + 1)
        BY <4>1, <1>1, <1>4
      <4>4. Follows(w, y)
        BY <4>2, <4>3 DEF Follows
      <4> QED
        BY <3>2, <4>4 DEF Closes
    <3> QED
      BY <3>1, <3>2
  <2>13. w = None => y.k = 1
    BY <2>11, <1>4
  <2>14. Closes(v, y)
    <3>1. CASE busy'[m] = None
      <4>1. v = None
        BY <2>6, <3>1 DEF Written, Writing
      <4>2. LenOf(f.id) = f.len
        BY SMTT(40), <1>2 DEF LenOf
      <4>3. Ends(y)
        BY <4>2, <2>1, <3>1, <1>4 DEF Ends
      <4> QED
        BY <4>1, <4>3 DEF Closes
    <3>2. CASE busy'[m] # None
      <4>1. busy' = [busy EXCEPT ![m].next = @ + 1] /\ outgoing' = outgoing
        <5>1. busy' = [busy EXCEPT ![m] = None] => busy'[m] = None
          BY <1>0 DEF TypeOK
        <5> QED
          BY <3>2, <5>1 DEF WritesOn
      <4>2. busy[m] = [op |-> "write", port |-> busy[m].port, next |-> x]
        BY <1>1 DEF Writes
      <4>3. busy'[m] = [busy[m] EXCEPT !.next = x + 1]
        BY <4>1, <1>0 DEF TypeOK
      <4>4. busy'[m].op = "write" /\ busy'[m].port = busy[m].port /\ busy'[m].next = x + 1
        BY <4>2, <4>3
      <4>5. v = Byte(f.id, (x + 1) - 1)
        BY SMTT(40), <2>6, <3>2, <4>1, <4>4, <1>1 DEF Written, Writing
      <4>6. v = y
        BY <4>5, <1>1, <1>4
      <4> QED
        BY <4>6, Constants DEF Closes
    <3> QED
      BY <3>1, <3>2
  <2>15. Stream(buf, t, v)
    BY <2>4, <2>7, <2>12, <2>13, <2>14, StreamGrows
  <2>16. buf = parser'[n].buf
    BY <2>2
  <2> QED
    BY <2>4, <2>6, <2>15, <2>16 DEF Stream, Follows, Closes, Ends, LenOf
<1>12. StreamInv'
  <2>1. \A b \in OnLine("m33")' : b.id # 0
    BY <1>2, <1>4, <1>5 DEF StreamInv, Machine
  <2>2. \A q \in Machine : q = m \/ q = n
    BY <1>3 DEF Machine
  <2>3. ASSUME NEW q \in Machine, ~Damaged(q)'
        PROVE  Stream(parser[q].buf, Unread(q), Written(Other(q)))'
    <3>1. CASE q = m
      <4>1. Other(q) = n
        BY <3>1, <1>3
      <4> QED
        BY <3>1, <4>1, <2>3, <1>10 DEF Other
    <3>2. CASE q = n
      <4>1. Other(q) = m
        BY <3>2, <1>3
      <4> QED
        BY <3>2, <4>1, <2>3, <1>11 DEF Other
    <3> QED
      BY <2>2, <3>1, <3>2
  <2> QED
    BY SMTT(40), <2>1, <2>3 DEF StreamInv
<1>13. \A r \in Role : Held(r)' = Held(r)
  BY <1>6, HoldUnchanged
<1>14. \A q \in Machine : \A b \in BytesOf(Unread(q)) : b \in BytesOf(Unread(q))'
  <2>1. CASE Unread(n)' = Unread(n)
    BY <2>1, <1>3, <1>5 DEF BytesOf, Machine
  <2>2. CASE Unread(n)' \in Bytes /\ Grown(Unread(n), Unread(n)', y)
    <3>1. PICK t \in Bytes : t = Unread(n)'
      BY <2>2
    <3>2. BytesOf(t) = BytesOf(Unread(n)) \cup {y}
      BY <2>2, <3>1, <1>0, UnreadType, GrownKeeps
    <3>3. \A b \in BytesOf(Unread(n)) : b \in BytesOf(Unread(n))'
      BY <3>1, <3>2 DEF BytesOf
    <3>4. \A b \in BytesOf(Unread(m)) : b \in BytesOf(Unread(m))'
      BY <1>5 DEF BytesOf
    <3>5. \A q \in Machine : q = m \/ q = n
      BY <1>3 DEF Machine
    <3> QED
      BY <3>3, <3>4, <3>5
  <2> QED
    BY <2>1, <2>2, <1>5
<1>15. ASSUME NEW id \in accepted', NEW q \in Machine, q = HostOf(offered[id].to)
       PROVE  \/ overflow' \/ Damaged(q)' \/ Arrived(id)'
              \/ id \in accepted /\ (Arrived(id) => Arrived(id)')
  <2>1. CASE id \in accepted
    <3>1. id \in Ids
      BY <2>1, <1>0 DEF TypeOK
    <3>2. offered[id].to \in Role
      BY <3>1, <1>0 DEF OfferedInv
    <3> QED
      BY <2>1, <3>1, <3>2, <1>6, <1>13, <1>14, ArrivedKept
  <2>2. CASE id = f.id /\ x = TotalLen(f.len)
    <3>1. q = n /\ offered'[id] = g
      BY <2>2, <1>1, <1>2, <1>3, <1>15
    <3>2. CASE ~Damaged(n)'
      <4>1. put
        BY <3>2, <1>8
      <4>2. PICK t \in Bytes : t = Unread(n)' /\ Grown(Unread(n), t, y)
        BY <4>1, <1>5
      <4>3. BytesOf(t) = BytesOf(Unread(n)) \cup {y}
        BY <4>2, <1>0, UnreadType, GrownKeeps
      <4>4. y \in BytesOf(Unread(n)')
        BY <4>2, <4>3
      <4>5. HostOf(g.from)' = m /\ HostOf(g.to)' = n
        BY SMTT(40), <1>1, <1>2, <1>3 DEF HostOf
      <4>6. Byte(id, TotalLen(g.len)) = y
        BY <2>2, <1>2, <1>4
      <4>7. Arrived(id)'
        BY <3>1, <4>4, <4>5, <4>6, <1>3 DEF Arrived, HostOf
      <4> QED
        BY <4>7
    <3> QED
      BY <3>1, <3>2
  <2> QED
    BY <2>1, <2>2
<1>16. \A id \in accepted' : id \in Ids
  BY <1>0, <1>2 DEF TypeOK
<1>17. AcceptedInv'
  BY <1>6, <1>15, <1>16, AcceptedStep
<1> QED
  BY <1>12, <1>17

\* A frame is accepted with its last byte, and its writer is done only then.
LEMMA AdvanceTells ==
  ASSUME FramesInv, NEW m \in Machine, Writing(m), Advance(m),
         NEW f, f = outgoing[busy[m].port], NEW x, x = busy[m].next
  PROVE  /\ busy'[m] = None => x = TotalLen(f.len)
         /\ \A id \in accepted' : id \in accepted \/ (id = f.id /\ x = TotalLen(f.len))
<1>1. busy[m] \in Writes /\ x \in 1..TotalLen(f.len) /\ x \in Nat
  BY WritingFacts
<1>2. busy[m].port \in Port /\ outgoing[busy[m].port] # None
  BY WritingFacts
<1>3. TotalLen(f.len) \in Nat
  BY <1>2, OutgoingFrame
<1>4. CASE x < TotalLen(f.len)
  <2>1. busy' = [busy EXCEPT ![m].next = @ + 1] /\ accepted' = accepted
    BY <1>4 DEF Advance
  <2>2. busy'[m] = [busy[m] EXCEPT !.next = x + 1]
    BY <2>1 DEF FramesInv, TypeOK
  <2>3. busy'[m] \in Writes
    BY <1>1, <2>2 DEF Writes
  <2>4. site \in Site
    BY DEF FramesInv, TypeOK
  <2>5. None \notin Writes
    BY <2>4, UartAssumption DEF Writes, Port
  <2> QED
    BY <2>1, <2>3, <2>5
<1>5. CASE ~(x < TotalLen(f.len))
  <2>1. x = TotalLen(f.len)
    BY <1>1, <1>3, <1>5
  <2>2. accepted' = accepted \cup {f.id}
    BY <1>5 DEF Advance, Finish
  <2> QED
    BY <2>1, <2>2
<1> QED
  BY <1>4, <1>5

\* One more byte is on the line.
LEMMA WriteByteCarries ==
  ASSUME FramesInv, StreamInv, AcceptedInv, NEW m \in Machine, WriteByte(m)
  PROVE  StreamInv' /\ AcceptedInv'
<1>1. /\ Writing(m) /\ Advance(m)
      /\ wire' = [wire EXCEPT ![Other(m)] = Append(@, NextByte(m))]
      /\ site' = site /\ offered' = offered /\ queue' = queue /\ rx' = rx /\ consumed' = consumed
      /\ rdr' = rdr /\ ring' = ring /\ parser' = parser /\ overflow' = overflow /\ torn' = torn
  BY DEF WriteByte
<1>2. WritesOn(m)
  BY <1>1, AdvanceWrites
<1>3. PICK put \in BOOLEAN : put = TRUE
  OBVIOUS
<1>4. wire' = IF put THEN [wire EXCEPT ![Other(m)] = Append(@, NextByte(m))] ELSE wire
  BY <1>1, <1>3
<1>5. PICK f : f = outgoing[busy[m].port]
  OBVIOUS
<1>6. PICK x : x = busy[m].next
  OBVIOUS
<1>7. /\ busy'[m] = None => x = TotalLen(f.len)
      /\ \A id \in accepted' : id \in accepted \/ (id = f.id /\ x = TotalLen(f.len))
  BY <1>1, <1>5, <1>6, AdvanceTells
<1>8. x \in Nat /\ x \in 1..TotalLen(f.len)
  BY <1>1, <1>5, <1>6, WritingFacts
<1>9. ~(busy'[m] = None /\ x < TotalLen(f.len))
  BY <1>7, <1>8
<1> QED
  BY ZenonT(60), <1>1, <1>2, <1>3, <1>4, <1>5, <1>6, <1>7, <1>9, WriterCarries

\* A byte is not sent, and the next one will be.
LEMMA M33DropByteCarries ==
  ASSUME FramesInv, StreamInv, AcceptedInv, M33DropByte
  PROVE  StreamInv' /\ AcceptedInv'
<1>1. /\ Writing("m33") /\ Advance("m33") /\ torn' = torn \cup {NextByte("m33")}
      /\ wire' = wire
      /\ site' = site /\ offered' = offered /\ queue' = queue /\ rx' = rx /\ consumed' = consumed
      /\ rdr' = rdr /\ ring' = ring /\ parser' = parser /\ overflow' = overflow
  BY DEF M33DropByte, line
<1>2. "m33" \in Machine
  BY DEF Machine
<1>3. WritesOn("m33")
  BY <1>1, <1>2, AdvanceWrites
<1>4. PICK put \in BOOLEAN : put = FALSE
  OBVIOUS
<1>5. wire' = IF put THEN [wire EXCEPT ![Other("m33")] = Append(@, NextByte("m33"))] ELSE wire
  BY <1>1, <1>4
<1>6. PICK f : f = outgoing[busy["m33"].port]
  OBVIOUS
<1>7. PICK x : x = busy["m33"].next
  OBVIOUS
<1>8. /\ busy'["m33"] = None => x = TotalLen(f.len)
      /\ \A id \in accepted' : id \in accepted \/ (id = f.id /\ x = TotalLen(f.len))
  BY <1>1, <1>2, <1>6, <1>7, AdvanceTells
<1>9. x \in Nat /\ x \in 1..TotalLen(f.len) /\ NextByte("m33") = Byte(f.id, x)
  BY <1>1, <1>2, <1>6, <1>7, WritingFacts
<1>10. Byte(f.id, x) \in torn' /\ \E k \in Nat : Byte(f.id, k) \in torn'
  BY <1>1, <1>9
<1>11. torn \subseteq torn'
  BY <1>1
<1> QED
  BY <1>1, <1>2, <1>3, <1>5, <1>6, <1>7, <1>8, <1>10, <1>11, WriterCarries

\* A frame ends where it is.
LEMMA AbortWriteCarries ==
  ASSUME FramesInv, StreamInv, AcceptedInv, NEW m \in Machine, AbortWrite(m)
  PROVE  StreamInv' /\ AcceptedInv'
<1>1. /\ Writing(m)
      /\ busy' = [busy EXCEPT ![m] = None] /\ outgoing' = [outgoing EXCEPT ![busy[m].port] = None]
      /\ site' = site /\ offered' = offered /\ queue' = queue /\ rx' = rx /\ consumed' = consumed
      /\ rdr' = rdr /\ ring' = ring /\ parser' = parser /\ overflow' = overflow /\ accepted' = accepted
  BY DEF AbortWrite
<1>2. WritesOn(m)
  BY <1>1 DEF WritesOn
<1>3. PICK f : f = outgoing[busy[m].port]
  OBVIOUS
<1>4. PICK x : x = busy[m].next
  OBVIOUS
<1>5. x \in Nat /\ x \in 1..TotalLen(f.len)
  BY <1>1, <1>3, <1>4, WritingFacts
<1>6. TotalLen(f.len) \in Nat
  <2>1. busy[m].port \in Port /\ outgoing[busy[m].port] # None
    BY <1>1, WritingFacts
  <2> QED
    BY <2>1, <1>3, OutgoingFrame
<1>7. PICK put \in BOOLEAN :
        /\ wire' = IF put THEN [wire EXCEPT ![Other(m)] = Append(@, NextByte(m))] ELSE wire
        /\ torn' = torn \cup BytesFrom(f.id, IF put THEN x + 1 ELSE x, f.len)
  BY <1>3, <1>4 DEF AbortWrite
<1>8. torn \subseteq torn'
  BY <1>7
<1>9. ~put => Byte(f.id, x) \in torn'
  <2> SUFFICES ASSUME ~put PROVE Byte(f.id, x) \in torn'
    OBVIOUS
  <2>1. x \in x..TotalLen(f.len)
    BY <1>5, <1>6
  <2>2. Byte(f.id, x) \in BytesFrom(f.id, x, f.len)
    BY <2>1 DEF BytesFrom
  <2> QED
    BY <1>7, <2>2
<1>10. x < TotalLen(f.len) => \E k \in Nat : Byte(f.id, k) \in torn'
  <2> SUFFICES ASSUME x < TotalLen(f.len) PROVE \E k \in Nat : Byte(f.id, k) \in torn'
    OBVIOUS
  <2>1. CASE put
    <3>1. x + 1 \in (x + 1)..TotalLen(f.len) /\ x + 1 \in Nat
      BY <1>5, <1>6
    <3>2. Byte(f.id, x + 1) \in BytesFrom(f.id, x + 1, f.len)
      BY <3>1 DEF BytesFrom
    <3>3. Byte(f.id, x + 1) \in torn'
      BY <1>7, <2>1, <3>2
    <3> QED
      BY <3>1, <3>3
  <2> QED
    BY <2>1, <1>5, <1>9
<1>11. wire' = IF put THEN [wire EXCEPT ![Other(m)] = Append(@, NextByte(m))] ELSE wire
  BY <1>7
<1>12. \A id \in accepted' : id \in accepted
  BY <1>1
<1>13. /\ Writing(m) /\ site' = site /\ offered' = offered /\ queue' = queue /\ rx' = rx
       /\ consumed' = consumed /\ rdr' = rdr /\ ring' = ring /\ parser' = parser /\ overflow' = overflow
  BY <1>1
<1> QED
  BY ZenonT(60), <1>2, <1>3, <1>4, <1>8, <1>9, <1>10, <1>11, <1>12, <1>13, WriterCarries

\* The M33's unread bytes stay, or one is lost: the frames for the M33 are then
\* damaged.
LEMMA RegisterCarries ==
  ASSUME FramesInv, StreamInv, AcceptedInv, RegisterStep
  PROVE  StreamInv' /\ AcceptedInv'
<1> USE DEF RegisterStep
<1>0. TypeOK /\ OfferedInv /\ "m33" \in Machine /\ \A n \in Machine : n = "host" \/ n = "m33"
  BY DEF FramesInv, Machine
<1>1. OfferedKept /\ torn \subseteq torn'
  <2>1. OfferedKept
    BY DEF OfferedKept, Ids
  <2>2. torn \subseteq torn'
    OBVIOUS
  <2> QED
    BY <2>1, <2>2
<1>2. Unread("host")' = Unread("host")
  BY DEF Unread
<1>3. \A m \in Machine : Written(m)' = Written(m)
  BY DEF Written, Writing
<1>4. PICK s \in Bytes : s = Unread("m33")
  BY <1>0, UnreadType
<1>5. PICK t \in Bytes : t = Unread("m33")'
  OBVIOUS
<1>6. t = s \/ (BytesOf(t) \subseteq BytesOf(s) /\ Damaged("m33")')
  <2>1. ASSUME NEW x, Shrunk(s, t, x), s[x] \in torn'
        PROVE  BytesOf(t) \subseteq BytesOf(s) /\ Damaged("m33")'
    <3>1. BytesOf(t) \subseteq BytesOf(s) /\ s[x] \in BytesOf(s)
      BY <2>1, ShrunkKeeps
    <3>2. PICK b \in torn' : b = s[x]
      BY <2>1
    <3>3. b \in OnLine("m33")
      BY <3>1, <3>2, <1>4 DEF OnLine
    <3> QED
      BY <3>1, <3>3, <1>0, <1>1, LossDamages
  <2> QED
    BY <1>4, <1>5, <2>1
<1>7. \A m \in Machine : Unread(m)' = Unread(m) \/ Damaged(m)'
  BY <1>0, <1>2, <1>4, <1>5, <1>6
<1>8. ASSUME NEW m \in Machine, ~Damaged(m)'
      PROVE  Stream(parser[m].buf, Unread(m), Written(Other(m)))'
  <2>1. Unread(m)' = Unread(m)
    BY <1>7, <1>8
  <2>2. Other(m) \in Machine
    BY DEF Other, Machine
  <2>3. Written(Other(m))' = Written(Other(m))
    BY <2>2, <1>3
  <2> QED
    BY <1>1, <1>8, <2>1, <2>3, StreamStays
<1>9. StreamInv'
  <2>1. OnLine("m33")' \subseteq OnLine("m33")
    <3>1. OnLine("m33")' = BytesOf(parser["m33"].buf) \cup BytesOf(t)
      BY <1>5 DEF OnLine, BytesOf
    <3> QED
      BY <3>1, <1>4, <1>6 DEF OnLine
  <2>2. \A b \in OnLine("m33")' : b.id # 0
    BY <2>1 DEF StreamInv
  <2> QED
    BY <2>2, <1>8 DEF StreamInv
<1>10. \A id \in Ids : offered[id].to \in Role
  BY <1>0 DEF OfferedInv
<1>11. accepted \subseteq Ids
  BY <1>0 DEF TypeOK
<1>12. \A r \in Role : Held(r)' = Held(r)
  BY <1>1, HoldUnchanged
<1>13. ASSUME NEW id \in accepted', NEW m \in Machine, m = HostOf(offered[id].to)
       PROVE  \/ overflow' \/ Damaged(m)' \/ Arrived(id)'
              \/ id \in accepted /\ (Arrived(id) => Arrived(id)')
  <2>1. id \in accepted /\ id \in Ids /\ offered[id].to \in Role
    BY <1>10, <1>11
  <2>2. CASE Unread(m)' = Unread(m)
    <3>1. \A b \in BytesOf(Unread(m)) : b \in BytesOf(Unread(m))'
      BY <2>2 DEF BytesOf
    <3> QED
      BY <1>1, <1>12, <1>13, <2>1, <3>1, ArrivedKept
  <2> QED
    BY <1>7, <2>2
<1> QED
  BY <1>1, <1>9, <1>11, <1>13, AcceptedStep

\* A machine that reads does not write, and the other one goes on.
LEMMA ReaderIsNoWriter ==
  ASSUME FramesInv, NEW m \in Machine, Draining(m), outgoing' = outgoing,
         NEW full \in BOOLEAN,
         busy' = IF m = "m33" THEN busy
                 ELSE IF full THEN [busy EXCEPT ![m] = None]
                 ELSE [busy EXCEPT ![m].left = @ - 1]
  PROVE  \A n \in Machine : Written(n)' = Written(n)
<1>0. TypeOK
  BY DEF FramesInv
<1>1. busy[m] \in Drains /\ ~Writing(m)
  BY <1>0 DEF Draining, Writing, TypeOK, Writes, Drains
<1>2. ~Writing(m)'
  <2>1. CASE m = "m33"
    BY <2>1, <1>1 DEF Writing
  <2>2. CASE m # "m33" /\ full
    BY <2>2, <1>0 DEF Writing, TypeOK
  <2>3. CASE m # "m33" /\ ~full
    <3>1. busy'[m] = [busy[m] EXCEPT !.left = @ - 1]
      BY <2>3, <1>0 DEF TypeOK
    <3>2. busy[m] = [op |-> "drain", port |-> busy[m].port, left |-> busy[m].left]
      BY <1>1 DEF Drains
    <3>3. busy'[m].op = "drain"
      BY <3>1, <3>2
    <3> QED
      BY <3>3 DEF Writing
  <2> QED
    BY <2>1, <2>2, <2>3
<1>3. \A n \in Machine : n # m => busy'[n] = busy[n]
  BY <1>0 DEF TypeOK
<1>4. \A n \in Machine :
        \/ ~Writing(n) /\ ~Writing(n)'
        \/ Writing(n) /\ busy'[n] = busy[n] /\ outgoing'[busy[n].port] = outgoing[busy[n].port]
  BY <1>1, <1>2, <1>3 DEF Writing
<1> QED
  BY <1>4, WrittenSame

\* A frame that was offered is not rejected.
LEMMA OfferedIsKnown ==
  ASSUME TypeOK, OfferedInv, NEW id \in Ids, ~Misread(id)
  PROVE  ~Rejected(id) /\ id # 0 /\ offered[id].to \in Role
<1>1. offered[id] \in Frame /\ id # 0
  BY DEF TypeOK, Ids
<1>2. <<offered[id].from, offered[id].to>> \in site.flow
  BY SentFrame
<1>3. offered[id].to \in Role
  BY DEF OfferedInv
<1>4. \A e \in site.flow : e[1] \in 0..4 /\ e[1] # e[2]
  BY UartAssumption DEF TypeOK
<1>5. /\ offered[id].from # offered[id].to
      /\ offered[id].from \in 0..4 /\ offered[id].to \in 0..4
  BY <1>1, <1>2, <1>4 DEF Frame
<1> QED
  BY <1>1, <1>3, <1>5 DEF Rejected, PROOF_CARRIER_ROLES

\* The last byte of a frame brings it to its role.
LEMMA DrainByteCarries ==
  ASSUME FramesInv, StreamInv, AcceptedInv, NEW m \in Machine, DrainByte(m)
  PROVE  /\ StreamInv' /\ AcceptedInv'
         /\ offered' = offered \/ (DrainsMadeUp(m) /\ Damaged(m)')
<1>0. TypeOK /\ BusyInv /\ OfferedInv
  BY DEF FramesInv
<1>1. /\ Draining(m) /\ Readable(m) # <<>> /\ TakeByte(m)
      /\ site' = site /\ outgoing' = outgoing /\ rx' = rx /\ accepted' = accepted
      /\ consumed' = consumed /\ torn' = torn
  BY DEF DrainByte
<1>2. site.kind = "uart"
  BY <1>0, <1>1 DEF Draining, BusyInv
<1>3. PICK b : b = Head(Readable(m))
  BY SMTT(40)
<1>4. PICK res \in ParserPush(parser[m], b), full \in BOOLEAN :
        /\ parser' = [parser EXCEPT ![m] = res.parser]
        /\ overflow' = (overflow \/ full)
        /\ busy' = IF m = "m33" THEN busy
                   ELSE IF full THEN [busy EXCEPT ![m] = None]
                   ELSE [busy EXCEPT ![m].left = @ - 1]
        /\ DrainsFrame(res.id) \/ (res.id = NextId /\ DrainsMadeUp(m))
        /\ res.id # None /\ res.id # NextId /\ ~Rejected(res.id) => full \/ Pushed(res.id)
  BY <1>0, <1>3, DrainCases
<1>5. OfferedKept /\ torn \subseteq torn'
  <2>1. CASE offered' = offered
    BY <2>1, <1>1 DEF OfferedKept, Ids
  <2>2. CASE DrainsMadeUp(m)
    BY <2>2, <1>1, <1>2, MadeUpIsNew DEF DrainsMadeUp
  <2> QED
    BY <2>1, <2>2, <1>1, <1>4 DEF DrainsFrame
<1>6. /\ b \in OnLine(m) /\ b \in LineByte /\ ParserOK(parser'[m])
      /\ \A n \in Machine : OnLine(n)' \subseteq OnLine(n)
      /\ \A c \in BytesOf(Unread(m)') : Before(b, c)
      /\ res.id # None /\ res.id # NextId =>
           /\ res.id \in Ids \cup {0} /\ OnLine(m)' = BytesOf(Unread(m)')
           /\ b = Byte(res.id, TotalLen(LenOf(res.id)))
           /\ \A k \in (MAGIC_LEN + 1)..TotalLen(LenOf(res.id)) : Byte(res.id, k) \in OnLine(m)
  BY <1>0, <1>1, <1>3, <1>4, <1>5, ReadStep
<1>7. /\ \A r \in Role : Held(r) \subseteq Held(r)'
      /\ DrainsFrame(res.id) /\ Pushed(res.id) => \E r \in Role : r = offered[res.id].to /\ res.id \in Held(r)'
  <2>1. CASE DrainsFrame(res.id)
    <3>1. PICK id : id = res.id
      OBVIOUS
    <3>2. offered' = offered /\ id # NextId /\ (queue' = queue \/ Pushed(id))
      BY <2>1, <3>1 DEF DrainsFrame
    <3>3. /\ \A r \in Role : Held(r) \subseteq Held(r)'
          /\ Pushed(id) => \E r \in Role : r = offered[id].to /\ id \in Held(r)'
      BY <1>1, <1>6, <3>1, <3>2, ReadHolds
    <3> QED
      BY <3>1, <3>3
  <2>2. CASE res.id = NextId /\ DrainsMadeUp(m)
    <3>1. \A r \in Role : Held(r) \subseteq Held(r)'
      BY <2>2, <1>1, <1>6, <1>2, MadeUpHolds DEF DrainsMadeUp
    <3> QED
      BY <2>2, <3>1 DEF DrainsFrame
  <2> QED
    BY <2>1, <2>2, <1>4
<1>8. \A n \in Machine : Written(n)' = Written(n)
  BY <1>1, <1>4, ReaderIsNoWriter
<1>9. PICK n \in Machine : n = Other(m) /\ n # m /\ Other(n) = m
  BY DEF Machine, Other
<1>10. \A q \in Machine : q = m \/ q = n
  BY <1>9 DEF Machine
<1>11. b = Unread(m)[1] /\ Shrunk(Unread(m), Unread(m)', 1) /\ Unread(n)' = Unread(n)
  BY <1>0, <1>1, <1>3, <1>9, ReadableFirst
<1>12. PICK s \in Bytes : s = Unread(m)
  BY <1>0, UnreadType
<1>13. PICK t \in Bytes : t = Unread(m)'
  BY <1>0, <1>1, TakeTypes
<1>14. parser'[n] = parser[n] /\ parser'[m] = res.parser
  BY <1>0, <1>4, <1>9 DEF TypeOK
<1>15. ASSUME ~Damaged(m)'
       PROVE  /\ Stream(parser[m].buf, Unread(m), Written(n))'
              /\ (Ends(b) /\ b.id # 0 => res.id = b.id) /\ res.id # NextId
  <2>1. ~Damaged(m)
    BY <1>5, <1>15, DamageKept
  <2>2. PICK a : a = parser[m] /\ ParserOK(a)
    BY <1>0, UnreadType
  <2>3. NeedOK(a)
    BY <2>2 DEF FramesInv, NeedInv, NeedOK, h
  <2>4. PICK w : w = Written(n)
    OBVIOUS
  <2>5. Stream(a.buf, s, w)
    BY <2>1, <2>2, <2>4, <1>9, <1>12 DEF StreamInv
  <2>6. w # None => ~Ends(w)
    BY <2>4, WrittenType
  <2>7. b.id \in Ids \cup {0} /\ \A c \in BytesOf(a.buf) : c.id \in Ids \cup {0}
    <3>1. \A c \in OnLine(m) : c.id \in Ids \cup {0}
      BY LineTypes
    <3>2. BytesOf(a.buf) \subseteq OnLine(m)
      BY <2>2 DEF OnLine
    <3> QED
      BY <3>1, <3>2, <1>6
  <2>8. Shrunk(s, t, 1) /\ b = s[1]
    BY <1>11, <1>12, <1>13
  <2>9. res \in ParserPush(a, b)
    BY <2>2
  <2>10. /\ Stream(res.parser.buf, t, w)
         /\ (Ends(b) /\ b.id # 0 => res.id = b.id) /\ res.id # NextId
    BY <2>2, <2>3, <2>5, <2>6, <2>7, <2>8, <2>9, <1>0, <1>6, StreamReads
  <2>11. PICK buf \in Bytes : buf = res.parser.buf
    BY <1>6, <1>14 DEF ParserOK, Bytes
  <2>12. buf = parser'[m].buf /\ t = Unread(m)' /\ w = Written(n)'
    BY <2>4, <2>11, <1>8, <1>13, <1>14
  <2>13. Stream(buf, t, w)
    BY <2>10, <2>11
  <2>14. \A c \in BytesOf(buf) \cup BytesOf(t) : c.id \in Ids \cup {0}
    <3>1. \A c \in BytesOf(buf) \cup BytesOf(t) : c \in OnLine(m)
      BY <2>12, <1>6 DEF OnLine, BytesOf
    <3> QED
      BY <3>1, LineTypes
  <2>15. w # None => w.id \in Ids
    BY <2>4, WrittenType
  <2>16. Stream(buf, t, w)'
    BY <2>13, <2>14, <2>15, <1>5, <1>13, StreamKept
  <2>17. Stream(parser[m].buf, Unread(m), Written(n))'
    BY <2>12, <2>16 DEF Stream, Follows, Closes, Ends
  <2> QED
    BY <2>10, <2>17
<1>16. StreamInv'
  <2>1. \A c \in OnLine("m33")' : c.id # 0
    BY <1>6 DEF StreamInv, Machine
  <2>2. ASSUME NEW q \in Machine, ~Damaged(q)'
        PROVE  Stream(parser[q].buf, Unread(q), Written(Other(q)))'
    <3>1. CASE q = m
      <4>1. Other(q) = n
        BY <3>1, <1>9
      <4> QED
        BY <3>1, <4>1, <2>2, <1>15 DEF Other
    <3>2. CASE q = n
      <4>1. Written(Other(q))' = Written(Other(q))
        BY <3>2, <1>8, <1>9
      <4>2. parser'[q] = parser[q] /\ Unread(q)' = Unread(q)
        BY <3>2, <1>11, <1>14
      <4> QED
        BY <4>1, <4>2, <2>2, <1>5, StreamStays
    <3> QED
      BY <1>10, <3>1, <3>2
  <2> QED
    BY <2>1, <2>2 DEF StreamInv
<1>17. ASSUME NEW id \in accepted', NEW q \in Machine, q = HostOf(offered[id].to)
       PROVE  \/ overflow' \/ Damaged(q)' \/ Arrived(id)'
              \/ id \in accepted /\ (Arrived(id) => Arrived(id)')
  <2>1. id \in accepted /\ id \in Ids
    BY <1>0, <1>1 DEF TypeOK
  <2>2. id # 0 /\ offered[id].to \in Role
    <3>1. offered[id].to \in Role
      BY <2>1, <1>0 DEF OfferedInv
    <3> QED
      BY <3>1, <2>1, <1>0 DEF Ids, TypeOK
  <2>3. CASE q = n
    <3>1. \A c \in BytesOf(Unread(q)) : c \in BytesOf(Unread(q))'
      BY <2>3, <1>11 DEF BytesOf
    <3> QED
      BY <2>1, <2>2, <3>1, <1>7, <1>5, <1>17, ArrivedKept
  <2>4. ASSUME q = m, ~overflow', ~Damaged(m)', Arrived(id)
        PROVE  Arrived(id)'
    <3>1. PICK f \in Frame : /\ f = offered[id] /\ f = offered'[id] /\ f.to \in Role
                             /\ LenOf(id) = f.len
      <4>1. offered[id] \in Frame
        BY <2>1, <1>0 DEF TypeOK, Ids
      <4> QED
        BY <4>1, <2>1, <2>2, <1>5 DEF LenOf, OfferedKept
    <3>2. PICK o \in Machine : o = HostOf(f.from)
      BY DEF HostOf, Machine
    <3>3. HostOf(f.to) = m /\ HostOf(f.to)' = m /\ HostOf(f.from)' = o
      BY <2>4, <3>1, <3>2, <1>1, <1>17 DEF HostOf
    <3>4. PICK y : y = Byte(id, TotalLen(f.len))
      OBVIOUS
    <3>5. id \in Held(f.to) \/ (o # m /\ y \in BytesOf(s))
      BY <2>4, <3>1, <3>2, <3>3, <3>4, <1>12 DEF Arrived
    <3>6. id \in Held(f.to)' \/ (o # m /\ y \in BytesOf(t))
      <4>1. CASE id \in Held(f.to)
        BY <4>1, <3>1, <1>7
      <4>2. CASE o # m /\ y \in BytesOf(s) /\ y # b
        <5>1. PICK i \in 1..Len(s) : y = s[i]
          BY <4>2 DEF BytesOf
        <5>2. Shrunk(s, t, 1) /\ b = s[1]
          BY <1>11, <1>12, <1>13
        <5>3. i # 1
          BY <4>2, <5>1, <5>2
        <5>4. /\ Len(s) \in Nat /\ Len(t) \in Nat /\ Len(t) = Len(s) - 1
              /\ \A j \in 1..Len(t) : t[j] = s[IF j < 1 THEN j ELSE j + 1]
          BY <5>2 DEF Shrunk, Bytes
        <5>5. i - 1 \in 1..Len(t) /\ t[i - 1] = s[i]
          BY <5>1, <5>3, <5>4
        <5> QED
          BY <4>2, <5>1, <5>5 DEF BytesOf
      <4>3. CASE y = b
        <5>1. b.id = id /\ b.k = TotalLen(LenOf(id))
          BY <4>3, <3>1, <3>4 DEF Byte
        <5>2. Ends(b) /\ b.id # 0
          BY <5>1, <2>2 DEF Ends
        <5>3. res.id = id
          BY <5>1, <5>2, <2>4, <1>15
        <5>4. id # None
          BY <2>1, <1>0, UartAssumption DEF TypeOK, Ids
        <5>5. ~full
          BY <2>4, <1>4
        <5>6. ~Misread(id)
          BY <5>1, <2>2, <1>6, LineTypes DEF SentTo
        <5>7. ~Rejected(id) /\ id # NextId
          BY <5>6, <2>1, <2>4, <5>3, <1>0, <1>15, OfferedIsKnown
        <5>8. Pushed(res.id) /\ DrainsFrame(res.id)
          BY <5>3, <5>4, <5>5, <5>7, <1>4
        <5>9. PICK r \in Role : r = f.to /\ id \in Held(r)'
          BY <5>3, <5>8, <3>1, <1>7
        <5> QED
          BY <5>9
      <4> QED
        BY <3>5, <4>1, <4>2, <4>3
    <3>7. y \in BytesOf(t) => y \in BytesOf(Unread(m))'
      BY <1>13 DEF BytesOf
    <3> QED
      BY <3>1, <3>3, <3>4, <3>6, <3>7 DEF Arrived, HostOf
  <2> QED
    BY <1>10, <2>1, <2>3, <2>4
<1>18. overflow => overflow'
  BY <1>4
<1>19. \A id \in accepted' : id \in Ids
  BY <1>0, <1>1 DEF TypeOK
<1>20. offered' = offered \/ (DrainsMadeUp(m) /\ Damaged(m)')
  BY <1>4, <1>15 DEF DrainsFrame
<1> QED
  BY <1>5, <1>16, <1>17, <1>18, <1>19, <1>20, AcceptedStep

\* What the tty holds before the session, if nothing of it was cut off, is a
\* whole frame or the banner.
LEMMA LeftoverStream ==
  ASSUME NEW left \in {"nothing", "banner", "frame"}
  PROVE  Stream(<<>>, Leftover(left), None)
<1> DEFINE T == TotalLen(StaleLen)
<1>1. T \in Nat /\ T > 1 /\ LenOf(0) = StaleLen
  BY Constants DEF TotalLen, StaleLen, LenOf
<1>2. \A k : Byte(0, k).id = 0 /\ Byte(0, k).k = k
  BY DEF Byte
<1>3. OtherText = T + 1
  BY DEF OtherText
<1>4. \A k \in Nat : Ends(Byte(0, k)) <=> k = T \/ k = T + 1
  <2>1. \A k : Byte(0, k) = Byte(0, OtherText) <=> k = OtherText
    BY DEF Byte
  <2> QED
    BY <1>1, <1>2, <1>3, <2>1 DEF Ends
<1> HIDE DEF T
<1>5. CASE left = "nothing"
  <2>1. Leftover(left) = <<>> /\ Len(<<>>) = 0
    BY <1>5 DEF Leftover
  <2> QED
    BY <2>1 DEF Stream
<1>6. CASE left = "banner"
  <2>1. PICK c, d : c = Byte(0, 1) /\ d = Byte(0, OtherText) /\ c.k = 1
    BY <1>2
  <2>2. ~Ends(c) /\ Ends(d)
    BY <2>1, <1>1, <1>3, <1>4
  <2>3. Follows(c, d)
    BY <2>1, <2>2 DEF Follows
  <2>4. Closes(None, d)
    BY <2>2 DEF Closes
  <2>5. Leftover(left) = <<c, d>> /\ Len(<<c, d>>) = 2 /\ Len(<<>>) = 0 /\ <<c, d>> # <<>>
    BY <2>1, <1>6 DEF Leftover
  <2> QED
    BY <2>1, <2>3, <2>4, <2>5 DEF Stream
<1>7. CASE left = "frame"
  <2>1. Leftover(left) = StaleFrame
    BY <1>7 DEF Leftover
  <2>2. PICK s \in Bytes : s = StaleFrame /\ Len(s) = T
    <3>1. \A k \in Nat : Byte(0, k) \in LineByte
      BY DEF Byte, LineByte
    <3>2. StaleFrame = [k \in 1..T |-> Byte(0, k)]
      BY DEF StaleFrame, T
    <3>3. [k \in 1..T |-> Byte(0, k)] \in Seq(LineByte)
      BY <3>1, <1>1
    <3>4. Len([k \in 1..T |-> Byte(0, k)]) = T
      BY <1>1
    <3> QED
      BY <3>2, <3>3, <3>4 DEF Bytes
  <2>3. \A k \in 1..T : s[k] = Byte(0, k)
    BY <2>2 DEF StaleFrame, T
  <2>4. ASSUME NEW i \in 1..(T - 1)
        PROVE  Follows(s[i], s[i + 1])
    <3>1. i \in 1..T /\ i + 1 \in 1..T /\ i \in Nat /\ i # T /\ i # T + 1
      BY <1>1
    <3>2. s[i] = Byte(0, i) /\ s[i + 1] = Byte(0, i + 1)
      BY <2>3, <3>1
    <3>3. ~Ends(Byte(0, i))
      BY <3>1, <1>4
    <3> QED
      BY <3>2, <3>3, <1>2 DEF Follows
  <2>5. s[1].k = 1 /\ s # <<>>
    BY <2>2, <2>3, <1>1, <1>2
  <2>6. Closes(None, s[T])
    <3>1. s[T] = Byte(0, T)
      BY <2>3, <1>1
    <3>2. Ends(Byte(0, T))
      BY <1>1, <1>4
    <3> QED
      BY <3>1, <3>2 DEF Closes
  <2>7. Stream(<<>>, s, None)
    BY <2>2, <2>4, <2>5, <2>6 DEF Stream
  <2> QED
    BY <2>1, <2>2, <2>7
<1> QED
  BY <1>5, <1>6, <1>7

\* At the start nothing was accepted.
LEMMA CarriesInit ==
  ASSUME Init
  PROVE  StreamInv /\ AcceptedInv
<1>0. /\ site \in Site /\ rdr = None /\ ring = <<>> /\ accepted = {}
      /\ wire = [m \in Machine |-> IF m = "host" THEN Leftover(site.left) ELSE <<>>]
      /\ parser = [m \in Machine |-> EmptyParser] /\ busy = [m \in Machine |-> None]
      /\ torn = IF site.left = "cut"
                THEN BytesFrom(0, UART_CARRIER_HEADER_BYTES + 1, StaleLen) ELSE {}
  BY DEF Init
<1>1. site.left \in {"nothing", "banner", "frame", "cut"}
  BY <1>0, UartAssumption
<1>2. /\ \A m \in Machine : parser[m].buf = <<>> /\ Written(m) = None /\ Other(m) \in Machine
      /\ Unread("host") = Leftover(site.left) /\ Unread("m33") = <<>>
  <2>1. \A m \in Machine : parser[m].buf = <<>> /\ Written(m) = None
    BY <1>0 DEF EmptyParser, Written, Writing
  <2>2. Unread("host") = Leftover(site.left)
    BY <1>0 DEF Unread, Machine
  <2>3. Unread("m33") = <<>>
    BY <1>0 DEF Unread, Joined, Machine
  <2> QED
    BY <2>1, <2>2, <2>3 DEF Other, Machine
<1>3. site.left = "cut" => Damaged("host")
  <2> SUFFICES ASSUME site.left = "cut" PROVE Damaged("host")
    OBVIOUS
  <2>1. h + 1 \in (h + 1)..TotalLen(StaleLen)
    BY Constants DEF TotalLen, StaleLen, h
  <2>2. Byte(0, h + 1) \in torn
    BY <2>1, <1>0 DEF BytesFrom, h
  <2>3. Byte(0, h + 1).id = 0
    BY DEF Byte
  <2> QED
    BY <2>2, <2>3 DEF Damaged
<1>4. ASSUME ~Damaged("host")
      PROVE  Stream(<<>>, Leftover(site.left), None)
  BY <1>1, <1>3, <1>4, LeftoverStream
<1>5. Stream(<<>>, <<>>, None)
  <2>1. Leftover("nothing") = <<>>
    BY DEF Leftover
  <2> QED
    BY <2>1, LeftoverStream
<1>6. StreamInv
  <2>1. OnLine("m33") = {}
    BY <1>2 DEF OnLine, BytesOf, Machine
  <2> QED
    BY <2>1, <1>2, <1>4, <1>5 DEF StreamInv, Machine
<1>7. AcceptedInv
  BY <1>0 DEF AcceptedInv
<1> QED
  BY <1>6, <1>7

\* A step of the two machines, and what it leaves of the frames accepted.
LEMMA CarriesStep ==
  ASSUME FramesInv, StreamInv, AcceptedInv, [Next]_vars
  PROVE  StreamInv' /\ AcceptedInv'
<1>1. ASSUME NEW p \in Port, NEW to \in Role, NEW l \in site.lens, BeginSend(p, to, l)
      PROVE  StreamInv' /\ AcceptedInv'
  BY <1>1, BeginSendCarries
<1>2. ASSUME NEW p \in Port, Polls(p)
      PROVE  StreamInv' /\ AcceptedInv'
  <2>1. CASE HostPollSendLocal(p) \/ ProofPollSend(p) \/ SplitPollSend(p)
    BY <2>1, SendPollsCarry
  <2>2. CASE HostPollSend(p) \/ M33PollSend(p)
    BY <2>2, StartWritingCarries
  <2>3. CASE HostPollRecv(p) \/ M33PollRecv(p) \/ ProofPollRecv(p) \/ SplitPollRecv(p)
    BY <2>3, PollRecvCarries
  <2> QED
    BY <1>2, <2>1, <2>2, <2>3 DEF Polls
<1>3. ASSUME NEW p \in Port, Requeue(p) \/ SplitRequeue(p)
      PROVE  StreamInv' /\ AcceptedInv'
  BY <1>3, RequeueCarries
<1>4. ASSUME NEW m \in Machine, WriteByte(m)
      PROVE  StreamInv' /\ AcceptedInv'
  BY <1>4, WriteByteCarries
<1>5. ASSUME NEW m \in Machine, AbortWrite(m)
      PROVE  StreamInv' /\ AcceptedInv'
  BY <1>5, AbortWriteCarries
<1>6. ASSUME NEW m \in Machine, DrainByte(m)
      PROVE  StreamInv' /\ AcceptedInv'
  BY <1>6, DrainByteCarries
<1>7. ASSUME NEW m \in Machine, DrainEnd(m) \/ (m = "m33" /\ M33RecvDeadline)
      PROVE  StreamInv' /\ AcceptedInv'
  BY <1>7, DrainEndCarries
<1>8. CASE M33DropByte
  BY <1>8, M33DropByteCarries
<1>9. CASE Arrive \/ PumpRxRing
  <2>1. RegisterStep
    BY <1>9, ArriveIsRegister, PumpIsRegister DEF FramesInv
  <2> QED
    BY <2>1, RegisterCarries
<1>10. CASE M33RecvDeadline
  BY <1>7, <1>10 DEF Machine
<1>11. CASE UNCHANGED vars
  BY <1>11, StutterCarries
<1> QED
  BY <1>1, <1>2, <1>3, <1>4, <1>5, <1>6, <1>7, <1>8, <1>9, <1>10, <1>11 DEF Next

\* No frame is made up but at a machine that bytes were lost on the way to.
LEMMA MisreadStep ==
  ASSUME FramesInv, StreamInv, AcceptedInv, MisreadInv, [Next]_vars
  PROVE  MisreadInv'
<1>1. ASSUME OfferedKept, torn \subseteq torn',
             NEW m \in Machine, \A id \in Ids' \ Ids : offered'[id].from # Nobody
                                   \/ (Damaged(m)' /\ HostOf(offered[id].to)' = m)
      PROVE  MisreadInv'
  <2> SUFFICES ASSUME NEW id \in Ids', offered'[id].from = Nobody
               PROVE  Damaged(HostOf(offered[id].to))'
    BY DEF MisreadInv, Misread
  <2>1. CASE id \in Ids
    <3>1. offered'[id] = offered[id] /\ HostOf(offered[id].to)' = HostOf(offered[id].to)
      BY <2>1, <1>1 DEF OfferedKept, HostOf
    <3>2. PICK q : q = HostOf(offered[id].to)
      OBVIOUS
    <3>3. Damaged(q)
      BY <2>1, <3>1, <3>2 DEF MisreadInv, Misread
    <3>4. Damaged(q)'
      BY <3>3, <1>1, DamageKept
    <3> QED
      BY <3>1, <3>2, <3>4 DEF Damaged
  <2>2. CASE id \notin Ids
    <3>1. Damaged(m)' /\ HostOf(offered[id].to)' = m
      BY <2>2, <1>1
    <3> QED
      BY <3>1 DEF Damaged, HostOf
  <2> QED
    BY <2>1, <2>2
<1>2. ASSUME offered' = offered, site' = site, torn \subseteq torn'
      PROVE  MisreadInv'
  <2>1. OfferedKept /\ Ids' = Ids
    BY <1>2 DEF OfferedKept, Ids
  <2> QED
    BY <2>1, <1>1, <1>2 DEF Machine
<1>3. ASSUME NEW p \in Port, NEW to \in Role, NEW l \in site.lens, BeginSend(p, to, l)
      PROVE  MisreadInv'
  <2>1. PICK f : f.from = RoleOf(p) /\ offered' = Append(offered, f)
    BY <1>3 DEF BeginSend
  <2>2. /\ OfferedKept /\ \A id \in Ids' \ Ids : offered'[id] = f
    <3>1. offered \in Seq(Frame)
      BY DEF FramesInv, TypeOK
    <3>2. PICK F : offered \in Seq(F) /\ f \in F
      <4>1. offered \in Seq(Frame \cup {f})
        BY <3>1
      <4> QED
        BY <4>1
    <3>3. /\ Len(offered) \in Nat /\ Len(offered') = Len(offered) + 1
          /\ offered'[Len(offered) + 1] = f /\ \A id \in 1..Len(offered) : offered'[id] = offered[id]
      BY <3>2, <2>1
    <3> QED
      BY <3>3, <1>3 DEF OfferedKept, Ids, BeginSend
  <2>3. RoleOf(p) # Nobody
    BY PortIsPair DEF FramesInv, Nobody, PROOF_CARRIER_ROLES
  <2>4. torn' = torn
    BY <1>3 DEF BeginSend
  <2> QED
    BY <2>1, <2>2, <2>3, <2>4, <1>1 DEF Machine
<1>4. ASSUME NEW m \in Machine, DrainByte(m)
      PROVE  MisreadInv'
  <2>1. site' = site /\ torn' = torn /\ outgoing' = outgoing
    BY <1>4 DEF DrainByte
  <2>2. CASE offered' = offered
    BY <2>1, <2>2, <1>2
  <2>3. CASE DrainsMadeUp(m) /\ Damaged(m)'
    <3>1. site.kind = "uart"
      BY <1>4 DEF DrainByte, Draining, FramesInv, BusyInv
    <3>2. PICK f \in MadeUp(m) : offered' = Append(offered, f)
      BY <2>3 DEF DrainsMadeUp
    <3>3. /\ HostOf(f.to) = m /\ offered'[NextId] = f /\ OfferedKept
          /\ \A id \in Ids' : id \in Ids \/ id = NextId
      BY <2>1, <3>1, <3>2, MadeUpIsNew
    <3>4. \A id \in Ids' \ Ids : HostOf(offered[id].to)' = m
      <4>1. \A id \in Ids' \ Ids : offered'[id] = f
        BY <3>3
      <4> QED
        BY <2>1, <3>3, <4>1 DEF HostOf
    <3> QED
      BY <2>1, <2>3, <3>3, <3>4, <1>1
  <2> QED
    BY <2>2, <2>3, <1>4, DrainByteCarries
<1>5. CASE \/ \E p \in Port : Polls(p) \/ Requeue(p) \/ SplitRequeue(p)
           \/ \E m \in Machine : WriteByte(m) \/ AbortWrite(m) \/ DrainEnd(m)
           \/ M33DropByte \/ Arrive \/ PumpRxRing \/ M33RecvDeadline \/ UNCHANGED vars
  <2>1. offered' = offered /\ site' = site
    BY <1>5 DEF Polls, HostPollSendLocal, HostPollSend, M33PollSend, ProofPollSend, SplitPollSend,
                StartWriting, HostPollRecv, M33PollRecv, ProofPollRecv, SplitPollRecv, Requeue,
                SplitRequeue, WriteByte, AbortWrite, DrainEnd, M33DropByte, Arrive, PumpRxRing,
                M33RecvDeadline, vars
  <2>2. torn \subseteq torn'
    BY <1>5 DEF Polls, HostPollSendLocal, HostPollSend, M33PollSend, ProofPollSend, SplitPollSend,
                StartWriting, HostPollRecv, M33PollRecv, ProofPollRecv, SplitPollRecv, Requeue,
                SplitRequeue, WriteByte, AbortWrite, DrainEnd, M33DropByte, Arrive, PumpRxRing,
                M33RecvDeadline, vars
  <2> QED
    BY <2>1, <2>2, <1>2
<1> QED
  BY <1>3, <1>4, <1>5 DEF Next

\* Whatever the line loses and however the machines take turns: what a role
\* holds is whole, or the checksum agreed by chance with bytes that were not one
\* frame, which needs a loss on the way to that machine; it is the role's own,
\* held once and in the order of the sends; and an accepted frame of which no
\* byte was lost is there or on its way.
THEOREM LinkInvariant == Spec => []LinkInv
<1>1. Init => LinkInv
  <2>1. Init => MisreadInv
    BY DEF Init, MisreadInv, Ids
  <2> QED
    BY <2>1, LinkInit, CarriesInit DEF LinkInv
<1>2. LinkInv /\ [Next]_vars => LinkInv'
  BY LinkStep, CarriesStep, MisreadStep DEF LinkInv
<1> QED
  BY <1>1, <1>2, PTL DEF Spec, Safety

\* A line that is clear has no byte left to read.
LEMMA ClearIsRead ==
  ASSUME NEW m \in Machine, LineClear(m)
  PROVE  BytesOf(Unread(m)) = {}
<1>1. Unread(m) = <<>>
  <2>1. CASE m = "host"
    BY <2>1 DEF LineClear, Unread
  <2>2. CASE m = "m33"
    <3>1. rdr = None /\ ring = <<>> /\ wire["m33"] = <<>>
      BY <2>2 DEF LineClear
    <3> QED
      BY <2>2, <3>1 DEF Unread, Joined
  <2> QED
    BY <2>1, <2>2 DEF Machine
<1> QED
  BY <1>1 DEF BytesOf

\* A frame whose send returned Ready is with its role once the line is clear,
\* unless a byte of the line was lost or a queue was full.
THEOREM NothingIsLost == Spec => []NothingLost
<1>1. LinkInv => NothingLost
  <2> SUFFICES ASSUME LinkInv, NEW id \in accepted, ~overflow,
                      ~Damaged(HostOf(offered[id].to)), LineClear(HostOf(offered[id].to))
               PROVE  id \in Held(offered[id].to)
    BY DEF NothingLost
  <2>1. Arrived(id)
    BY DEF LinkInv, AcceptedInv
  <2>2. PICK m \in Machine : m = HostOf(offered[id].to)
    BY DEF HostOf, Machine
  <2>3. BytesOf(Unread(m)) = {}
    BY <2>2, ClearIsRead
  <2> QED
    BY <2>1, <2>2, <2>3 DEF Arrived
<1> QED
  BY <1>1, LinkInvariant, PTL
=============================================================================
