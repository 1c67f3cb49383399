--------------------------- MODULE MidiRecv_proofs ---------------------------
(***************************************************************************)
(* Proofs about RecvData, for every size of the buffer, every content of   *)
(* the uninitialised memory and every transfer that is not one event short *)
(* of the buffer and has at least one event, padding included.  The two    *)
(* exceptions are where the theorems fail: the marker is missing, or only  *)
(* its two bytes are.                                                      *)
(***************************************************************************)
EXTENDS MidiRecv, SequenceTheorems, FiniteSetTheorems, TLAPS

\* No transfer is empty, or is one event short of the buffer.
MarkedLengths == 0 \notin Lengths /\ Slots - 1 \notin Lengths

(***************************************************************************)
(* Transfers.                                                              *)
(***************************************************************************)
Transfer == UNION {Padded(n) : n \in Lengths}

\* An event of the device does not look like the marker; padding does.
LEMMA EventHeads ==
  /\ ZeroHead(ZeroEvent) /\ ZeroAll(ZeroEvent) /\ ZeroEvent \in EventType
  /\ \A e \in Events : ~ZeroHead(e) /\ ~ZeroAll(e) /\ e # ZeroEvent /\ e \in EventType
<1>1. ZeroHead(ZeroEvent) /\ ZeroAll(ZeroEvent) /\ ZeroEvent \in EventType
  BY SMT DEF ZeroHead, ZeroAll, ZeroEvent, EventType
<1>2. \A e \in Events : ~ZeroHead(e) /\ e \in EventType
  BY RecvAssumption, Zenon
<1>3. QED
  BY <1>1, <1>2, Zenon DEF ZeroAll

\* A transfer is its events followed by padding.
LEMMA TransferParts ==
  ASSUME NEW t \in Transfer
  PROVE  /\ Len(t) \in Lengths /\ Len(t) \in 0..Slots
         /\ t \in Seq(Events \cup {ZeroEvent})
         /\ EventsOf(t) \in Seq(Events) /\ Len(EventsOf(t)) \in 0..Len(t)
         /\ \A i \in 1..Len(EventsOf(t)) : EventsOf(t)[i] = t[i] /\ t[i] \in Events
         /\ \A i \in 1..Len(t) : i > Len(EventsOf(t)) => t[i] = ZeroEvent
<1>1. PICK n \in Lengths : t \in Padded(n)
  BY DEF Transfer
<1>2. PICK k \in 0..n : \A i \in 1..n : t[i] = ZeroEvent <=> i > k
  BY <1>1 DEF Padded
<1>3. t \in [1..n -> Events \cup {ZeroEvent}] /\ n \in 0..Slots /\ n \in Nat
  BY <1>1, RecvAssumption, SMT DEF Padded
<1>4. t \in Seq(Events \cup {ZeroEvent}) /\ Len(t) = n
  BY <1>3, SMT
<1>5. {i \in 1..n : ~ZeroHead(t[i])} = 1..k
  <2>1. ASSUME NEW i \in 1..n PROVE ~ZeroHead(t[i]) <=> i <= k
    <3>1. t[i] \in Events \cup {ZeroEvent}
      BY <1>3
    <3>2. ~ZeroHead(t[i]) <=> t[i] # ZeroEvent
      BY <3>1, EventHeads, Zenon
    <3>3. t[i] = ZeroEvent <=> i > k
      BY <1>2
    <3>4. QED
      BY <1>3, <3>2, <3>3, SMT
  <2>2. \A i : i \in {j \in 1..n : ~ZeroHead(t[j])} <=> i \in 1..n /\ i <= k
    BY <2>1, Zenon
  <2>3. QED
    BY <1>3, <2>2, SMT
<1>6. Cardinality({i \in 1..Len(t) : ~ZeroHead(t[i])}) = k
  <2>1. k \in Nat /\ Cardinality(1..k) = IF 1 > k THEN 0 ELSE (k - 1) + 1
    BY FS_Interval, SMT
  <2>2. Cardinality(1..k) = k
    BY <2>1, SMT
  <2>3. QED
    BY <1>4, <1>5, <2>2
<1>7. EventsOf(t) = SubSeq(t, 1, k)
  BY <1>6, Zenon DEF EventsOf
<1>8. \A i \in 1..k : t[i] \in Events
  <2> SUFFICES ASSUME NEW i \in 1..k PROVE t[i] \in Events
    OBVIOUS
  <2>1. i \in 1..n /\ ~(i > k)
    BY <1>3, SMT
  <2>2. t[i] \in Events \cup {ZeroEvent} /\ t[i] # ZeroEvent
    BY <1>2, <1>3, <2>1
  <2>3. QED
    BY <2>2
<1>9. /\ SubSeq(t, 1, k) \in Seq(Events) /\ Len(SubSeq(t, 1, k)) = k
      /\ \A i \in 1..k : SubSeq(t, 1, k)[i] = t[i]
  <2>1. k \in Int /\ 1 \in Int /\ k \in Nat
    BY <1>3, SMT
  <2>2. /\ SubSeq(t, 1, k) \in Seq(Events)
        /\ Len(SubSeq(t, 1, k)) = IF 1 <= k THEN (k - 1) + 1 ELSE 0
        /\ \A i \in 1..(k - 1) + 1 : SubSeq(t, 1, k)[i] = t[1 + i - 1]
    BY <1>8, <2>1, SubSeqProperties, SMT
  <2>3. QED
    BY <2>1, <2>2, SMT
<1>10. QED
  BY <1>1, <1>2, <1>3, <1>4, <1>7, <1>8, <1>9, SMT

\* The first word of the buffer after a transfer tells whether it has events.
LEMMA FirstSlot ==
  ASSUME MarkedLengths, NEW t \in Transfer
  PROVE  /\ Received(t)[0] = t[1] /\ t[1] \in EventType
         /\ ZeroAll(t[1]) <=> EventsOf(t) = <<>>
<1>1. Len(t) > 0 /\ Len(t) \in Nat /\ 0 \in Slot
  BY TransferParts, RecvAssumption, SMT DEF MarkedLengths, Slot
<1>2. Received(t)[0] = t[1]
  BY <1>1, SMT DEF Received
<1>3. CASE EventsOf(t) = <<>>
  <2>1. Len(EventsOf(t)) = 0 /\ 1 \in 1..Len(t)
    BY <1>1, <1>3, SMT
  <2>2. t[1] = ZeroEvent
    BY <2>1, TransferParts, SMT
  <2>3. QED
    BY <1>2, <1>3, <2>2, EventHeads, Zenon
<1>4. CASE EventsOf(t) # <<>>
  <2>1. 1 \in 1..Len(EventsOf(t))
    BY <1>4, TransferParts, EmptySeq, SMT
  <2>2. t[1] \in Events
    BY <2>1, TransferParts, Zenon
  <2>3. QED
    BY <1>2, <1>4, <2>2, EventHeads, Zenon
<1>5. QED
  BY <1>3, <1>4

\* The two zero bytes of the marker.
LEMMA MarkerType ==
  ASSUME NEW e \in EventType
  PROVE  Marked(e) \in EventType /\ ZeroHead(Marked(e))
  BY SMT DEF EventType, ZeroHead, Marked

\* A buffer that a transfer fills stays a buffer.
LEMMA ReceivedType ==
  ASSUME recvBuf \in [Slot -> EventType], NEW t \in Seq(EventType)
  PROVE  Received(t) \in [Slot -> EventType]
<1>1. ASSUME NEW i \in Slot PROVE Received(t)[i] \in EventType
  <2>1. CASE i < Len(t)
    <3>1. i + 1 \in 1..Len(t)
      BY <2>1, SMT DEF Slot
    <3>2. t[i + 1] \in EventType
      BY <3>1, ElementOfSeq, Zenon
    <3>3. QED
      BY <2>1, <3>2, Zenon DEF Received
  <2>2. CASE ~(i < Len(t))
    <3>1. recvBuf[i] \in EventType
      OBVIOUS
    <3>2. Marked(recvBuf[i]) \in EventType
      BY <3>1, MarkerType
    <3>3. QED
      BY <2>2, <3>1, <3>2, Zenon DEF Received
  <2>3. QED
    BY <2>1, <2>2
<1>2. QED
  BY <1>1, Zenon DEF Received

(***************************************************************************)
(* The events on their way.  told[m] are those of the pending transfers    *)
(* behind the first m; what is left of the last transfer comes first.      *)
(***************************************************************************)
Ahead(told, p, l, q) ==
  /\ told \in [0..Len(p) -> Seq(Events)]
  /\ q = l \o told[0] /\ told[Len(p)] = <<>>
  /\ \A m \in 1..Len(p) : told[m - 1] = EventsOf(p[m]) \o told[m]

\* A transfer of the device goes behind all others.
LEMMA AheadSend ==
  ASSUME NEW p \in Seq(Transfer), NEW l \in Seq(Events), NEW q, NEW told,
         Ahead(told, p, l, q), NEW t \in Transfer
  PROVE  \E more : Ahead(more, Append(p, t), l, q \o EventsOf(t))
<1> DEFINE n == Len(p)
           E == EventsOf(t)
           r == Append(p, t)
           more == [m \in 0..n + 1 |-> IF m = n + 1 THEN <<>> ELSE told[m] \o E]
<1>1. n \in Nat /\ E \in Seq(Events)
  BY LenProperties, TransferParts, Zenon
<1>2. /\ r \in Seq(Transfer) /\ Len(r) = n + 1
      /\ \A m \in 1..n : r[m] = p[m]
      /\ r[n + 1] = t
  BY AppendProperties
<1>3. /\ told \in [0..n -> Seq(Events)] /\ q = l \o told[0] /\ told[n] = <<>>
      /\ \A m \in 1..n : told[m - 1] = EventsOf(p[m]) \o told[m]
  BY Zenon DEF Ahead
<1>4. \A m \in 1..n : EventsOf(p[m]) \in Seq(Events)
  <2>1. \A m \in 1..n : p[m] \in Transfer
    BY ElementOfSeq, Zenon
  <2>2. QED
    BY <2>1, TransferParts, Zenon
<1> HIDE DEF n, E, r
<1>5. \A m \in 0..n : m # n + 1 /\ m \in 0..n + 1
  BY <1>1, SMT
<1>6. \A m \in 0..n : more[m] = told[m] \o E
  BY <1>5, Zenon
<1>7. more[n + 1] = <<>> /\ more \in [0..n + 1 -> Seq(Events)]
  <2>1. n + 1 \in 0..n + 1 /\ \A m \in 0..n + 1 : m # n + 1 => m \in 0..n
    BY <1>1, SMT
  <2>2. \A m \in 0..n : told[m] \o E \in Seq(Events)
    BY <1>1, <1>3, ConcatProperties, Zenon
  <2>3. <<>> \in Seq(Events)
    BY EmptySeq, Zenon
  <2>4. QED
    BY <2>1, <2>2, <2>3, Zenon
<1> HIDE DEF more
<1>8. q \o E = l \o more[0]
  <2>1. 0 \in 0..n
    BY <1>1, SMT
  <2>2. told[0] \in Seq(Events)
    BY <1>3, <2>1, Zenon
  <2>3. (l \o told[0]) \o E = l \o (told[0] \o E)
    <3> DEFINE behind == told[0]
    <3>1. behind \in Seq(Events)
      BY <2>2
    <3> HIDE DEF behind
    <3>2. (l \o behind) \o E = l \o (behind \o E)
      BY <1>1, <3>1, ConcatAssociative
    <3>3. QED
      BY <3>2 DEF behind
  <2>4. QED
    BY <1>3, <1>6, <2>1, <2>3, Zenon
<1>9. ASSUME NEW m \in 1..n + 1
      PROVE  more[m - 1] = EventsOf(r[m]) \o more[m]
  <2>1. CASE m = n + 1
    <3>1. more[m - 1] = told[n] \o E /\ r[m] = t /\ more[m] = <<>>
      <4>1. m - 1 = n /\ n \in 0..n
        BY <1>1, <2>1, SMT
      <4>2. QED
        BY <1>2, <1>6, <1>7, <2>1, <4>1, Zenon
    <3>2. told[n] \o E = E /\ E \o <<>> = E
      BY <1>1, <1>3, ConcatEmptySeq, Zenon
    <3>3. QED
      BY <3>1, <3>2, Zenon DEF E
  <2>2. CASE m # n + 1
    <3>1. m \in 1..n /\ m - 1 \in 0..n /\ m \in 0..n
      BY <1>1, <2>2, SMT
    <3>2. more[m - 1] = told[m - 1] \o E /\ more[m] = told[m] \o E /\ r[m] = p[m]
      BY <1>2, <1>6, <3>1, Zenon
    <3>3. told[m - 1] = EventsOf(p[m]) \o told[m] /\ told[m] \in Seq(Events)
      BY <1>3, <3>1, Zenon
    <3>4. (EventsOf(p[m]) \o told[m]) \o E = EventsOf(p[m]) \o (told[m] \o E)
      <4>1. EventsOf(p[m]) \in Seq(Events)
        BY <1>4, <3>1, Zenon
      <4> DEFINE first == EventsOf(p[m])
                 behind == told[m]
      <4>2. first \in Seq(Events) /\ behind \in Seq(Events)
        BY <3>3, <4>1
      <4> HIDE DEF first, behind
      <4>3. (first \o behind) \o E = first \o (behind \o E)
        BY <1>1, <4>2, ConcatAssociative
      <4>4. QED
        BY <4>3 DEF first, behind
    <3>5. QED
      BY <3>2, <3>3, <3>4, Zenon
  <2>3. QED
    BY <2>1, <2>2
<1>10. Ahead(more, r, l, q \o E)
  BY <1>2, <1>7, <1>8, <1>9, Zenon DEF Ahead
<1>11. QED
  BY <1>10, Zenon DEF r, E

\* The event taken is the first of all.
LEMMA AheadTake ==
  ASSUME NEW p \in Seq(Transfer), NEW l \in Seq(Events), l # <<>>, NEW q, NEW told,
         Ahead(told, p, l, q)
  PROVE  /\ q # <<>> /\ Head(q) = Head(l)
         /\ Ahead(told, p, Tail(l), Tail(q))
<1>1. told \in [0..Len(p) -> Seq(Events)] /\ q = l \o told[0]
  BY Zenon DEF Ahead
<1>2. 0 \in 0..Len(p)
  BY SMT
<1>3. told[0] \in Seq(Events)
  BY <1>1, <1>2, Zenon
<1> DEFINE rest == told[0]
<1> HIDE DEF rest
<1>4. rest \in Seq(Events)
  BY <1>3 DEF rest
<1>5. l \o rest # <<>> /\ Head(l \o rest) = Head(l) /\ Tail(l \o rest) = Tail(l) \o rest
  BY <1>4, SMT
<1>6. q = l \o rest
  BY <1>1 DEF rest
<1>7. Tail(q) = Tail(l) \o told[0]
  BY <1>5, <1>6, Zenon DEF rest
<1>8. QED
  BY <1>5, <1>6, <1>7, Zenon DEF Ahead

\* A new transfer is the next one.
LEMMA AheadRefill ==
  ASSUME NEW p \in Seq(Transfer), p # <<>>, NEW q, NEW told, Ahead(told, p, <<>>, q)
  PROVE  \E fewer : Ahead(fewer, Tail(p), EventsOf(Head(p)), q)
<1> DEFINE n == Len(p)
           r == Tail(p)
           fewer == [m \in 0..n - 1 |-> told[m + 1]]
<1>1. n \in Nat /\ n > 0 /\ Head(p) = p[1]
  BY SMT
<1>2. /\ r \in Seq(Transfer) /\ Len(r) = n - 1
      /\ \A m \in 1..Len(r) : r[m] = p[m + 1]
  BY HeadTailProperties, Zenon
<1>3. /\ told \in [0..n -> Seq(Events)] /\ q = <<>> \o told[0] /\ told[n] = <<>>
      /\ \A m \in 1..n : told[m - 1] = EventsOf(p[m]) \o told[m]
  BY Zenon DEF Ahead
<1> HIDE DEF n, r
<1>4. /\ fewer \in [0..n - 1 -> Seq(Events)] /\ fewer[n - 1] = told[n]
      /\ \A m \in 0..n - 1 : fewer[m] = told[m + 1]
  <2>1. \A m \in 0..n - 1 : m + 1 \in 0..n
    BY <1>1, SMT
  <2>2. n - 1 \in 0..n - 1 /\ (n - 1) + 1 = n
    BY <1>1, SMT
  <2>3. \A m \in 0..n - 1 : told[m + 1] \in Seq(Events)
    BY <1>3, <2>1, Zenon
  <2>4. fewer[n - 1] = told[(n - 1) + 1]
    BY <2>2, Zenon
  <2>5. QED
    BY <2>2, <2>3, <2>4
<1> HIDE DEF fewer
<1>5. q = EventsOf(Head(p)) \o fewer[0]
  <2>1. 1 \in 1..n /\ 0 \in 0..n /\ 0 \in 0..n - 1 /\ 1 - 1 = 0 /\ 0 + 1 = 1
    BY <1>1, SMT
  <2>2. told[0] = EventsOf(p[1]) \o told[1]
    BY <1>3, <2>1
  <2>3. told[0] \in Seq(Events)
    BY <1>3, <2>1, Zenon
  <2>4. <<>> \o told[0] = told[0]
    BY <2>3, ConcatEmptySeq, Zenon
  <2>5. fewer[0] = told[1]
    BY <1>4, <2>1
  <2>6. QED
    BY <1>1, <1>3, <2>2, <2>4, <2>5, Zenon
<1>6. ASSUME NEW m \in 1..n - 1
      PROVE  fewer[m - 1] = EventsOf(r[m]) \o fewer[m]
  <2>1. m + 1 \in 1..n /\ (m + 1) - 1 = m /\ m - 1 \in 0..n - 1 /\ m \in 0..n - 1
        /\ (m - 1) + 1 = m
    BY <1>1, SMT
  <2>2. told[m] = EventsOf(p[m + 1]) \o told[m + 1]
    BY <1>3, <2>1
  <2>3. fewer[m - 1] = told[m] /\ fewer[m] = told[m + 1] /\ r[m] = p[m + 1]
    BY <1>2, <1>4, <2>1
  <2>4. QED
    BY <2>2, <2>3, Zenon
<1>7. Ahead(fewer, r, EventsOf(Head(p)), q)
  BY <1>2, <1>3, <1>4, <1>5, <1>6, Zenon DEF Ahead
<1>8. QED
  BY <1>7, Zenon DEF r

(***************************************************************************)
(* The buffer.                                                             *)
(***************************************************************************)

\* The events l lie in buf from event p on, up to its end or a marker.
Lays(buf, p, l) ==
  /\ \A i \in 1..Len(l) : p + i <= Slots /\ buf[p + i - 1] = l[i]
  /\ p + Len(l) = Slots \/ ZeroHead(buf[p + Len(l)])

LEMMA RestLays ==
  TypeOK => (BufferHoldsRest <=> \/ readPtr = 0 /\ left = <<>>
                                 \/ readPtr > 0 /\ Lays(recvBuf, readPtr, left))
<1> SUFFICES ASSUME TypeOK
             PROVE  BufferHoldsRest <=> \/ readPtr = 0 /\ left = <<>>
                                        \/ readPtr > 0 /\ Lays(recvBuf, readPtr, left)
  OBVIOUS
<1>1. readPtr \in Nat /\ left \in Seq(Events) /\ Len(left) \in Nat
  BY SMT DEF TypeOK
<1>2. CASE readPtr = 0
  <2>1. BufferHoldsRest <=> \A i \in 1..Len(left) : FALSE
    BY <1>2, SMT DEF BufferHoldsRest
  <2>2. (\A i \in 1..Len(left) : FALSE) <=> left = <<>>
    BY <1>1, EmptySeq, SMT
  <2>3. ~(readPtr > 0)
    BY <1>2, SMT
  <2>4. QED
    BY <1>2, <2>1, <2>2, <2>3, Zenon
<1>3. CASE readPtr # 0
  <2>1. readPtr > 0
    BY <1>1, <1>3, SMT
  <2>2. QED
    BY <1>3, <2>1, Zenon DEF BufferHoldsRest, Lays
<1>4. QED
  BY <1>2, <1>3

LEMMA RestLaysNext ==
  ASSUME TypeOK'
  PROVE  BufferHoldsRest' <=> \/ readPtr' = 0 /\ left' = <<>>
                              \/ readPtr' > 0 /\ Lays(recvBuf', readPtr', left')
<1>1. (TypeOK => (BufferHoldsRest <=> \/ readPtr = 0 /\ left = <<>>
                                      \/ readPtr > 0 /\ Lays(recvBuf, readPtr, left)))'
  BY RestLays, PTL
<1>2. QED
  BY <1>1 DEF Lays

\* The next event, and what lies behind it.
LEMMA LaysNext ==
  ASSUME NEW buf, NEW p \in 0..Slots, NEW l \in Seq(Events), l # <<>>, Lays(buf, p, l)
  PROVE  /\ buf[p] = Head(l) /\ p < Slots
         /\ Lays(buf, p + 1, Tail(l))
<1>1. Len(l) \in Nat /\ Len(l) > 0 /\ Head(l) = l[1]
  BY EmptySeq, SMT
<1>2. /\ Len(Tail(l)) = Len(l) - 1
      /\ \A i \in 1..Len(Tail(l)) : Tail(l)[i] = l[i + 1]
  BY HeadTailProperties, Zenon
<1>3. /\ \A i \in 1..Len(l) : p + i <= Slots /\ buf[p + i - 1] = l[i]
      /\ p + Len(l) = Slots \/ ZeroHead(buf[p + Len(l)])
  BY Zenon DEF Lays
<1>4. Slots \in Nat
  BY RecvAssumption
<1>5. buf[p] = Head(l) /\ p < Slots
  <2>1. p + 1 <= Slots /\ buf[p + 1 - 1] = l[1]
    BY <1>1, <1>3, SMT
  <2>2. p + 1 - 1 = p
    BY SMT
  <2>3. QED
    BY <1>1, <1>4, <2>1, <2>2, SMT
<1>6. ASSUME NEW i \in 1..Len(Tail(l))
      PROVE  (p + 1) + i <= Slots /\ buf[(p + 1) + i - 1] = Tail(l)[i]
  <2>1. i + 1 \in 1..Len(l) /\ p + (i + 1) = (p + 1) + i
    BY <1>1, <1>2, SMT
  <2>2. QED
    BY <1>2, <1>3, <2>1
<1>7. (p + 1) + Len(Tail(l)) = p + Len(l)
  BY <1>1, <1>2, SMT
<1>8. QED
  BY <1>3, <1>5, <1>6, <1>7, Zenon DEF Lays

\* A transfer that fills the buffer, or is marked, lies there alone.
LEMMA ReceivedLays ==
  ASSUME MarkedLengths, NEW t \in Transfer, recvBuf \in [Slot -> EventType]
  PROVE  Lays(Received(t), 0, EventsOf(t))
<1> DEFINE k == Len(EventsOf(t))
<1>1. /\ Len(t) \in 0..Slots /\ Len(t) # Slots - 1 /\ k \in 0..Len(t)
      /\ \A i \in 1..k : EventsOf(t)[i] = t[i]
      /\ \A i \in 1..Len(t) : i > k => t[i] = ZeroEvent
  BY TransferParts, Zenon DEF MarkedLengths
<1>2. Slots \in Nat
  BY RecvAssumption
<1> HIDE DEF k
<1>3. ASSUME NEW i \in 1..k
      PROVE  0 + i <= Slots /\ Received(t)[0 + i - 1] = EventsOf(t)[i]
  <2>1. 0 + i - 1 \in Slot /\ 0 + i - 1 < Len(t) /\ (0 + i - 1) + 1 = i /\ 0 + i <= Slots
    BY <1>1, <1>2, SMT DEF Slot
  <2>2. Received(t)[0 + i - 1] = t[(0 + i - 1) + 1]
    BY <2>1, Zenon DEF Received
  <2>3. QED
    BY <1>1, <2>1, <2>2
<1>4. 0 + k = Slots \/ ZeroHead(Received(t)[0 + k])
  <2>1. 0 + k = k
    BY <1>1, SMT
  <2>2. CASE k = Slots
    BY <2>1, <2>2
  <2>3. CASE k < Len(t)
    <3>1. k \in Slot /\ k + 1 \in 1..Len(t) /\ k + 1 > k
      BY <1>1, <1>2, <2>3, SMT DEF Slot
    <3>2. Received(t)[k] = t[k + 1] /\ t[k + 1] = ZeroEvent
      BY <1>1, <2>3, <3>1, Zenon DEF Received
    <3>3. QED
      BY <2>1, <3>2, EventHeads, Zenon
  <2>4. CASE k = Len(t) /\ k # Slots
    <3>1. k \in Slot /\ ~(k < Len(t)) /\ Len(t) < Slots - 1
      BY <1>1, <1>2, <2>4, SMT DEF Slot
    <3>2. Received(t)[k] = Marked(recvBuf[k])
      BY <2>4, <3>1, Zenon DEF Received
    <3>3. QED
      BY <2>1, <3>1, <3>2, MarkerType, Zenon
  <2>5. k = Slots \/ k < Len(t) \/ (k = Len(t) /\ k # Slots)
    BY <1>1, SMT
  <2>6. QED
    BY <2>2, <2>3, <2>4, <2>5
<1>5. QED
  BY <1>3, <1>4, Zenon DEF Lays, k

LEMMA Sizes == \A e \in EventType : getMsgSizeFromCin(e.hdr % 16) \in 0..3
<1>1. \A e \in EventType : e.hdr % 16 \in 0..15
  BY SMT DEF EventType
<1>2. \A c \in 0..15 : cin2len[c + 1] \in 0..3
  BY SMT DEF cin2len
<1>3. QED
  BY <1>1, <1>2, Zenon DEF getMsgSizeFromCin

(***************************************************************************)
(* The invariant.                                                          *)
(***************************************************************************)
MInv ==
  /\ TypeOK
  /\ pending \in Seq(Transfer)
  /\ BufferHoldsRest
  /\ \E told : Ahead(told, pending, left, queue)

LEMMA InitMInv == Init => MInv
<1> SUFFICES ASSUME Init PROVE MInv
  OBVIOUS
<1>1. TypeOK
  <2>1. recvBuf \in [Slot -> EventType]
    BY RecvAssumption DEF Init
  <2>2. readPtr \in 0..Slots /\ ret \in 0..3
    BY RecvAssumption, SMT DEF Init
  <2>3. \A S : <<>> \in Seq(S)
    BY EmptySeq, Zenon
  <2>4. QED
    BY <2>1, <2>2, <2>3, Zenon DEF Init, TypeOK
<1>2. pending \in Seq(Transfer)
  BY EmptySeq, Zenon DEF Init
<1>3. BufferHoldsRest
  BY <1>1, RestLays, Zenon DEF Init
<1>4. Ahead([m \in {0} |-> <<>>], <<>>, <<>>, <<>>)
  BY SMT DEF Ahead
<1>5. QED
  BY <1>1, <1>2, <1>3, <1>4, Zenon DEF Init, MInv

\* The test of the buffer finds an event exactly when one is left, although
\* RecvData does not know how many there are.
LEMMA TestIsRight ==
  ASSUME MInv
  PROVE  Unprocessed <=> left # <<>>
<1>1. readPtr \in 0..Slots /\ left \in Seq(Events) /\ Slots \in Nat
  BY RecvAssumption, Zenon DEF MInv, TypeOK
<1>2. \/ readPtr = 0 /\ left = <<>>
      \/ readPtr > 0 /\ Lays(recvBuf, readPtr, left)
  BY RestLays, Zenon DEF MInv
<1>3. CASE readPtr = 0 /\ left = <<>>
  BY <1>3, Zenon DEF Unprocessed
<1>4. CASE readPtr > 0 /\ Lays(recvBuf, readPtr, left) /\ left = <<>>
  <2>1. readPtr + Len(left) = readPtr
    BY <1>1, <1>4, SMT
  <2>2. readPtr = Slots \/ ZeroHead(recvBuf[readPtr])
    BY <1>4, <2>1, Zenon DEF Lays
  <2>3. readPtr = Slots => ~(readPtr < Slots)
    BY <1>1, SMT
  <2>4. QED
    BY <1>4, <2>2, <2>3, Zenon DEF Unprocessed
<1>5. CASE readPtr > 0 /\ Lays(recvBuf, readPtr, left) /\ left # <<>>
  <2>1. recvBuf[readPtr] = Head(left) /\ readPtr < Slots
    BY <1>1, <1>5, LaysNext, Zenon
  <2>2. Head(left) \in Events
    BY <1>1, <1>5, HeadTailProperties, Zenon
  <2>3. ~ZeroHead(recvBuf[readPtr]) /\ readPtr # 0
    BY <1>1, <1>5, <2>1, <2>2, EventHeads, SMT
  <2>4. QED
    BY <1>5, <2>1, <2>3, Zenon DEF Unprocessed
<1>6. QED
  BY <1>2, <1>3, <1>4, <1>5

\* Handing out event p of a buffer that holds the events l from there on.
LEMMA HandOutTakes ==
  ASSUME NEW buf \in [Slot -> EventType], NEW p \in 0..Slots,
         NEW l \in Seq(Events), l # <<>>, Lays(buf, p, l),
         NEW r \in Seq(Transfer), NEW told, Ahead(told, r, l, queue), queue \in Seq(Events),
         HandOut(buf, p, l)
  PROVE  /\ readPtr' \in 1..Slots /\ ret' \in 0..3
         /\ taken' \in EventType /\ left' \in Seq(Events) /\ queue' \in Seq(Events)
         /\ Lays(buf, readPtr', left') /\ Ahead(told, r, left', queue')
         /\ Stream!Take
<1>1. /\ buf[p] = Head(l) /\ p < Slots /\ Lays(buf, p + 1, Tail(l))
  BY LaysNext, Zenon
<1>2. queue # <<>> /\ Head(queue) = Head(l) /\ Ahead(told, r, Tail(l), Tail(queue))
  BY AheadTake, Zenon
<1>3. /\ ret' = getMsgSizeFromCin(buf[p].hdr % 16) /\ taken' = buf[p]
      /\ readPtr' = p + 1 /\ left' = Tail(l) /\ queue' = Tail(queue)
  BY <1>2, Zenon DEF HandOut, Behind
<1>4. p \in Slot /\ p + 1 \in 1..Slots
  BY <1>1, RecvAssumption, SMT DEF Slot
<1>5. buf[p] \in EventType
  BY <1>4
<1>6. getMsgSizeFromCin(buf[p].hdr % 16) \in 0..3
  BY <1>5, Sizes, Zenon
<1>7. Tail(l) \in Seq(Events) /\ Tail(queue) \in Seq(Events)
  BY <1>2, HeadTailProperties, Zenon
<1>8. Stream!Take
  BY <1>1, <1>2, <1>3, Zenon DEF Stream!Take
<1>9. QED
  BY <1>1, <1>2, <1>3, <1>4, <1>5, <1>6, <1>7, <1>8, Zenon

LEMMA TransfersArePlain == Seq(Transfer) \subseteq Seq(Seq(Events \cup {ZeroEvent}))
<1>1. Transfer \subseteq Seq(Events \cup {ZeroEvent})
  BY TransferParts
<1>2. QED
  BY <1>1, SMT

LEMMA PlainIsType == Seq(Events \cup {ZeroEvent}) \subseteq Seq(EventType)
  BY EventHeads, SMT

\* One step for each action; all of them keep the invariant.
LEMMA FromBufferStep ==
  ASSUME MInv, FromBuffer
  PROVE  MInv' /\ Stream!Take
<1>1. TypeOK /\ pending \in Seq(Transfer)
  BY DEF MInv
<1>2. PICK told : Ahead(told, pending, left, queue)
  BY DEF MInv
<1>3. left # <<>> /\ readPtr # 0 /\ HandOut(recvBuf, readPtr, left)
      /\ UNCHANGED <<recvBuf, bPollEnable, pending>>
  BY TestIsRight, Zenon DEF FromBuffer, Unprocessed
<1>4. Lays(recvBuf, readPtr, left)
  BY <1>1, <1>3, RestLays, Zenon DEF MInv
<1>5. /\ readPtr' \in 1..Slots /\ ret' \in 0..3
      /\ taken' \in EventType /\ left' \in Seq(Events) /\ queue' \in Seq(Events)
      /\ Lays(recvBuf, readPtr', left') /\ Ahead(told, pending, left', queue')
      /\ Stream!Take
  BY <1>1, <1>2, <1>3, <1>4, HandOutTakes, Zenon DEF TypeOK
<1>6. TypeOK'
  <2>1. readPtr' \in 0..Slots
    BY <1>5, RecvAssumption, SMT
  <2>2. QED
    BY <1>1, <1>3, <1>5, <2>1, Zenon DEF TypeOK
<1>7. BufferHoldsRest'
  <2>1. readPtr' > 0 /\ Lays(recvBuf', readPtr', left')
    BY <1>3, <1>5, SMT DEF Lays
  <2>2. QED
    BY <1>6, <2>1, RestLaysNext, Zenon
<1>8. QED
  BY <1>1, <1>3, <1>5, <1>6, <1>7, Zenon DEF MInv

LEMMA RefillStep ==
  ASSUME MarkedLengths, MInv, Refill
  PROVE  MInv' /\ (Stream!Take \/ Stream!TakeNothing)
<1> DEFINE t == Head(pending)
           buf == Received(t)
           E == EventsOf(t)
<1>1. /\ TypeOK /\ pending \in Seq(Transfer) /\ pending # <<>>
      /\ recvBuf' = buf /\ pending' = Tail(pending) /\ UNCHANGED bPollEnable
      /\ left = <<>>
  BY TestIsRight, Zenon DEF MInv, Refill
<1>2. /\ IF ZeroAll(buf[0])
           THEN /\ ret' = 0 /\ taken' = None /\ readPtr' = 0
                /\ left' = E /\ UNCHANGED queue
           ELSE HandOut(buf, 0, E)
  BY <1>1, Zenon DEF Refill
<1>3. PICK told : Ahead(told, pending, <<>>, queue)
  BY <1>1, Zenon DEF MInv
<1>4. PICK fewer : Ahead(fewer, Tail(pending), E, queue)
  BY <1>1, <1>3, AheadRefill, Zenon
<1>5. t \in Transfer /\ Tail(pending) \in Seq(Transfer)
  BY <1>1, HeadTailProperties, Zenon
<1>6. buf \in [Slot -> EventType] /\ E \in Seq(Events)
  <2>1. t \in Seq(EventType)
    BY <1>5, TransferParts, PlainIsType, Zenon
  <2>2. QED
    BY <1>1, <1>5, <2>1, ReceivedType, TransferParts, Zenon DEF TypeOK
<1>7. Lays(buf, 0, E) /\ (ZeroAll(buf[0]) <=> E = <<>>)
  BY <1>1, <1>5, FirstSlot, ReceivedLays, Zenon DEF TypeOK
<1>8. 0 \in 0..Slots /\ 0 \in 0..3
  BY RecvAssumption, SMT
<1>9. pending' \in Seq(Seq(Events \cup {ZeroEvent}))
  BY <1>1, <1>5, TransfersArePlain, Zenon
<1> HIDE DEF t, buf, E
<1>10. CASE E = <<>>
  <2>1. ret' = 0 /\ taken' = None /\ readPtr' = 0 /\ left' = <<>> /\ UNCHANGED queue
    BY <1>2, <1>7, <1>10, Zenon
  <2>2. TypeOK'
    <3>1. <<>> \in Seq(Events)
      BY <1>6, <1>10
    <3>2. QED
      BY <1>1, <1>6, <1>8, <1>9, <2>1, <3>1 DEF TypeOK
  <2>3. BufferHoldsRest'
    BY <2>1, <2>2, RestLaysNext, Zenon
  <2>4. MInv'
    BY <1>1, <1>4, <1>5, <1>10, <2>1, <2>2, <2>3, Zenon DEF MInv
  <2>5. QED
    BY <2>1, <2>4, Zenon DEF Stream!TakeNothing
<1>11. CASE E # <<>>
  <2>1. HandOut(buf, 0, E)
    BY <1>2, <1>7, <1>11, Zenon
  <2>2. /\ readPtr' \in 1..Slots /\ ret' \in 0..3
        /\ taken' \in EventType /\ left' \in Seq(Events) /\ queue' \in Seq(Events)
        /\ Lays(buf, readPtr', left') /\ Ahead(fewer, Tail(pending), left', queue')
        /\ Stream!Take
    BY <1>1, <1>4, <1>5, <1>6, <1>7, <1>8, <1>11, <2>1, HandOutTakes, Zenon DEF TypeOK
  <2>3. TypeOK'
    <3>1. readPtr' \in 0..Slots
      BY <2>2, RecvAssumption, SMT
    <3>2. QED
      BY <1>1, <1>6, <1>9, <2>2, <3>1, Zenon DEF TypeOK
  <2>4. BufferHoldsRest'
    <3>1. readPtr' > 0 /\ Lays(recvBuf', readPtr', left')
      BY <1>1, <2>2, SMT DEF Lays
    <3>2. QED
      BY <2>3, <3>1, RestLaysNext, Zenon
  <2>5. QED
    BY <1>1, <1>5, <2>2, <2>3, <2>4, Zenon DEF MInv
<1>12. QED
  BY <1>10, <1>11

LEMMA RefillFailsStep ==
  ASSUME MInv, RefillFails
  PROVE  MInv' /\ Stream!TakeNothing
<1>1. /\ TypeOK /\ left = <<>> /\ readPtr' = 0 /\ recvBuf' = Received(<<>>)
      /\ ret' = 0 /\ taken' = None /\ UNCHANGED <<bPollEnable, pending, left, queue>>
  BY TestIsRight, Zenon DEF MInv, RefillFails
<1>2. Received(<<>>) \in [Slot -> EventType]
  <2>1. <<>> \in Seq(EventType)
    BY EmptySeq, Zenon
  <2>2. QED
    BY <1>1, <2>1, ReceivedType, Zenon DEF TypeOK
<1>3. TypeOK'
  <2>1. 0 \in 0..Slots /\ 0 \in 0..3
    BY RecvAssumption, SMT
  <2>2. QED
    BY <1>1, <1>2, <2>1 DEF TypeOK
<1>4. BufferHoldsRest'
  <2>1. readPtr' = 0 /\ left' = <<>>
    BY <1>1
  <2>2. QED
    BY <1>3, <2>1, RestLaysNext, Zenon
<1>5. MInv'
  BY <1>1, <1>3, <1>4, Zenon DEF MInv
<1>6. QED
  BY <1>1, <1>5, Zenon DEF Stream!TakeNothing

LEMMA NotReadyStep ==
  ASSUME MInv, NotReady
  PROVE  MInv' /\ Stream!TakeNothing
<1>1. TypeOK'
  BY SMT DEF MInv, TypeOK, NotReady
<1>2. MInv'
  BY <1>1, Zenon DEF MInv, NotReady, BufferHoldsRest
<1>3. QED
  BY <1>2, Zenon DEF NotReady, Stream!TakeNothing

LEMMA PlugStep ==
  ASSUME MInv, Plug
  PROVE  MInv' /\ UNCHANGED Stream!streamVars
<1>1. TypeOK'
  BY Zenon DEF MInv, TypeOK, Plug, history
<1>2. MInv'
  BY <1>1, Zenon DEF MInv, Plug, history, BufferHoldsRest
<1>3. QED
  BY <1>2, Zenon DEF Plug, history, Stream!streamVars

LEMMA ReleaseStep ==
  ASSUME MInv, Release
  PROVE  MInv' /\ Stream!Lose
<1>1. /\ readPtr' = 0 /\ pending' = <<>> /\ left' = <<>> /\ queue' = <<>>
      /\ bPollEnable' = FALSE /\ UNCHANGED <<recvBuf, ret, taken>>
  BY Zenon DEF Release
<1>2. \A S : <<>> \in Seq(S)
  BY EmptySeq, Zenon
<1>3. TypeOK'
  <2>1. 0 \in 0..Slots
    BY RecvAssumption, SMT
  <2>2. QED
    BY <1>1, <1>2, <2>1, Zenon DEF MInv, TypeOK
<1>4. BufferHoldsRest'
  BY <1>1, <1>3, RestLaysNext, Zenon
<1>5. Ahead([m \in {0} |-> <<>>], <<>>, <<>>, <<>>)
  BY SMT DEF Ahead
<1>6. QED
  BY <1>1, <1>2, <1>3, <1>4, <1>5, Zenon DEF MInv, Stream!Lose

LEMMA Longer ==
  ASSUME NEW s \in Seq(Events), NEW t \in Seq(Events), t # <<>>
  PROVE  Stream!IsStrictPrefix(s, s \o t)
<1>1. s \o t \in Seq(Events) /\ Len(s \o t) = Len(s) + Len(t)
      /\ \A i \in 1..Len(s) + Len(t) :
            (s \o t)[i] = IF i <= Len(s) THEN s[i] ELSE t[i - Len(s)]
  BY ConcatProperties, Zenon
<1>2. Len(s) \in Nat /\ Len(t) \in Nat /\ Len(t) # 0
  BY EmptySeq, LenProperties, Zenon
<1>3. Len(s) <= Len(s \o t) /\ s # s \o t
  BY <1>1, <1>2, SMT
<1>4. SubSeq(s, 1, Len(s)) = SubSeq(s \o t, 1, Len(s))
  BY <1>1, <1>2, SMT
<1>5. QED
  BY <1>3, <1>4 DEF Stream!IsStrictPrefix, Stream!IsPrefix

LEMMA DeviceSendsStep ==
  ASSUME MInv, DeviceSends
  PROVE  MInv' /\ [Stream!Send]_Stream!streamVars
<1>1. PICK t \in Transfer : pending' = Append(pending, t) /\ queue' = queue \o EventsOf(t)
  BY DEF DeviceSends, Transfer
<1>2. UNCHANGED <<recvBuf, readPtr, bPollEnable, ret, left, taken>>
  BY Zenon DEF DeviceSends
<1>3. /\ TypeOK /\ pending \in Seq(Transfer)
      /\ left \in Seq(Events) /\ queue \in Seq(Events)
  BY Zenon DEF MInv, TypeOK
<1>4. PICK told : Ahead(told, pending, left, queue)
  BY DEF MInv
<1>5. PICK more : Ahead(more, Append(pending, t), left, queue \o EventsOf(t))
  BY <1>3, <1>4, AheadSend, Zenon
<1>6. EventsOf(t) \in Seq(Events) /\ queue' \in Seq(Events) /\ pending' \in Seq(Transfer)
  BY <1>1, <1>3, TransferParts, AppendProperties, ConcatProperties, Zenon
<1>7. TypeOK'
  BY <1>2, <1>3, <1>6, TransfersArePlain, Zenon DEF TypeOK
<1>8. MInv'
  BY <1>1, <1>2, <1>5, <1>6, <1>7, Zenon DEF MInv, BufferHoldsRest
<1>9. CASE EventsOf(t) = <<>>
  <2>1. queue \o <<>> = queue
    BY <1>3, ConcatEmptySeq, Zenon
  <2>2. QED
    BY <1>1, <1>2, <1>8, <1>9, <2>1, Zenon DEF Stream!streamVars
<1>10. CASE EventsOf(t) # <<>>
  BY <1>1, <1>2, <1>3, <1>6, <1>8, <1>10, Longer, Zenon DEF Stream!Send
<1>11. QED
  BY <1>9, <1>10

\* Every step keeps the invariant and is a step of the stream.
LEMMA StepMInv ==
  ASSUME MarkedLengths, MInv, [Next]_vars
  PROVE  MInv' /\ [Stream!StreamNext]_Stream!streamVars
<1>1. CASE DeviceSends
  BY <1>1, DeviceSendsStep, Zenon DEF Stream!StreamNext
<1>2. CASE Plug
  BY <1>2, PlugStep, Zenon
<1>3. CASE Release
  BY <1>3, ReleaseStep, Zenon DEF Stream!StreamNext
<1>4. CASE FromBuffer
  BY <1>4, FromBufferStep, Zenon DEF Stream!StreamNext
<1>5. CASE Refill
  BY <1>5, RefillStep, Zenon DEF Stream!StreamNext
<1>6. CASE RefillFails
  BY <1>6, RefillFailsStep, Zenon DEF Stream!StreamNext
<1>7. CASE NotReady
  BY <1>7, NotReadyStep, Zenon DEF Stream!StreamNext
<1>8. CASE UNCHANGED vars
  <2>1. UNCHANGED <<recvBuf, readPtr, bPollEnable, ret, pending, left, queue, taken>>
    BY <1>8, Zenon DEF vars, history
  <2>2. QED
    BY <2>1, Zenon DEF MInv, TypeOK, BufferHoldsRest, Stream!streamVars
<1>9. QED
  BY <1>1, <1>2, <1>3, <1>4, <1>5, <1>6, <1>7, <1>8 DEF Next

\* The variables stay in their types: readPtr never leaves the buffer, and
\* the size returned is that of a message (usbh_midi.cpp:314-369).
THEOREM ReceiverIsTyped == ASSUME MarkedLengths PROVE Spec => []TypeOK
<1>1. MInv => TypeOK
  BY DEF MInv
<1>2. MInv /\ [Next]_vars => MInv'
  BY StepMInv, Zenon
<1>3. QED
  BY InitMInv, <1>1, <1>2, PTL DEF Spec

\* What stands between the place in the buffer and the marker is what is left
\* of the last transfer.
THEOREM RestIsInBuffer == ASSUME MarkedLengths PROVE Spec => []BufferHoldsRest
<1>1. MInv => BufferHoldsRest
  BY DEF MInv
<1>2. MInv /\ [Next]_vars => MInv'
  BY StepMInv, Zenon
<1>3. QED
  BY InitMInv, <1>1, <1>2, PTL DEF Spec

\* The comment "no unprocessed message left in the buffer" (usbh_midi.cpp:340)
\* holds of such transfers; one that is an event short of the buffer breaks it.
THEOREM NothingStale == ASSUME MarkedLengths PROVE Spec => []NoStaleEvent
<1>1. MInv => NoStaleEvent
  BY TestIsRight, Zenon DEF NoStaleEvent
<1>2. MInv /\ [Next]_vars => MInv'
  BY StepMInv, Zenon
<1>3. QED
  BY InitMInv, <1>1, <1>2, PTL DEF Spec

\* RecvData implements the stream: each event the device sends is handed out
\* once and in order, and only unplugging the device loses any.
THEOREM ReceiverImplementsStream == ASSUME MarkedLengths PROVE Spec => ImplementsStream
<1>1. Init => Stream!StreamInit
  BY Zenon DEF Init, Stream!StreamInit
<1>2. MInv /\ [Next]_vars => MInv' /\ [Stream!StreamNext]_Stream!streamVars
  BY StepMInv, Zenon
<1>3. QED
  BY InitMInv, <1>1, <1>2, PTL DEF Spec, ImplementsStream, Stream!StreamSpec
=============================================================================
