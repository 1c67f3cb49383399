-------------------------- MODULE UsbTransfer_proofs --------------------------
(***************************************************************************)
(* Proofs about the transfers of the USB host, for every packet size, every *)
(* length of a request, every limit of NAKs and any number of lost         *)
(* acknowledgements.                                                       *)
(***************************************************************************)
EXTENDS UsbTransfer, SequenceTheorems, TLAPS

(***************************************************************************)
(* Multiples.                                                              *)
(***************************************************************************)
LEMMA Division ==
  ASSUME NEW m \in Nat \ {0}, NEW a \in Int
  PROVE  /\ a % m \in 0..m - 1 /\ a \div m \in Int
         /\ a = m * (a \div m) + (a % m)
  BY SMT

LEMMA Remainder ==
  ASSUME NEW m \in Nat \ {0}, NEW q \in Int, NEW r \in 0..m - 1
  PROVE  (m * q + r) % m = r
  BY SMT

\* A multiple of m does not change the remainder.
LEMMA AddMultiple ==
  ASSUME NEW m \in Nat \ {0}, NEW a \in Nat, NEW b \in Nat, a % m = 0
  PROVE  (a + b) % m = b % m
<1> DEFINE p == a \div m
           q == b \div m
           r == b % m
<1>1. p \in Int /\ q \in Int /\ r \in 0..m - 1 /\ a = m * p + 0 /\ b = m * q + r
  BY Division
<1> HIDE DEF p, q, r
<1>2. m * (p + q) = m * p + m * q /\ p + q \in Int
  BY <1>1, SMT
<1> DEFINE mp == m * p
           mq == m * q
<1>3. mp \in Int /\ mq \in Int
  BY <1>1, SMT
<1>4. a + b = m * (p + q) + r
  <2>1. a = mp + 0 /\ b = mq + r /\ m * (p + q) = mp + mq
    BY <1>1, <1>2
  <2> HIDE DEF mp, mq
  <2>2. a + b = (mp + mq) + r
    BY <1>1, <1>3, <2>1, SMT
  <2>3. QED
    BY <2>1, <2>2
<1>5. (m * (p + q) + r) % m = r
  BY <1>1, <1>2, Remainder
<1>6. QED
  BY <1>4, <1>5, Zenon DEF r

LEMMA Small ==
  ASSUME NEW m \in Nat \ {0}, NEW b \in 0..m - 1
  PROVE  b % m = b
  BY SMT

Multiple(a, m) == a % m = 0

LEMMA AddsUp ==
  ASSUME NEW m \in Nat \ {0}, NEW a \in Nat, NEW b \in Nat, Multiple(a, m)
  PROVE  Multiple(a + b, m) <=> Multiple(b, m)
<1>1. (a + b) % m = b % m
  BY AddMultiple, Zenon DEF Multiple
<1>2. QED
  BY <1>1, Zenon DEF Multiple

\* Below m only 0 is a multiple of m.
LEMMA NoneBelow ==
  ASSUME NEW m \in Nat \ {0}
  PROVE  Multiple(m, m) /\ Multiple(0, m) /\ \A b \in 1..m - 1 : ~Multiple(b, m)
<1>1. m % m = 0
  <2>1. m = m * 1 + 0 /\ 0 \in 0..m - 1
    BY SMT
  <2>2. (m * 1 + 0) % m = 0
    BY <2>1, Remainder
  <2>3. QED
    BY <2>1, <2>2, Zenon
<1>2. 0 % m = 0 /\ \A b \in 1..m - 1 : b % m # 0
  BY SMT
<1>3. QED
  BY <1>1, <1>2, Zenon DEF Multiple

\* A multiple of n is a multiple of what divides n.
LEMMA MultipleOfMultiple ==
  ASSUME NEW m \in Nat \ {0}, NEW n \in Nat \ {0}, NEW a \in Nat,
         Multiple(a, n), Multiple(n, m)
  PROVE  Multiple(a, m)
<1> DEFINE p == a \div n
           q == n \div m
<1>1. p \in Int /\ q \in Int /\ a = n * p + 0 /\ n = m * q + 0
  BY Division DEF Multiple
<1> HIDE DEF p, q
<1>2. n = m * q /\ a = n * p
  BY <1>1, SMT
<1>3. (m * q) * p = m * (q * p) /\ q * p \in Int
  BY <1>1, SMT
<1>4. a = m * (q * p)
  BY <1>2, <1>3, Zenon
<1>5. m * (q * p) = m * (q * p) + 0 /\ 0 \in 0..m - 1
  BY <1>3, SMT
<1>6. (m * (q * p) + 0) % m = 0
  BY <1>3, <1>5, Remainder
<1>7. QED
  BY <1>4, <1>5, <1>6, Zenon DEF Multiple

\* Between multiples of m there is room for m.
LEMMA NextMultiple ==
  ASSUME NEW m \in Nat \ {0}, NEW a \in Nat, NEW b \in Nat,
         Multiple(a, m), Multiple(b, m), a < b
  PROVE  a + m <= b
<1> DEFINE p == a \div m
           q == b \div m
<1>1. p \in Int /\ q \in Int /\ a = m * p + 0 /\ b = m * q + 0
  BY Division DEF Multiple
<1> HIDE DEF p, q
<1>2. a = m * p /\ b = m * q
  BY <1>1, SMT
<1>3. m * p < m * q
  BY <1>2
<1>4. m * p + m <= m * q
  BY <1>1, <1>3, SMT
<1>5. QED
  BY <1>2, <1>4, Zenon

(***************************************************************************)
(* The numbered bytes.                                                     *)
(***************************************************************************)
LEMMA CountIsSeq ==
  ASSUME NEW a \in Nat, NEW b \in Int
  PROVE  /\ Count(a, b) \in Seq(Nat)
         /\ Len(Count(a, b)) = IF b >= a THEN b - a + 1 ELSE 0
         /\ \A k \in 1..b - a + 1 : Count(a, b)[k] = a + k - 1
<1> DEFINE n == b - a + 1
           s == Count(a, b)
<1>1. s = [k \in 1..n |-> a + k - 1]
  BY DEF Count
<1>2. n \in Int /\ \A k \in 1..n : a + k - 1 \in Nat
  BY SMT
<1>3. s \in [1..n -> Nat] /\ \A k \in 1..n : s[k] = a + k - 1
  BY <1>1, <1>2
<1>4. CASE b >= a
  <2>1. n \in Nat
    BY <1>4, SMT
  <2> HIDE DEF s, n
  <2>2. s \in Seq(Nat) /\ Len(s) = n
    BY <1>3, <2>1, SMT
  <2>3. QED
    BY <1>3, <1>4, <2>2 DEF n, s
<1>5. CASE ~(b >= a)
  <2>1. 1..n = 1..0
    BY <1>5, SMT
  <2>2. s \in [1..0 -> Nat]
    BY <1>3, <2>1
  <2> HIDE DEF s, n
  <2>3. s \in Seq(Nat) /\ Len(s) = 0
    BY <2>2, SMT
  <2>4. QED
    BY <1>3, <1>5, <2>3 DEF n, s
<1>6. QED
  BY <1>4, <1>5

LEMMA CountConcat ==
  ASSUME NEW a \in Nat, NEW b \in Nat, NEW c \in Nat, a <= b + 1, b <= c
  PROVE  Count(a, b) \o Count(b + 1, c) = Count(a, c)
<1> DEFINE s == Count(a, b)
           t == Count(b + 1, c)
           u == Count(a, c)
           n == b - a + 1
           o == c - b
<1>1. /\ n \in Nat /\ o \in Nat /\ n + o \in Nat /\ b + 1 \in Nat
      /\ a \in Int /\ b \in Int /\ c \in Int
      /\ c - (b + 1) + 1 = o /\ c - a + 1 = n + o
      /\ (IF b >= a THEN n ELSE 0) = n
      /\ (IF c >= a THEN n + o ELSE 0) = n + o
      /\ (IF c >= b + 1 THEN o ELSE 0) = o
  BY SMT
<1>2. /\ s \in Seq(Nat) /\ Len(s) = n /\ \A k \in 1..n : s[k] = a + k - 1
  <2>1. /\ s \in Seq(Nat) /\ Len(s) = IF b >= a THEN n ELSE 0
        /\ \A k \in 1..n : s[k] = a + k - 1
    BY <1>1, CountIsSeq, Zenon
  <2>2. QED
    BY <1>1, <2>1, Zenon
<1>3. /\ u \in Seq(Nat) /\ Len(u) = n + o /\ \A k \in 1..n + o : u[k] = a + k - 1
  <2>1. /\ u \in Seq(Nat) /\ Len(u) = IF c >= a THEN c - a + 1 ELSE 0
        /\ \A k \in 1..c - a + 1 : u[k] = a + k - 1
    BY <1>1, CountIsSeq, Zenon
  <2>2. QED
    BY <1>1, <2>1, Zenon
<1>4. /\ t \in Seq(Nat) /\ Len(t) = o /\ \A k \in 1..o : t[k] = (b + 1) + k - 1
  <2>1. /\ t \in Seq(Nat) /\ Len(t) = IF c >= b + 1 THEN c - (b + 1) + 1 ELSE 0
        /\ \A k \in 1..c - (b + 1) + 1 : t[k] = (b + 1) + k - 1
    BY <1>1, CountIsSeq, Zenon
  <2>2. QED
    BY <1>1, <2>1, Zenon
<1> HIDE DEF s, t, u, n, o
<1>5. /\ s \o t \in Seq(Nat) /\ Len(s \o t) = n + o
      /\ \A k \in 1..n + o : (s \o t)[k] = IF k <= n THEN s[k] ELSE t[k - n]
  BY <1>2, <1>4, ConcatProperties, Zenon
<1>6. ASSUME NEW k \in 1..n + o PROVE (s \o t)[k] = u[k]
  <2>1. CASE k <= n
    <3>1. k \in 1..n
      BY <1>1, <2>1, SMT
    <3>2. QED
      BY <1>2, <1>3, <1>5, <2>1, <3>1, Zenon
  <2>2. CASE ~(k <= n)
    <3>1. k - n \in 1..o /\ (b + 1) + (k - n) - 1 = a + k - 1
      BY <1>1, <2>2, SMT DEF n
    <3>2. t[k - n] = (b + 1) + (k - n) - 1
      BY <1>4, <3>1, Zenon
    <3>3. QED
      BY <1>3, <1>5, <2>2, <3>1, <3>2
  <2>3. QED
    BY <2>1, <2>2
<1>7. s \o t = u
  BY <1>3, <1>5, <1>6, SeqEqual, Zenon
<1>8. QED
  BY <1>7 DEF s, t, u

\* The first n of the numbers from a to b.
LEMMA CountSub ==
  ASSUME NEW a \in Nat, NEW b \in Nat, NEW n \in Nat, n = b - a + 1
  PROVE  SubSeq(Count(a, b), 1, n) = Count(a, b)
<1> DEFINE s == Count(a, b)
<1>1. s \in Seq(Nat) /\ Len(s) = n
  <2>1. b \in Int /\ (IF b >= a THEN b - a + 1 ELSE 0) = n
    BY SMT
  <2>2. QED
    BY <2>1, CountIsSeq, Zenon
<1> HIDE DEF s
<1>2. SubSeq(s, 1, n) = s
  BY <1>1, SMT
<1>3. QED
  BY <1>2 DEF s

(***************************************************************************)
(* The invariant.                                                          *)
(***************************************************************************)

\* What holds at each stage of a call, whatever the bus does.
Stages ==
  /\ total \in UInt16
  /\ pc \in {"setup", "status"} => ep = "ctrl"
  /\ pc = "in" => ep \in {"ctrl", "in"}
  /\ pc = "out" => ep = "out"
  /\ ep = "ctrl" /\ pc # "idle" => nbytes \in {total, BufSize}
  /\ pc = "setup" => left = total /\ buf = <<>> /\ got = 0 /\ parsed = <<>>
  /\ ep = "ctrl" /\ pc = "in" =>
       total > 0 /\ got = Len(buf) /\ got < nbytes /\ Multiple(got, MaxPkt)
  /\ ep = "in" /\ pc = "in" =>
       total = MaxPkt /\ nbytes = MaxPkt /\ buf = <<>> /\ got = 0 /\ parsed = <<>>
  /\ pc = "out" => left \in 1..total

\* Chip and device agree on the toggle of the control endpoint and on how far
\* the read is: left counts down in whole pieces, got within one.
InSync ==
  /\ devTog["ctrl"] = hrsl
  /\ left \in 1..total /\ got <= left
  /\ devNext.ctrl = (total - left) + got + 1
  /\ Multiple(total - left, nbytes)
  /\ parsed = Count(1, total - left)
  /\ buf = Count((total - left) + 1, (total - left) + got)

\* An acknowledgement of the host was lost: the packet comes again.
Repeats == devTog["ctrl"] # hrsl /\ Packet # <<>> /\ lost > 0

CtrlInv ==
  ep = "ctrl" =>
    /\ pc = "in" => (lost = 0 => InSync) /\ (troubled \/ InSync \/ Repeats)
    /\ pc = "status" => /\ lost = 0 => left = 0 /\ parsed = Count(1, total)
                        /\ troubled \/ total = 0 \/ WellSized
    /\ pc = "idle" => /\ lost = 0 => parsed = Count(1, total - left) /\ left <= total
                      /\ lost = 0 /\ rcode = "ok" => left = 0
                      /\ troubled \/ total = 0 \/ (rcode = "ok" <=> WellSized)

\* So do they on the IN endpoint, across the calls.
PollInv ==
  lost = 0 => /\ toggle["in"] = devTog["in"]
              /\ ep = "in" /\ pc = "in" => hrsl = devTog["in"]

\* On the OUT endpoint they may differ while the last packet got no answer.
OutSync ==
  doubt.now \/ (IF pc = "out" THEN hrsl ELSE toggle["out"]) = devTog["out"]

Sent == total - left

OutInv ==
  ep = "out" /\ ~late /\ ~doubt.start =>
    /\ pc = "out" =>
         IF devTog["out"] = hrsl THEN accepted = Count(1, Sent)
         ELSE accepted = Count(1, Sent + bytes_tosend)
    /\ pc = "idle" =>
         \/ accepted = Count(1, total)
         \/ rcode # "ok" /\ \E n \in 0..total : accepted = Count(1, n)

TInv == TypeOK /\ Stages /\ CtrlInv /\ PollInv /\ OutSync /\ OutInv

LEMMA Sizes ==
  /\ MaxPkt \in Nat \ {0} /\ MaxPkt \in UInt16
  /\ BufSize \in Nat \ {0} /\ Multiple(BufSize, MaxPkt)
  /\ Totals \subseteq UInt16 /\ OutSizes \subseteq UInt16 \ {0} /\ UInt16 \subseteq Nat
  /\ NakLimit \in [Endpoint -> Nat \ {0}] /\ MaxLost \in Nat
<1>1. MaxPkt \in UInt8 \ {0}
  BY TransferAssumption
<1>2. MaxPkt \in Nat \ {0} /\ MaxPkt \in UInt16 /\ UInt16 \subseteq Nat
  BY <1>1, SMT DEF UInt8, UInt16
<1>3. QED
  BY <1>2, TransferAssumption, Zenon DEF Multiple

\* What does not exceed left can be taken from it in 16 bits.
LEMMA NoWrap ==
  ASSUME NEW L \in UInt16, NEW n \in 0..L
  PROVE  (L - n) % 2^16 = L - n /\ L - n \in UInt16
<1> DEFINE m == 2^16
           x == L - n
<1>1. m \in Nat \ {0} /\ x \in 0..m - 1 /\ x \in UInt16
  BY SMT DEF UInt16
<1> HIDE DEF m, x
<1>2. x % m = x
  BY <1>1, Small
<1>3. QED
  BY <1>1, <1>2 DEF m, x

LEMMA WordRange == \A x \in Int : x % 2^16 \in UInt16
  BY SMT DEF UInt16

\* A read of T bytes in pieces of n of which L are left, when g bytes of the
\* running piece are in; the size of the next packet; and what follows for the
\* read once its k bytes are in.
PieceAt(T, L, n, g) ==
  /\ T \in Nat \ {0} /\ L \in 1..T /\ n \in {T, BufSize} /\ g \in 0..L /\ g < n
  /\ Multiple(g, MaxPkt) /\ Multiple(T - L, n)

NextSize(L, g) == Smaller(MaxPkt, L - g)

PieceGrows(T, L, n, g, k) ==
  /\ n \in Nat \ {0} /\ k \in 0..MaxPkt /\ g + k <= n /\ g + k <= L
  /\ 0 < k /\ k < MaxPkt => L = g + k /\ ~Multiple(T, MaxPkt)
  /\ g + k = n => Multiple(T - (L - n), n)
  /\ g + k = n /\ L = n => Multiple(T, n)
  /\ k = MaxPkt => Multiple(g + k, MaxPkt)
  /\ L = g => Multiple(T, MaxPkt) /\ ~Multiple(T, n)

LEMMA PieceArith ==
  ASSUME NEW T, NEW L, NEW n, NEW g, PieceAt(T, L, n, g)
  PROVE  PieceGrows(T, L, n, g, NextSize(L, g))
<1> SUFFICES ASSUME NEW k, k = NextSize(L, g) PROVE PieceGrows(T, L, n, g, k)
  OBVIOUS
<1> USE DEF PieceAt, PieceGrows
<1>1. /\ n \in Nat \ {0} /\ k \in 0..MaxPkt /\ g + k <= L /\ g \in Nat /\ k \in Nat
      /\ T - L \in Nat /\ T = (T - L) + L /\ MaxPkt \in Nat \ {0}
      /\ (k < MaxPkt => L = g + k) /\ L \in Nat /\ T \in Nat \ {0}
  BY Sizes, SMT DEF Smaller, NextSize
<1>2. k = MaxPkt => Multiple(g + k, MaxPkt)
  <2>1. Multiple(g + k, MaxPkt) <=> Multiple(k, MaxPkt)
    BY <1>1, AddsUp, Zenon
  <2>2. QED
    BY <1>1, <2>1, NoneBelow, Zenon
<1>3. 0 < k /\ k < MaxPkt => L = g + k /\ ~Multiple(L, MaxPkt)
  <2>1. Multiple(g + k, MaxPkt) <=> Multiple(k, MaxPkt)
    BY <1>1, AddsUp, Zenon
  <2>2. 0 < k /\ k < MaxPkt => k \in 1..MaxPkt - 1
    BY <1>1, SMT
  <2>3. QED
    BY <1>1, <2>1, <2>2, NoneBelow, Zenon
<1>4. CASE n = T
  <2>1. T - L = 0
    <3>1. T - L # 0 => T - L \in 1..n - 1
      BY <1>1, <1>4, SMT
    <3>2. QED
      BY <1>1, <3>1, NoneBelow, Zenon
  <2>2. L = T /\ L # g /\ g + k <= n /\ T - (L - n) = n
    BY <1>1, <1>4, <2>1, SMT
  <2>3. Multiple(n, n)
    BY <1>1, NoneBelow, Zenon
  <2>4. QED
    BY <1>1, <1>2, <1>3, <1>4, <2>2, <2>3, Zenon
<1>5. CASE n = BufSize
  <2>1. Multiple(T - L, MaxPkt) /\ Multiple(n, n)
    BY <1>1, <1>5, Sizes, MultipleOfMultiple, NoneBelow, Zenon
  <2>2. g + k <= n
    <3>1. g + MaxPkt <= n
      BY <1>1, <1>5, Sizes, NextMultiple, Zenon
    <3>2. QED
      BY <1>1, <3>1, SMT
  <2>3. Multiple(T, MaxPkt) <=> Multiple(L, MaxPkt)
    <3>1. Multiple((T - L) + L, MaxPkt) <=> Multiple(L, MaxPkt)
      BY <1>1, <2>1, AddsUp, Zenon
    <3>2. QED
      BY <1>1, <3>1
  <2>4. Multiple((T - L) + n, n)
    BY <1>1, <2>1, AddsUp, Zenon
  <2>5. T - (L - n) = (T - L) + n
    BY <1>1, SMT
  <2>6. L = g => ~Multiple(T, n)
    <3>1. L = g => g \in 1..n - 1
      BY <1>1, SMT
    <3>2. Multiple(T, n) <=> Multiple(L, n)
      <4>1. Multiple((T - L) + L, n) <=> Multiple(L, n)
        BY <1>1, AddsUp, Zenon
      <4>2. QED
        BY <1>1, <4>1
    <3>3. QED
      BY <1>1, <3>1, <3>2, NoneBelow, Zenon
  <2>7. QED
    BY <1>1, <1>2, <1>3, <2>1, <2>2, <2>3, <2>4, <2>5, <2>6, Zenon
<1>6. QED
  BY <1>4, <1>5

(***************************************************************************)
(* Packets.                                                                *)
(***************************************************************************)
LEMMA PacketType ==
  ASSUME TypeOK
  PROVE  Packet \in Seq(Nat) /\ Len(Packet) \in 0..MaxPkt
<1>1. devNext.ctrl \in Nat /\ devNext.in \in Nat /\ total \in Nat
  <2>1. devNext \in Place /\ total \in Nat
    BY Zenon DEF TypeOK
  <2>2. QED
    BY <2>1, SMT DEF Place
<1>2. CASE ep = "in"
  <2>1. Packet = <<devNext.in>>
    BY <1>2, Zenon DEF Packet
  <2>2. QED
    BY <1>1, <2>1, Sizes, SMT
<1>3. CASE ep # "in"
  <2> DEFINE a == devNext.ctrl
             b == Smaller(a + MaxPkt - 1, total)
  <2>1. Packet = Count(a, b)
    BY <1>3, Zenon DEF Packet
  <2>2. a \in Nat /\ b \in Int /\ b <= a + MaxPkt - 1
    BY <1>1, Sizes, SMT DEF Smaller
  <2> HIDE DEF a, b
  <2>3. Packet \in Seq(Nat) /\ Len(Packet) = IF b >= a THEN b - a + 1 ELSE 0
    BY <2>1, <2>2, CountIsSeq, Zenon
  <2>4. QED
    BY <2>2, <2>3, Sizes, SMT
<1>4. QED
  BY <1>2, <1>3

\* The packet that comes next in a read that is in sync.
LEMMA PacketInSync ==
  ASSUME TypeOK, ep = "ctrl", InSync, NEW k, k = NextSize(left, got)
  PROVE  /\ Packet = Count((total - left) + got + 1, (total - left) + got + k)
         /\ Len(Packet) = k /\ k \in 0..MaxPkt
         /\ Packet = <<>> <=> left = got
<1>1. /\ devNext.ctrl = (total - left) + got + 1 /\ left \in 1..total /\ got <= left
      /\ total \in Nat /\ got \in Nat
  BY SMT DEF TypeOK, InSync
<1> DEFINE a == devNext.ctrl
           b == Smaller(a + MaxPkt - 1, total)
<1>2. Packet = Count(a, b)
  BY Zenon DEF Packet
<1>3. /\ a \in Nat /\ b = (total - left) + got + k /\ b \in Int /\ k \in 0..MaxPkt
      /\ (IF b >= a THEN b - a + 1 ELSE 0) = k
      /\ (k = 0 <=> left = got)
  BY <1>1, Sizes, SMT DEF Smaller, NextSize
<1> HIDE DEF b
<1>4. Packet \in Seq(Nat) /\ Len(Packet) = k
  BY <1>2, <1>3, CountIsSeq, Zenon
<1>5. Packet = <<>> <=> k = 0
  BY <1>4, EmptySeq, SMT
<1>6. QED
  BY <1>1, <1>2, <1>3, <1>4, <1>5, Zenon

(***************************************************************************)
(* Packets that fail.                                                      *)
(***************************************************************************)
LEMMA CountersStart ==
  ASSUME NEW e \in Endpoint
  PROVE  0 \in 0..(USB_RETRY_LIMIT - 1) /\ 0 \in 0..(NakLimit[e] - 1)
<1>1. NakLimit[e] \in Nat \ {0}
  BY Sizes, Zenon
<1>2. QED
  BY <1>1, SMT DEF USB_RETRY_LIMIT

\* No count reaches its limit: the retry that would, gives up.
LEMMA RetryCounts ==
  ASSUME TypeOK, NEW r \in Result, ~GivesUp(r), Retry(r)
  PROVE  retry_count' \in 0..(USB_RETRY_LIMIT - 1) /\ nak_count' \in 0..(NakLimit[ep] - 1)
<1>1. /\ retry_count \in 0..(USB_RETRY_LIMIT - 1) /\ nak_count \in 0..(NakLimit[ep] - 1)
      /\ NakLimit[ep] \in Nat \ {0}
  BY Sizes, Zenon DEF TypeOK
<1>2. CASE r = "nak"
  <2>1. nak_count + 1 # NakLimit[ep] /\ nak_count' = nak_count + 1 /\ retry_count' = retry_count
    BY <1>2, Zenon DEF GivesUp, Retry
  <2>2. QED
    BY <1>1, <2>1, SMT
<1>3. CASE r = "timeout"
  <2>1. /\ retry_count + 1 # USB_RETRY_LIMIT
        /\ nak_count' = nak_count /\ retry_count' = retry_count + 1
    BY <1>3, Zenon DEF GivesUp, Retry
  <2>2. QED
    BY <1>1, <2>1, SMT DEF USB_RETRY_LIMIT
<1>4. CASE r # "nak" /\ r # "timeout"
  BY <1>4, Zenon DEF GivesUp
<1>5. QED
  BY <1>2, <1>3, <1>4

\* A failed packet is tried again, or the call returns its result.
LEMMA FailsTo ==
  ASSUME TypeOK, NEW r \in Result, Fails(r)
  PROVE  /\ retry_count' \in 0..(USB_RETRY_LIMIT - 1) /\ nak_count' \in 0..(NakLimit[ep] - 1)
         /\ \/ pc' = "idle" /\ rcode' = r
            \/ UNCHANGED <<pc, rcode>>
<1>1. ep \in Endpoint
  BY Zenon DEF TypeOK
<1>2. CASE Return(r) /\ Fresh
  BY <1>1, <1>2, CountersStart, Zenon DEF Return, Fresh
<1>3. CASE ~GivesUp(r) /\ Retry(r) /\ UNCHANGED <<pc, rcode>>
  BY <1>3, RetryCounts, Zenon
<1>4. QED
  BY <1>2, <1>3, Zenon DEF Fails

(***************************************************************************)
(* The data of a packet.                                                   *)
(***************************************************************************)
Pktsize == Smaller(Len(Packet), nbytes)
Data == buf \o SubSeq(Packet, 1, Smaller(Pktsize, nbytes - Len(buf)))

LEMMA DataType ==
  ASSUME TypeOK
  PROVE  /\ Data \in Seq(Nat) /\ Pktsize \in 0..MaxPkt /\ Pktsize <= nbytes
         /\ Pktsize + Len(buf) < nbytes => Len(Data) = Len(buf) + Pktsize
<1>1. Packet \in Seq(Nat) /\ Len(Packet) \in 0..MaxPkt
  BY PacketType, Zenon
<1>2. nbytes \in Nat /\ buf \in Seq(Nat) /\ MaxPkt \in Nat
  BY Sizes, Zenon DEF TypeOK
<1>3. Len(buf) \in Nat /\ Len(Packet) \in Nat
  BY <1>1, <1>2, LenProperties, Zenon
<1> DEFINE m == Smaller(Pktsize, nbytes - Len(buf))
<1>4. /\ Pktsize \in 0..MaxPkt /\ Pktsize <= nbytes /\ m \in Int /\ m <= Len(Packet)
      /\ Pktsize + Len(buf) < nbytes => m = Pktsize
  BY <1>1, <1>2, <1>3, SMT DEF Pktsize, Smaller
<1> HIDE DEF m
<1> DEFINE s == SubSeq(Packet, 1, m)
<1>5. s \in Seq(Nat) /\ Len(s) = IF 1 <= m THEN m - 1 + 1 ELSE 0
  <2>1. \A i \in 1..m : Packet[i] \in Nat
    BY <1>1, <1>4, SMT
  <2>2. QED
    BY <1>4, <2>1, SubSeqProperties, SMT
<1> HIDE DEF s
<1>6. Data = buf \o s
  BY DEF Data, s, m
<1>7. Data \in Seq(Nat) /\ Len(Data) = Len(buf) + Len(s)
  BY <1>2, <1>5, <1>6, ConcatProperties, Zenon
<1>8. QED
  BY <1>3, <1>4, <1>5, <1>7, SMT

(***************************************************************************)
(* Types.                                                                  *)
(***************************************************************************)

LEMMA BitFlips == \A b \in Bit : 1 - b \in Bit /\ 1 - b # b /\ 1 - (1 - b) = b
  BY SMT DEF Bit

LEMMA CallTypes ==
  ASSUME TypeOK, NEW e \in Endpoint, NEW stage \in Stage, NEW t \in UInt16, NEW n \in Nat,
         Call(e, stage, t, n)
  PROVE  TypeOK'
<1>1. /\ pc' = stage /\ ep' = e /\ total' = t /\ nbytes' = n /\ left' = t
      /\ buf' = <<>> /\ got' = 0 /\ parsed' = <<>>
      /\ retry_count' = 0 /\ nak_count' = 0 /\ late' = FALSE
      /\ hrsl' = toggle[e] /\ accepted' = <<>> /\ troubled' = FALSE
      /\ doubt' = [doubt EXCEPT !.start = doubt.now]
      /\ UNCHANGED <<rcode, toggle, devTog, devNext, lost>>
  BY Zenon DEF Call
<1>2. <<>> \in Seq(Nat) /\ 0 \in Nat /\ t \in Nat
  BY Sizes, EmptySeq, SMT
<1>3. doubt' \in Doubt
  <2>1. doubt \in Doubt
    BY Zenon DEF TypeOK
  <2>2. QED
    BY <1>1, <2>1, SMT DEF Doubt
<1>4. hrsl' \in Bit
  BY <1>1, Zenon DEF TypeOK
<1>5. QED
  BY <1>1, <1>2, <1>3, <1>4, CountersStart, Zenon DEF TypeOK

LEMMA SetupTypes ==
  ASSUME TypeOK, Setup
  PROVE  TypeOK'
<1>1. UNCHANGED <<ep, total, nbytes, left, buf, got, parsed, late, accepted, lost, doubt>>
  BY Zenon DEF Setup, arguments
<1>2. CASE /\ pc' = IF total = 0 THEN "status" ELSE "in"
           /\ toggle' = [toggle EXCEPT !["ctrl"] = 1]
           /\ hrsl' = 1
           /\ devTog' = [devTog EXCEPT !["ctrl"] = 1]
           /\ devNext' = [devNext EXCEPT !.ctrl = 1]
           /\ Fresh
           /\ UNCHANGED <<rcode, troubled>>
  <2>1. pc' \in Stage
    BY <1>2, Zenon DEF Stage
  <2>2. 1 \in Bit /\ hrsl' \in Bit
    BY <1>2, Zenon DEF Bit
  <2>3. toggle' \in [Endpoint -> Bit] /\ devTog' \in [Endpoint -> Bit]
    BY <1>2, <2>2, Zenon DEF TypeOK
  <2>4. devNext' \in Place
    <3>1. devNext \in Place
      BY Zenon DEF TypeOK
    <3>2. QED
      BY <1>2, <3>1, SMT DEF Place
  <2>5. retry_count' \in 0..(USB_RETRY_LIMIT - 1) /\ nak_count' \in 0..(NakLimit[ep] - 1)
    BY <1>2, CountersStart, Zenon DEF TypeOK, Fresh
  <2>6. QED
    BY <1>1, <1>2, <2>1, <2>2, <2>3, <2>4, <2>5, Zenon DEF TypeOK
<1>3. CASE /\ Fails("timeout") /\ troubled' = TRUE
           /\ UNCHANGED <<toggle, hrsl, devTog, devNext>>
  <2>1. /\ retry_count' \in 0..(USB_RETRY_LIMIT - 1) /\ nak_count' \in 0..(NakLimit[ep] - 1)
        /\ (pc' = "idle" /\ rcode' = "timeout") \/ UNCHANGED <<pc, rcode>>
    BY <1>3, FailsTo, Zenon DEF Result
  <2>2. pc' \in Stage /\ rcode' \in Result
    BY <2>1, Zenon DEF TypeOK, Stage, Result
  <2>3. QED
    BY <1>1, <1>3, <2>1, <2>2, Zenon DEF TypeOK
<1>4. QED
  BY <1>2, <1>3, Zenon DEF Setup

\* Any packet that only fails.
LEMMA OnlyFailsTypes ==
  ASSUME TypeOK, NEW r \in Result, Fails(r), troubled' \in BOOLEAN,
         UNCHANGED <<arguments, left, buf, got, parsed, late, toggle, hrsl, device, lost, doubt>>
  PROVE  TypeOK'
<1>1. UNCHANGED <<ep, total, nbytes, left, buf, got, parsed, late, toggle, hrsl, devTog,
                  devNext, accepted, lost, doubt>>
  BY Zenon DEF arguments, device
<1>2. /\ retry_count' \in 0..(USB_RETRY_LIMIT - 1) /\ nak_count' \in 0..(NakLimit[ep] - 1)
      /\ (pc' = "idle" /\ rcode' = r) \/ UNCHANGED <<pc, rcode>>
  BY FailsTo, Zenon
<1>3. pc' \in Stage /\ rcode' \in Result
  BY <1>2, Zenon DEF TypeOK, Stage
<1>4. QED
  BY <1>1, <1>2, <1>3, Zenon DEF TypeOK

LEMMA InFailsTypes ==
  ASSUME TypeOK, InFails
  PROVE  TypeOK'
<1>1. troubled' \in BOOLEAN
  BY Zenon DEF TypeOK, InFails
<1>2. PICK r \in Result : Fails(r)
  BY Zenon DEF InFails, Result
<1>3. QED
  BY <1>1, <1>2, OnlyFailsTypes, Zenon DEF InFails

LEMMA DeviceAdvancesTypes ==
  ASSUME TypeOK, DeviceAdvances
  PROVE  devTog' \in [Endpoint -> Bit] /\ devNext' \in Place
<1>1. devTog \in [Endpoint -> Bit] /\ devNext \in Place /\ ep \in Endpoint
  BY Zenon DEF TypeOK
<1>2. Len(Packet) \in Nat
  BY PacketType, Sizes, SMT
<1>3. devTog' = [devTog EXCEPT ![ep] = 1 - devTog[ep]]
  BY Zenon DEF DeviceAdvances
<1>4. 1 - devTog[ep] \in Bit
  BY <1>1, BitFlips, Zenon
<1>5. devTog' \in [Endpoint -> Bit]
  BY <1>1, <1>3, <1>4, Zenon
<1>6. CASE ep = "in"
  <2>1. devNext' = [devNext EXCEPT !.in = (devNext.in + 1) % 3]
    BY <1>6, Zenon DEF DeviceAdvances
  <2>2. QED
    BY <1>1, <1>5, <2>1, SMT DEF Place
<1>7. CASE ep # "in"
  <2>1. devNext' = [devNext EXCEPT !.ctrl = devNext.ctrl + Len(Packet)]
    BY <1>7, Zenon DEF DeviceAdvances
  <2> DEFINE k == Len(Packet)
  <2> HIDE DEF k
  <2>2. devNext' = [devNext EXCEPT !.ctrl = devNext.ctrl + k] /\ k \in Nat
    BY <1>2, <2>1 DEF k
  <2>3. QED
    BY <1>1, <1>5, <2>2, SMT DEF Place
<1>8. QED
  BY <1>6, <1>7

LEMMA SaveToggleTypes ==
  ASSUME TypeOK, SaveToggle
  PROVE  /\ toggle' \in [Endpoint -> Bit] /\ toggle'[ep] = 1 - hrsl /\ 1 - hrsl \in Bit
         /\ \A e \in Endpoint : e # ep => toggle'[e] = toggle[e]
<1>1. toggle \in [Endpoint -> Bit] /\ hrsl \in Bit /\ ep \in Endpoint
  BY Zenon DEF TypeOK
<1>2. 1 - hrsl \in Bit
  BY <1>1, BitFlips, Zenon
<1>3. QED
  BY <1>1, <1>2, Zenon DEF SaveToggle

\* What InTransfer does with a packet it accepts.
InTakes ==
  IF Pktsize < MaxPkt \/ got + Pktsize >= nbytes
    THEN Received(Data, got + Pktsize)
    ELSE /\ hrsl' = 1 - hrsl
         /\ buf' = Data /\ got' = got + Pktsize
         /\ UNCHANGED <<pc, rcode, parsed, left, toggle>>

LEMMA InDataParts ==
  InData => /\ pc = "in" /\ Packet # <<>> /\ devTog[ep] = hrsl
            /\ \/ DeviceAdvances /\ UNCHANGED lost
               \/ lost < MaxLost /\ lost' = lost + 1 /\ UNCHANGED <<devTog, devNext>>
            /\ InTakes /\ Fresh
            /\ UNCHANGED <<ep, total, nbytes, late, accepted, troubled, doubt>>
  BY Zenon DEF InData, InTakes, Data, Pktsize, arguments

LEMMA InDataTypes ==
  ASSUME TypeOK, InData
  PROVE  TypeOK'
<1>1. /\ pc = "in" /\ InTakes /\ Fresh
      /\ \/ DeviceAdvances /\ UNCHANGED lost
         \/ lost < MaxLost /\ lost' = lost + 1 /\ UNCHANGED <<devTog, devNext>>
      /\ UNCHANGED <<ep, total, nbytes, late, accepted, troubled, doubt>>
  BY InDataParts, Zenon
<1>2. devTog' \in [Endpoint -> Bit] /\ devNext' \in Place
  BY <1>1, DeviceAdvancesTypes, Zenon DEF TypeOK
<1>3. lost' \in 0..MaxLost
  <2>1. lost \in 0..MaxLost
    BY Zenon DEF TypeOK
  <2>2. QED
    BY <1>1, <2>1, Sizes, SMT
<1>4. Data \in Seq(Nat) /\ Pktsize \in Nat /\ got + Pktsize \in Nat
  <2>1. got \in Nat
    BY Zenon DEF TypeOK
  <2>2. QED
    BY <2>1, DataType, SMT
<1>5. retry_count' \in 0..(USB_RETRY_LIMIT - 1) /\ nak_count' \in 0..(NakLimit[ep] - 1)
  BY <1>1, CountersStart, Zenon DEF TypeOK, Fresh
<1>6. CASE Received(Data, got + Pktsize)
  <2>1. /\ SaveToggle /\ hrsl' = toggle'[ep]
        /\ parsed' = parsed \o Data /\ buf' = <<>> /\ got' = 0
        /\ left' = LeftAfter(got + Pktsize)
        /\ \/ pc' = "idle" /\ rcode' = "ok"
           \/ pc' \in {"status", "in"} /\ UNCHANGED rcode
    BY <1>6, Zenon DEF Received, Return
  <2>2. toggle' \in [Endpoint -> Bit] /\ hrsl' \in Bit
    BY <2>1, SaveToggleTypes, Zenon
  <2>3. parsed' \in Seq(Nat)
    BY <1>4, <2>1, ConcatProperties, Zenon DEF TypeOK
  <2>4. left' \in UInt16
    <3>1. left - (got + Pktsize) \in Int
      <4>1. left \in UInt16
        BY Zenon DEF TypeOK
      <4>2. QED
        BY <1>4, <4>1, Sizes, SMT
    <3>2. QED
      BY <2>1, <3>1, WordRange, Zenon DEF LeftAfter
  <2>5. pc' \in Stage /\ rcode' \in Result
    BY <2>1, Zenon DEF TypeOK, Stage, Result
  <2>6. <<>> \in Seq(Nat) /\ 0 \in Nat
    BY EmptySeq, SMT
  <2>7. QED
    BY <1>1, <1>2, <1>3, <1>5, <2>1, <2>2, <2>3, <2>4, <2>5, <2>6, Zenon DEF TypeOK
<1>7. CASE /\ hrsl' = 1 - hrsl
           /\ buf' = Data /\ got' = got + Pktsize
           /\ UNCHANGED <<pc, rcode, parsed, left, toggle>>
  <2>1. hrsl' \in Bit
    BY <1>7, BitFlips, Zenon DEF TypeOK
  <2>2. QED
    BY <1>1, <1>2, <1>3, <1>4, <1>5, <1>7, <2>1, Zenon DEF TypeOK
<1>8. QED
  BY <1>1, <1>6, <1>7, Zenon DEF InTakes

LEMMA InToggleErrorTypes ==
  ASSUME TypeOK, InToggleError
  PROVE  TypeOK'
<1>1. /\ DeviceAdvances \/ UNCHANGED <<devTog, devNext>>
      /\ hrsl' = 1 - hrsl /\ Fresh
      /\ toggle' = [toggle EXCEPT ![ep] = 1 - hrsl]
      /\ troubled' = (troubled \/ lost > 0)
      /\ UNCHANGED <<pc, ep, total, nbytes, left, buf, got, parsed, late, rcode, accepted,
                     lost, doubt>>
  BY Zenon DEF InToggleError, arguments
<1>2. devTog' \in [Endpoint -> Bit] /\ devNext' \in Place
  BY <1>1, DeviceAdvancesTypes, Zenon DEF TypeOK
<1>3. hrsl' \in Bit /\ toggle' \in [Endpoint -> Bit]
  BY <1>1, BitFlips, Zenon DEF TypeOK
<1>4. troubled' \in BOOLEAN
  BY <1>1, Zenon DEF TypeOK
<1>5. retry_count' \in 0..(USB_RETRY_LIMIT - 1) /\ nak_count' \in 0..(NakLimit[ep] - 1)
  BY <1>1, CountersStart, Zenon DEF TypeOK, Fresh
<1>6. QED
  BY <1>1, <1>2, <1>3, <1>4, <1>5, Zenon DEF TypeOK

LEMMA StatusTypes ==
  ASSUME TypeOK, Status
  PROVE  TypeOK'
<1>1. CASE Return("ok") /\ Fresh /\ UNCHANGED troubled
  <2>1. UNCHANGED <<ep, total, nbytes, left, buf, got, parsed, late, toggle, hrsl, devTog,
                    devNext, accepted, lost, doubt>>
    BY Zenon DEF Status, arguments, device
  <2>2. retry_count' \in 0..(USB_RETRY_LIMIT - 1) /\ nak_count' \in 0..(NakLimit[ep] - 1)
    BY <1>1, CountersStart, Zenon DEF TypeOK, Fresh
  <2>3. pc' \in Stage /\ rcode' \in Result
    BY <1>1, Zenon DEF Return, Stage, Result
  <2>4. QED
    BY <1>1, <2>1, <2>2, <2>3, Zenon DEF TypeOK
<1>2. CASE \E r \in {"nak", "timeout", "stall"} : Fails(r) /\ troubled' = TRUE
  <2>1. PICK r \in Result : Fails(r) /\ troubled' = TRUE
    BY <1>2, Zenon DEF Result
  <2>2. QED
    BY <2>1, OnlyFailsTypes, Zenon DEF Status
<1>3. QED
  BY <1>1, <1>2, Zenon DEF Status

(***************************************************************************)
(* OutTransfer.                                                            *)
(***************************************************************************)

\* The device has the bytes before the packet on the bus, and those of the
\* packet too if its toggle says so.
OutAgrees ==
  IF devTog["out"] = hrsl THEN accepted = Count(1, Sent)
  ELSE accepted = Count(1, Sent + bytes_tosend)

LEMMA OutArith ==
  ASSUME TypeOK, Stages, pc = "out"
  PROVE  /\ ep = "out" /\ "out" \in Endpoint /\ hrsl \in Bit /\ devTog["out"] \in Bit
         /\ Sent \in Nat /\ bytes_tosend \in 1..left /\ bytes_tosend \in Nat
         /\ Sent + bytes_tosend \in 0..total /\ Sent \in 0..total
         /\ left \in Nat /\ left \in UInt16 /\ total \in Nat
<1>1. /\ ep = "out" /\ left \in 1..total /\ left \in UInt16 /\ total \in Nat
      /\ hrsl \in Bit /\ devTog \in [Endpoint -> Bit]
  BY Zenon DEF TypeOK, Stages
<1>2. "out" \in Endpoint
  BY Zenon DEF Endpoint
<1>3. QED
  BY <1>1, <1>2, Sizes, SMT DEF Sent, bytes_tosend, Smaller

\* The packet goes to the device, which takes it or has it already.
LEMMA Accepts ==
  ASSUME TypeOK, Stages, pc = "out", DeviceAccepts
  PROVE  /\ devTog' \in [Endpoint -> Bit] /\ devTog'["out"] = 1 - hrsl
         /\ devTog'["in"] = devTog["in"] /\ accepted' \in Seq(Nat)
         /\ OutAgrees => accepted' = Count(1, Sent + bytes_tosend)
<1>1. devTog \in [Endpoint -> Bit] /\ accepted \in Seq(Nat) /\ hrsl \in Bit
  BY Zenon DEF TypeOK
<1>2. "in" \in Endpoint /\ "out" \in Endpoint /\ "in" # "out"
  BY Zenon DEF Endpoint
<1> DEFINE s == Sent
           k == bytes_tosend
<1>3. s \in Nat /\ k \in Nat /\ s + 1 \in Nat /\ s + k \in Nat /\ s <= s + k /\ 1 <= s + 1
  BY OutArith, SMT
<1>4. CASE devTog["out"] = hrsl
  <2>1. /\ devTog' = [devTog EXCEPT !["out"] = 1 - devTog["out"]]
        /\ accepted' = accepted \o Count(total - left + 1, total - left + bytes_tosend)
    BY <1>4, Zenon DEF DeviceAccepts
  <2>2. accepted' = accepted \o Count(s + 1, s + k)
    BY <2>1, Zenon DEF Sent
  <2> HIDE DEF s, k
  <2>3. Count(s + 1, s + k) \in Seq(Nat)
    <3>1. s + k \in Int
      BY <1>3, SMT
    <3>2. QED
      BY <1>3, <3>1, CountIsSeq, Zenon
  <2>4. accepted' \in Seq(Nat)
    BY <1>1, <2>2, <2>3, ConcatProperties, Zenon
  <2>5. Count(1, s) \o Count(s + 1, s + k) = Count(1, s + k)
    <3>1. 1 \in Nat
      OBVIOUS
    <3>2. QED
      BY <1>3, <3>1, CountConcat, Zenon
  <2>6. OutAgrees => accepted' = Count(1, s + k)
    BY <1>4, <2>2, <2>5, Zenon DEF OutAgrees, s
  <2>7. 1 - hrsl \in Bit /\ devTog["out"] = hrsl
    BY <1>1, <1>4, BitFlips, Zenon
  <2>8. QED
    BY <1>1, <1>2, <2>1, <2>4, <2>6, <2>7, Zenon DEF s, k
<1>5. CASE devTog["out"] # hrsl
  <2>1. UNCHANGED <<devTog, accepted>>
    BY <1>5, Zenon DEF DeviceAccepts
  <2>2. devTog["out"] = 1 - hrsl
    <3>1. devTog["out"] \in Bit
      BY <1>1, <1>2, Zenon
    <3>2. QED
      BY <1>1, <1>5, <3>1, SMT DEF Bit
  <2>3. QED
    BY <1>1, <1>5, <2>1, <2>2, Zenon DEF OutAgrees
<1>6. QED
  BY <1>4, <1>5

LEMMA OutResultParts ==
  ASSUME TypeOK, Stages, OutSync, pc = "out", NEW r \in Result, OutResult(r)
  PROVE  /\ devTog' \in [Endpoint -> Bit] /\ devTog'["in"] = devTog["in"]
         /\ accepted' \in Seq(Nat) /\ hrsl' \in Bit
         /\ doubt' \in Doubt /\ doubt'.start = doubt.start /\ troubled' \in BOOLEAN
         /\ doubt'.now \/ devTog'["out"] = hrsl'
         /\ r = "ok" => devTog'["out"] = hrsl'
         /\ r # "ok" => hrsl' = hrsl
         /\ OutAgrees =>
              IF r # "ok" /\ devTog'["out"] = hrsl' THEN accepted' = Count(1, Sent)
              ELSE accepted' = Count(1, Sent + bytes_tosend)
<1>1. /\ devTog \in [Endpoint -> Bit] /\ accepted \in Seq(Nat) /\ hrsl \in Bit
      /\ doubt \in Doubt /\ troubled \in BOOLEAN
  BY Zenon DEF TypeOK
<1>2. doubt' = [doubt EXCEPT !.now = (r = "timeout" \/ (r # "ok" /\ doubt.now))]
  BY Zenon DEF OutResult
<1>3. /\ doubt' \in Doubt /\ doubt'.start = doubt.start
      /\ doubt'.now <=> r = "timeout" \/ (r # "ok" /\ doubt.now)
  <2>1. doubt.start \in BOOLEAN
    BY <1>1, Zenon DEF Doubt
  <2> DEFINE b == (r = "timeout" \/ (r # "ok" /\ doubt.now))
  <2>2. b \in BOOLEAN
    OBVIOUS
  <2>3. doubt' = [doubt EXCEPT !.now = b]
    BY <1>2
  <2>4. b <=> r = "timeout" \/ (r # "ok" /\ doubt.now)
    OBVIOUS
  <2> HIDE DEF b
  <2>5. doubt' \in Doubt /\ doubt'.start = doubt.start /\ doubt'.now = b
    BY <1>1, <2>2, <2>3 DEF Doubt
  <2>6. QED
    BY <2>4, <2>5, Zenon
<1>4. troubled' \in BOOLEAN
  BY Zenon DEF OutResult
<1>5. hrsl' = IF r = "ok" THEN 1 - hrsl ELSE hrsl
  BY Zenon DEF OutResult
<1>6. hrsl' \in Bit
  BY <1>1, <1>5, BitFlips, Zenon
<1>7. CASE DeviceAccepts /\ r = "ok"
  <2>1. devTog'["out"] = hrsl'
    BY <1>5, <1>7, Accepts, Zenon
  <2>2. QED
    BY <1>3, <1>4, <1>6, <1>7, <2>1, Accepts, Zenon
<1>8. CASE DeviceAccepts /\ r = "timeout"
  <2>1. devTog'["out"] # hrsl' /\ hrsl' = hrsl
    BY <1>1, <1>5, <1>8, Accepts, BitFlips, Zenon
  <2>2. QED
    BY <1>3, <1>4, <1>6, <1>8, <2>1, Accepts, Zenon
<1>9. CASE UNCHANGED <<devTog, accepted>> /\ r # "ok"
  <2>1. hrsl' = hrsl
    BY <1>5, <1>9, Zenon
  <2>2. doubt'.now \/ devTog'["out"] = hrsl'
    <3>1. doubt.now \/ hrsl = devTog["out"]
      BY Zenon DEF OutSync
    <3>2. QED
      BY <1>3, <1>9, <2>1, <3>1, Zenon
  <2>3. QED
    BY <1>1, <1>3, <1>4, <1>6, <1>9, <2>1, <2>2, Zenon DEF OutAgrees
<1>10. QED
  BY <1>7, <1>8, <1>9, Zenon DEF OutResult

\* What the step leaves of pc, rcode, left, the counters and the saved toggle.
LEMMA OutStepParts ==
  ASSUME TypeOK, Stages, pc = "out", NEW r \in Result, OutStep(r), hrsl' \in Bit
  PROVE  /\ pc' \in Stage /\ rcode' \in Result /\ left' \in UInt16
         /\ toggle' \in [Endpoint -> Bit] /\ toggle'["in"] = toggle["in"]
         /\ retry_count' \in 0..(USB_RETRY_LIMIT - 1) /\ nak_count' \in 0..(NakLimit[ep] - 1)
         /\ \/ pc' = "idle" /\ rcode' = r /\ toggle'["out"] = hrsl'
            \/ pc' = "out" /\ UNCHANGED <<rcode, toggle>>
         /\ \/ /\ r = "ok" \/ late'
               /\ left' = left - bytes_tosend
               /\ pc' = "idle" <=> left' = 0
            \/ r # "ok" /\ ~late' /\ left' = left
<1>1. /\ pc' = "idle" /\ rcode' = r => pc' \in Stage /\ rcode' \in Result
      /\ UNCHANGED <<pc, rcode>> => pc' \in Stage /\ rcode' \in Result
      /\ pc = "out" /\ pc # "idle" /\ ep \in Endpoint
      /\ toggle \in [Endpoint -> Bit] /\ left \in UInt16
  BY Zenon DEF TypeOK, Stage
<1>2. ASSUME OutReturn(r)
      PROVE  /\ pc' = "idle" /\ rcode' = r /\ toggle'["out"] = hrsl'
             /\ toggle' \in [Endpoint -> Bit] /\ toggle'["in"] = toggle["in"]
  <2>1. "in" \in Endpoint /\ "out" \in Endpoint /\ "in" # "out"
    BY Zenon DEF Endpoint
  <2>2. toggle' = [toggle EXCEPT !["out"] = hrsl'] /\ pc' = "idle" /\ rcode' = r
    BY <1>2, Zenon DEF OutReturn, Return
  <2>3. QED
    BY <1>1, <2>1, <2>2, Zenon
<1>3. Fresh => /\ retry_count' \in 0..(USB_RETRY_LIMIT - 1)
              /\ nak_count' \in 0..(NakLimit[ep] - 1)
  BY <1>1, CountersStart, Zenon DEF Fresh
<1>4. CASE (r = "ok" \/ late') /\ OutNext(r)
  <2>1. left' = left - bytes_tosend /\ Fresh
    BY <1>4, Zenon DEF OutNext
  <2>2. left' \in UInt16
    BY <1>1, <2>1, OutArith, SMT DEF UInt16
  <2>3. CASE left' = 0
    <3>1. OutReturn(r)
      BY <1>4, <2>3, Zenon DEF OutNext
    <3>2. QED
      BY <1>1, <1>2, <1>3, <1>4, <2>1, <2>2, <2>3, <3>1, Zenon
  <2>4. CASE left' # 0
    <3>1. UNCHANGED <<pc, rcode, toggle>>
      BY <1>4, <2>4, Zenon DEF OutNext
    <3>2. QED
      BY <1>1, <1>3, <1>4, <2>1, <2>2, <2>4, <3>1, Zenon
  <2>5. QED
    BY <2>3, <2>4
<1>5. CASE r # "ok" /\ ~late' /\ UNCHANGED left /\ OutReturn(r) /\ Fresh
  BY <1>1, <1>2, <1>3, <1>5, Zenon
<1>6. CASE /\ r # "ok" /\ ~late' /\ UNCHANGED left
           /\ ~GivesUp(r) /\ Retry(r) /\ UNCHANGED <<pc, rcode, toggle>>
  BY <1>1, <1>6, RetryCounts, Zenon
<1>7. QED
  BY <1>4, <1>5, <1>6, Zenon DEF OutStep

LEMMA OutKeeps ==
  ASSUME TInv, Out
  PROVE  TInv'
<1>1. /\ TypeOK /\ Stages /\ OutSync /\ OutInv /\ PollInv
      /\ pc = "out" /\ ep = "out"
      /\ late' \in {late} \cup (IF MayBeLate THEN {TRUE} ELSE {})
      /\ UNCHANGED <<ep, total, nbytes, buf, got, parsed, devNext, lost>>
  BY Zenon DEF TInv, Out, arguments, Stages
<1>2. PICK r \in Result : OutResult(r) /\ OutStep(r)
  BY Zenon DEF Out, Result
<1>3. late' \in BOOLEAN /\ (~late' => ~late)
  <2>1. late \in BOOLEAN
    BY <1>1, Zenon DEF TypeOK
  <2>2. late' = late \/ late' = TRUE
    BY <1>1, Zenon
  <2>3. QED
    BY <2>1, <2>2, Zenon
<1>4. /\ devTog' \in [Endpoint -> Bit] /\ devTog'["in"] = devTog["in"]
      /\ accepted' \in Seq(Nat) /\ hrsl' \in Bit
      /\ doubt' \in Doubt /\ doubt'.start = doubt.start /\ troubled' \in BOOLEAN
      /\ doubt'.now \/ devTog'["out"] = hrsl'
      /\ r = "ok" => devTog'["out"] = hrsl'
      /\ r # "ok" => hrsl' = hrsl
      /\ OutAgrees =>
           IF r # "ok" /\ devTog'["out"] = hrsl' THEN accepted' = Count(1, Sent)
           ELSE accepted' = Count(1, Sent + bytes_tosend)
  BY <1>1, <1>2, OutResultParts, Zenon
<1>5. /\ pc' \in Stage /\ rcode' \in Result /\ left' \in UInt16
      /\ toggle' \in [Endpoint -> Bit] /\ toggle'["in"] = toggle["in"]
      /\ retry_count' \in 0..(USB_RETRY_LIMIT - 1) /\ nak_count' \in 0..(NakLimit[ep] - 1)
      /\ \/ pc' = "idle" /\ rcode' = r /\ toggle'["out"] = hrsl'
         \/ pc' = "out" /\ UNCHANGED <<rcode, toggle>>
      /\ \/ /\ r = "ok" \/ late'
            /\ left' = left - bytes_tosend
            /\ pc' = "idle" <=> left' = 0
         \/ r # "ok" /\ ~late' /\ left' = left
  BY <1>1, <1>2, <1>4, OutStepParts, Zenon
<1>6. /\ Sent \in Nat /\ bytes_tosend \in 1..left /\ Sent + bytes_tosend \in 0..total
      /\ Sent \in 0..total /\ left \in Nat /\ left \in 1..total /\ total \in Nat
  BY <1>1, OutArith, Zenon DEF Stages
<1>7. TypeOK'
  BY <1>1, <1>3, <1>4, <1>5, Zenon DEF TypeOK
<1>8. pc' = "out" => left' \in 1..total
  <2>1. left - bytes_tosend \in 0..total
    BY <1>6, SMT
  <2>2. pc' = "out" => left' = left \/ (left' = left - bytes_tosend /\ left' # 0)
    BY <1>5, Zenon
  <2>3. QED
    BY <1>6, <2>1, <2>2, SMT
<1>9. Stages'
  <2>1. "out" # "ctrl" /\ "out" # "in" /\ pc' \in {"idle", "out"}
    BY <1>5, Zenon
  <2>2. QED
    BY <1>1, <1>8, <2>1, Zenon DEF Stages
<1>10. CtrlInv'
  BY <1>1, Zenon DEF CtrlInv
<1>11. PollInv'
  BY <1>1, <1>4, <1>5, Zenon DEF PollInv
<1>12. OutSync'
  BY <1>4, <1>5, Zenon DEF OutSync
<1>13. OutInv'
  <2> SUFFICES ASSUME ~late', ~doubt'.start
               PROVE  /\ pc' = "out" => OutAgrees'
                      /\ pc' = "idle" =>
                           \/ accepted' = Count(1, total)
                           \/ rcode' # "ok" /\ \E n \in 0..total : accepted' = Count(1, n)
    BY <1>1, Zenon DEF OutInv, OutAgrees
  <2>1. OutAgrees
    BY <1>1, <1>3, <1>4, Zenon DEF OutInv, OutAgrees
  <2>2. CASE r = "ok"
    <3>1. accepted' = Count(1, Sent + bytes_tosend) /\ devTog'["out"] = hrsl'
      BY <1>4, <2>1, <2>2, Zenon
    <3>2. left' = left - bytes_tosend /\ (pc' = "idle" <=> left' = 0)
      BY <1>5, <2>2, Zenon
    <3>3. Sent' = Sent + bytes_tosend /\ (left' = 0 => Sent + bytes_tosend = total)
      <4>1. Sent' = total - left'
        BY <1>1, Zenon DEF Sent
      <4>2. total - (left - bytes_tosend) = (total - left) + bytes_tosend
        BY <1>6, SMT
      <4>3. left' = 0 => left = bytes_tosend
        BY <1>6, <3>2, SMT
      <4>4. (total - left) + left = total
        BY <1>6, SMT
      <4>5. QED
        BY <3>2, <4>1, <4>2, <4>3, <4>4, Zenon DEF Sent
    <3>4. QED
      BY <3>1, <3>2, <3>3, Zenon DEF OutAgrees
  <2>3. CASE r # "ok"
    <3>1. left' = left /\ Sent' = Sent /\ bytes_tosend' = bytes_tosend
      BY <1>1, <1>5, <2>3, Zenon DEF Sent, bytes_tosend
    <3>2. IF devTog'["out"] = hrsl' THEN accepted' = Count(1, Sent)
          ELSE accepted' = Count(1, Sent + bytes_tosend)
      BY <1>4, <2>1, <2>3, Zenon
    <3>3. pc' = "idle" => rcode' # "ok"
      BY <1>5, <2>3, Zenon
    <3>4. OutAgrees'
      BY <3>1, <3>2, Zenon DEF OutAgrees
    <3>5. QED
      BY <1>6, <3>2, <3>3, <3>4, Zenon
  <2>4. QED
    BY <2>2, <2>3
<1>14. QED
  BY <1>7, <1>9, <1>10, <1>11, <1>12, <1>13, Zenon DEF TInv

(***************************************************************************)
(* Calls.                                                                  *)
(***************************************************************************)
LEMMA NothingCounted == Count(1, 0) = <<>> /\ \A a \in Nat : Count(a + 1, a) = <<>>
<1>1. ASSUME NEW a \in Nat PROVE Count(a + 1, a) = <<>>
  <2>1. Count(a + 1, a) \in Seq(Nat) /\ Len(Count(a + 1, a)) = 0
    <3>1. a + 1 \in Nat /\ a \in Int /\ ~(a >= a + 1)
      BY SMT
    <3>2. QED
      BY <3>1, CountIsSeq, Zenon
  <2>2. QED
    BY <2>1, EmptySeq, SMT
<1>2. 0 \in Nat /\ 0 + 1 = 1
  OBVIOUS
<1>3. Count(0 + 1, 0) = <<>>
  BY <1>1, <1>2, Zenon
<1>4. QED
  BY <1>1, <1>2, <1>3

LEMMA CallKeeps ==
  ASSUME TInv, NEW e \in Endpoint, NEW stage \in Stage, NEW t \in UInt16, NEW n \in Nat,
         \/ e = "ctrl" /\ stage = "setup" /\ n \in {t, BufSize}
         \/ e = "in" /\ stage = "in" /\ t = MaxPkt /\ n = MaxPkt
         \/ e = "out" /\ stage = "out" /\ t # 0,
         Call(e, stage, t, n)
  PROVE  TInv'
<1>1. TypeOK /\ PollInv /\ OutSync /\ pc = "idle"
  BY Zenon DEF TInv, Call
<1>2. TypeOK'
  BY <1>1, CallTypes, Zenon
<1>3. /\ pc' = stage /\ ep' = e /\ total' = t /\ nbytes' = n /\ left' = t
      /\ buf' = <<>> /\ got' = 0 /\ parsed' = <<>> /\ hrsl' = toggle[e]
      /\ accepted' = <<>>
      /\ doubt' = [doubt EXCEPT !.start = doubt.now]
      /\ UNCHANGED <<rcode, toggle, devTog, devNext, lost>>
  BY Zenon DEF Call
<1>4. Stages'
  <2>1. e = "out" => left' \in 1..total'
    <3>1. e = "out" => t # 0
      BY Zenon
    <3>2. t \in Nat
      BY Sizes
    <3>3. QED
      BY <1>3, <3>1, <3>2, SMT
  <2>2. e = "ctrl" => nbytes' \in {total', BufSize} /\ pc' = "setup"
    BY <1>3, Zenon
  <2>3. e = "in" => total' = MaxPkt /\ nbytes' = MaxPkt /\ pc' = "in"
    BY <1>3, Zenon
  <2>4. e = "out" => pc' = "out"
    BY <1>3, Zenon
  <2>5. e \in {"ctrl", "in", "out"}
    BY Zenon DEF Endpoint
  <2>6. total' \in UInt16
    BY <1>3
  <2>7. CASE e = "ctrl"
    BY <1>3, <2>2, <2>6, <2>7, Zenon DEF Stages
  <2>8. CASE e = "in"
    BY <1>3, <2>3, <2>6, <2>8, Zenon DEF Stages
  <2>9. CASE e = "out"
    BY <1>3, <2>1, <2>4, <2>6, <2>9, Zenon DEF Stages
  <2>10. QED
    BY <2>5, <2>7, <2>8, <2>9
<1>5. CtrlInv'
  <2>1. ep' = "ctrl" => pc' = "setup"
    BY <1>3, Zenon
  <2>2. QED
    BY <2>1, Zenon DEF CtrlInv
<1>6. PollInv'
  BY <1>1, <1>3, Zenon DEF PollInv
<1>7. doubt'.now = doubt.now /\ doubt'.start = doubt.now
  <2>1. doubt \in Doubt
    BY <1>1, Zenon DEF TypeOK
  <2>2. QED
    BY <1>3, <2>1 DEF Doubt
<1>8. pc' = "out" => ep' = "out" /\ hrsl' = toggle["out"]
  BY <1>3, Zenon
<1>9. OutSync'
  <2>1. doubt.now \/ toggle["out"] = devTog["out"]
    BY <1>1, Zenon DEF OutSync
  <2>2. QED
    BY <1>3, <1>7, <1>8, <2>1, Zenon DEF OutSync
<1>10. OutInv'
  <2> SUFFICES ASSUME ep' = "out", ~doubt'.start
               PROVE  pc' = "out" /\ devTog'["out"] = hrsl' /\ accepted' = Count(1, Sent')
    BY Zenon DEF OutInv
  <2>1. pc' = "out"
    BY <1>3, Zenon
  <2>2. devTog'["out"] = hrsl'
    BY <1>7, <1>8, <1>9, <2>1, Zenon DEF OutSync
  <2>3. Sent' = 0
    <3>1. Sent' = t - t /\ t \in Int
      BY <1>3, Sizes DEF Sent
    <3>2. QED
      BY <3>1, SMT
  <2>4. Count(1, 0) = <<>>
    BY NothingCounted
  <2>5. QED
    BY <1>3, <2>1, <2>2, <2>3, <2>4, Zenon
<1>11. QED
  BY <1>2, <1>4, <1>5, <1>6, <1>9, <1>10, Zenon DEF TInv

LEMMA CallsKeep ==
  ASSUME TInv, CallCtrl \/ CallPoll \/ CallOut
  PROVE  TInv'
<1>1. "ctrl" \in Endpoint /\ "in" \in Endpoint /\ "out" \in Endpoint
      /\ "setup" \in Stage /\ "in" \in Stage /\ "out" \in Stage
  BY Zenon DEF Endpoint, Stage
<1>2. CASE CallCtrl
  <2>1. PICK t \in Totals : \E n \in {t, BufSize} : Call("ctrl", "setup", t, n)
    BY <1>2, Zenon DEF CallCtrl
  <2>2. PICK n \in {t, BufSize} : Call("ctrl", "setup", t, n)
    BY <2>1
  <2>3. t \in UInt16 /\ n \in Nat
    BY Sizes, SMT
  <2>4. QED
    BY <1>1, <2>2, <2>3, CallKeeps, Zenon
<1>3. CASE CallPoll
  <2>1. Call("in", "in", MaxPkt, MaxPkt)
    BY <1>3, Zenon DEF CallPoll
  <2>2. MaxPkt \in UInt16 /\ MaxPkt \in Nat
    BY Sizes
  <2>3. QED
    BY <1>1, <2>1, <2>2, CallKeeps, Zenon
<1>4. CASE CallOut
  <2>1. PICK n \in OutSizes : Call("out", "out", n, n)
    BY <1>4, Zenon DEF CallOut
  <2>2. n \in UInt16 /\ n \in Nat /\ n # 0
    BY Sizes, SMT
  <2>3. QED
    BY <1>1, <2>1, <2>2, CallKeeps, Zenon
<1>5. QED
  BY <1>2, <1>3, <1>4

(***************************************************************************)
(* Control requests and polls.                                             *)
(***************************************************************************)

\* What is said of the two bulk endpoints is not touched by a step of another.
LEMMA OthersKeep ==
  ASSUME TInv, pc # "out", pc' # "out", UNCHANGED <<ep, doubt>>, ep # "out",
         toggle'["out"] = toggle["out"], devTog'["out"] = devTog["out"]
  PROVE  OutSync' /\ OutInv'
<1>1. OutSync'
  BY Zenon DEF TInv, OutSync
<1>2. OutInv'
  BY Zenon DEF OutInv
<1>3. QED
  BY <1>1, <1>2

LEMMA SetupKeeps ==
  ASSUME TInv, Setup
  PROVE  TInv'
<1>1. /\ TypeOK /\ Stages /\ PollInv /\ pc = "setup" /\ ep = "ctrl"
      /\ nbytes \in {total, BufSize} /\ left = total /\ buf = <<>> /\ got = 0 /\ parsed = <<>>
      /\ total \in UInt16
      /\ UNCHANGED <<ep, total, nbytes, left, buf, got, parsed, late, accepted, lost, doubt>>
  BY Zenon DEF TInv, Setup, Stages, arguments
<1>2. TypeOK'
  BY <1>1, SetupTypes, Zenon
<1>3. /\ total \in Nat /\ total - left = 0 /\ total - left \in Nat
      /\ toggle \in [Endpoint -> Bit] /\ devTog \in [Endpoint -> Bit] /\ devNext \in Place
  <2>1. toggle \in [Endpoint -> Bit] /\ devTog \in [Endpoint -> Bit] /\ devNext \in Place
    BY <1>1, Zenon DEF TypeOK
  <2>2. total \in Nat
    BY <1>1, Zenon DEF TypeOK
  <2>3. QED
    BY <1>1, <2>1, <2>2, SMT
<1>4. "ctrl" \in Endpoint /\ "in" \in Endpoint /\ "out" \in Endpoint
  BY Zenon DEF Endpoint
<1>5. CASE /\ pc' = IF total = 0 THEN "status" ELSE "in"
           /\ toggle' = [toggle EXCEPT !["ctrl"] = 1]
           /\ hrsl' = 1
           /\ devTog' = [devTog EXCEPT !["ctrl"] = 1]
           /\ devNext' = [devNext EXCEPT !.ctrl = 1]
           /\ Fresh
           /\ UNCHANGED <<rcode, troubled>>
  <2>1. /\ toggle'["in"] = toggle["in"] /\ toggle'["out"] = toggle["out"]
        /\ devTog'["in"] = devTog["in"] /\ devTog'["out"] = devTog["out"]
        /\ devTog'["ctrl"] = 1
    BY <1>3, <1>4, <1>5, Zenon
  <2>2. devNext'.ctrl = 1
    BY <1>3, <1>5 DEF Place
  <2>3. pc' = "in" => total > 0 /\ got = Len(buf) /\ got < nbytes
    <3>1. pc' = "in" => total # 0
      BY <1>5, Zenon
    <3>2. QED
      BY <1>1, <1>3, <3>1, Sizes, EmptySeq, SMT
  <2>4. pc' \in {"status", "in"}
    BY <1>5, Zenon
  <2>5. Stages'
    <3>1. Multiple(got, MaxPkt)
      BY <1>1, Sizes, NoneBelow, Zenon
    <3>2. QED
      BY <1>1, <2>3, <2>4, <3>1, Zenon DEF Stages
  <2>6. pc' = "in" => InSync'
    <3> SUFFICES ASSUME pc' = "in" PROVE InSync'
      OBVIOUS
    <3>1. /\ left \in 1..total /\ got <= left /\ 1 = (total - left) + got + 1
          /\ (total - left) + 1 = 1 /\ (total - left) + got = 0 /\ nbytes \in Nat \ {0}
      BY <1>1, <1>3, <2>3, Sizes, SMT
    <3>2. Multiple(total - left, nbytes)
      BY <1>3, <3>1, NoneBelow, Zenon
    <3>3. parsed = Count(1, total - left)
      BY <1>1, <1>3, NothingCounted, Zenon
    <3>4. buf = Count((total - left) + 1, (total - left) + got)
      BY <1>1, <3>1, NothingCounted, Zenon
    <3>5. devTog'["ctrl"] = hrsl' /\ devNext'.ctrl = (total - left) + got + 1
      BY <1>5, <2>1, <2>2, <3>1, Zenon
    <3>6. QED
      BY <1>1, <3>1, <3>2, <3>3, <3>4, <3>5, Zenon DEF InSync
  <2>7. pc' = "status" => left = 0 /\ total = 0 /\ parsed = Count(1, total)
    <3>1. pc' = "status" => total = 0
      BY <1>5, Zenon
    <3>2. QED
      BY <1>1, <3>1, NothingCounted, Zenon
  <2>8. CtrlInv'
    BY <1>1, <2>4, <2>6, <2>7, Zenon DEF CtrlInv
  <2>9. PollInv'
    BY <1>1, <2>1, Zenon DEF PollInv
  <2>10. OutSync' /\ OutInv'
    <3>1. pc # "out" /\ pc' # "out" /\ ep # "out"
      BY <1>1, <2>4, Zenon
    <3>2. QED
      BY <1>1, <2>1, <3>1, OthersKeep, Zenon
  <2>11. QED
    BY <1>2, <2>5, <2>8, <2>9, <2>10, Zenon DEF TInv
<1>6. CASE /\ Fails("timeout") /\ troubled' = TRUE
           /\ UNCHANGED <<toggle, hrsl, devTog, devNext>>
  <2>1. (pc' = "idle" /\ rcode' = "timeout") \/ UNCHANGED <<pc, rcode>>
    BY <1>1, <1>6, FailsTo, Zenon DEF Result
  <2>2. pc' \in {"idle", "setup"} /\ (pc' = "idle" => rcode' # "ok")
    BY <1>1, <2>1, Zenon
  <2>3. Stages'
    BY <1>1, <2>2, Zenon DEF Stages
  <2>4. parsed = Count(1, total - left) /\ left <= total
    <3>1. left <= total
      BY <1>1, <1>3, SMT
    <3>2. QED
      BY <1>1, <1>3, <3>1, NothingCounted, Zenon
  <2>5. CtrlInv'
    BY <1>1, <1>6, <2>2, <2>4, Zenon DEF CtrlInv
  <2>6. PollInv'
    BY <1>1, <1>6, Zenon DEF PollInv
  <2>7. OutSync' /\ OutInv'
    <3>1. pc # "out" /\ pc' # "out" /\ ep # "out"
      BY <1>1, <2>2, Zenon
    <3>2. QED
      BY <1>1, <1>6, <3>1, OthersKeep, Zenon
  <2>8. QED
    BY <1>2, <2>3, <2>5, <2>6, <2>7, Zenon DEF TInv
<1>7. QED
  BY <1>5, <1>6, Zenon DEF Setup

LEMMA ReadPlace ==
  ASSUME TypeOK, Stages, pc = "in", ep = "ctrl", InSync
  PROVE  /\ total \in Nat \ {0} /\ left \in 1..total /\ nbytes \in {total, BufSize}
         /\ got \in 0..left /\ got < nbytes /\ PieceAt(total, left, nbytes, got)
<1>1. total \in Nat /\ got \in Nat
  BY Zenon DEF TypeOK
<1>2. /\ total > 0 /\ left \in 1..total /\ nbytes \in {total, BufSize} /\ got <= left
      /\ got < nbytes /\ Multiple(got, MaxPkt) /\ Multiple(total - left, nbytes)
  BY Zenon DEF Stages, InSync
<1>3. total \in Nat \ {0} /\ got \in 0..left
  BY <1>1, <1>2, SMT
<1>4. QED
  BY <1>2, <1>3, Zenon DEF PieceAt

\* A piece that the device has no packet for is the last of a badly sized read.
LEMMA StuckIsBadlySized ==
  ASSUME TypeOK, Stages, pc = "in", ep = "ctrl", InSync, Packet = <<>>
  PROVE  ~WellSized
<1>1. /\ total \in Nat \ {0} /\ left \in 1..total /\ nbytes \in {total, BufSize}
      /\ got \in 0..left /\ got < nbytes /\ PieceAt(total, left, nbytes, got)
  BY ReadPlace
<1>2. left = got
  BY PacketInSync, Zenon
<1>3. Multiple(total, MaxPkt) /\ ~Multiple(total, nbytes)
  <2>1. PieceGrows(total, left, nbytes, got, NextSize(left, got))
    BY <1>1, PieceArith, Zenon
  <2>2. QED
    BY <1>2, <2>1, Zenon DEF PieceGrows
<1>4. QED
  BY <1>3, Zenon DEF Multiple, WellSized

LEMMA InFailsKeeps ==
  ASSUME TInv, InFails
  PROVE  TInv'
<1>1. /\ TypeOK /\ Stages /\ PollInv /\ CtrlInv /\ pc = "in" /\ ep \in {"ctrl", "in"}
      /\ troubled' = (troubled \/ Packet # <<>>)
      /\ UNCHANGED <<ep, total, nbytes, left, buf, got, parsed, late, toggle, hrsl, devTog,
                     devNext, accepted, lost, doubt>>
  BY Zenon DEF TInv, InFails, Stages, arguments, device
<1>2. TypeOK'
  BY <1>1, InFailsTypes, Zenon
<1>3. PICK r \in {"nak", "timeout", "stall"} : Fails(r)
  BY Zenon DEF InFails
<1>4. (pc' = "idle" /\ rcode' = r) \/ UNCHANGED <<pc, rcode>>
  <2>1. r \in Result
    BY Zenon DEF Result
  <2>2. QED
    BY <1>1, <1>3, <2>1, FailsTo, Zenon
<1>5. pc' \in {"idle", "in"} /\ (pc' = "idle" => rcode' # "ok")
  <2>1. r # "ok"
    OBVIOUS
  <2>2. QED
    BY <1>1, <1>4, <2>1, Zenon
<1>6. Stages'
  BY <1>1, <1>5, Zenon DEF Stages
<1>7. (InSync => InSync') /\ (Repeats => Repeats')
  BY <1>1, Zenon DEF InSync, Repeats, Packet
<1>8. CtrlInv'
  <2> SUFFICES ASSUME ep = "ctrl" PROVE CtrlInv'
    BY <1>1, Zenon DEF CtrlInv
  <2>1. (lost = 0 => InSync) /\ (troubled \/ InSync \/ Repeats)
    BY <1>1, Zenon DEF CtrlInv
  <2>2. InSync => parsed = Count(1, total - left) /\ left <= total
    <3>1. InSync => left \in 1..total /\ parsed = Count(1, total - left)
      BY Zenon DEF InSync
    <3>2. left \in 1..total => left <= total
      BY SMT
    <3>3. QED
      BY <3>1, <3>2
  <2>3. troubled' \/ (InSync /\ Packet = <<>>)
    BY <1>1, <2>1, Zenon DEF Repeats
  <2>4. WellSized' <=> WellSized
    BY <1>1, Zenon DEF WellSized
  <2>5. troubled' \/ ~WellSized'
    BY <1>1, <2>3, <2>4, StuckIsBadlySized, Zenon
  <2>6. troubled' \/ InSync' \/ Repeats'
    BY <1>7, <2>3, Zenon
  <2>7. QED
    BY <1>1, <1>5, <1>7, <2>1, <2>2, <2>5, <2>6, Zenon DEF CtrlInv
<1>9. PollInv'
  BY <1>1, <1>5, Zenon DEF PollInv
<1>10. OutSync' /\ OutInv'
  <2>1. pc # "out" /\ pc' # "out" /\ ep # "out"
    BY <1>1, <1>5, Zenon
  <2>2. QED
    BY <1>1, <2>1, OthersKeep, Zenon
<1>11. QED
  BY <1>2, <1>6, <1>8, <1>9, <1>10, Zenon DEF TInv

\* A packet with the wrong toggle comes only after a lost acknowledgement.
LEMMA InToggleErrorKeeps ==
  ASSUME TInv, InToggleError
  PROVE  TInv' /\ lost # 0 /\ UNCHANGED lost
<1>1. /\ TypeOK /\ Stages /\ PollInv /\ CtrlInv /\ pc = "in" /\ ep \in {"ctrl", "in"}
      /\ devTog[ep] # hrsl
      /\ DeviceAdvances \/ UNCHANGED <<devTog, devNext>>
      /\ toggle' = [toggle EXCEPT ![ep] = 1 - hrsl]
      /\ troubled' = (troubled \/ lost > 0)
      /\ UNCHANGED <<pc, ep, total, nbytes, left, buf, got, parsed, late, rcode, accepted, lost, doubt>>
  BY Zenon DEF TInv, InToggleError, Stages, arguments
<1>2. TypeOK'
  BY <1>1, InToggleErrorTypes, Zenon
<1>3. lost # 0
  BY <1>1, Zenon DEF CtrlInv, PollInv, InSync
<1>4. troubled'
  <2>1. lost > 0
    <3>1. lost \in 0..MaxLost
      BY <1>1, Zenon DEF TypeOK
    <3>2. QED
      BY <1>3, <3>1, Sizes, SMT
  <2>2. QED
    BY <1>1, <2>1, Zenon
<1>5. Stages'
  BY <1>1, Zenon DEF Stages
<1>6. CtrlInv'
  BY <1>1, <1>3, <1>4, Zenon DEF CtrlInv
<1>7. PollInv'
  BY <1>1, <1>3, Zenon DEF PollInv
<1>8. OutSync' /\ OutInv'
  <2>1. pc # "out" /\ pc' # "out" /\ ep # "out" /\ "out" \in Endpoint /\ ep \in Endpoint
    BY <1>1, Zenon DEF Endpoint
  <2>2. toggle \in [Endpoint -> Bit] /\ devTog \in [Endpoint -> Bit]
    BY <1>1, Zenon DEF TypeOK
  <2>3. toggle'["out"] = toggle["out"]
    BY <1>1, <2>1, <2>2, Zenon
  <2>4. devTog'["out"] = devTog["out"]
    BY <1>1, <2>1, <2>2, Zenon DEF DeviceAdvances
  <2>5. QED
    BY <1>1, <2>1, <2>3, <2>4, OthersKeep, Zenon
<1>9. QED
  BY <1>1, <1>2, <1>3, <1>5, <1>6, <1>7, <1>8, Zenon DEF TInv

LEMMA StatusKeeps ==
  ASSUME TInv, Status
  PROVE  TInv'
<1>1. /\ TypeOK /\ Stages /\ PollInv /\ CtrlInv /\ pc = "status" /\ ep = "ctrl"
      /\ total \in Nat
      /\ UNCHANGED <<ep, total, nbytes, left, buf, got, parsed, late, toggle, hrsl, devTog,
                     devNext, accepted, lost, doubt>>
  BY Zenon DEF TInv, TypeOK, Status, Stages, arguments, device
<1>2. TypeOK'
  BY <1>1, StatusTypes, Zenon
<1>3. \/ pc' = "idle" /\ rcode' = "ok" /\ UNCHANGED troubled
      \/ troubled' /\ \/ pc' = "idle" /\ rcode' # "ok"
                      \/ UNCHANGED <<pc, rcode>>
  <2>1. CASE Return("ok") /\ UNCHANGED troubled
    BY <2>1, Zenon DEF Return
  <2>2. CASE \E r \in {"nak", "timeout", "stall"} : Fails(r) /\ troubled' = TRUE
    <3>1. PICK r \in {"nak", "timeout", "stall"} : Fails(r) /\ troubled' = TRUE
      BY <2>2
    <3>2. r \in Result /\ r # "ok"
      BY Zenon DEF Result
    <3>3. QED
      BY <1>1, <3>1, <3>2, FailsTo, Zenon
  <2>3. QED
    BY <2>1, <2>2, Zenon DEF Status
<1>4. pc' \in {"idle", "status"}
  BY <1>1, <1>3, Zenon
<1>5. Stages'
  BY <1>1, <1>4, Zenon DEF Stages
<1>6. CtrlInv'
  <2>1. /\ lost = 0 => left = 0 /\ parsed = Count(1, total)
        /\ troubled \/ total = 0 \/ WellSized
    BY <1>1, Zenon DEF CtrlInv
  <2>2. left = 0 => total - left = total /\ left <= total
    BY <1>1, SMT
  <2>3. lost = 0 => parsed = Count(1, total - left) /\ left <= total
    BY <2>1, <2>2, Zenon
  <2>4. WellSized' <=> WellSized
    BY <1>1, Zenon DEF WellSized
  <2>5. QED
    BY <1>1, <1>3, <1>4, <2>1, <2>3, <2>4, Zenon DEF CtrlInv
<1>7. PollInv'
  BY <1>1, <1>4, Zenon DEF PollInv
<1>8. OutSync' /\ OutInv'
  <2>1. pc # "out" /\ pc' # "out" /\ ep # "out"
    BY <1>1, <1>4, Zenon
  <2>2. QED
    BY <1>1, <2>1, OthersKeep, Zenon
<1>9. QED
  BY <1>2, <1>5, <1>6, <1>7, <1>8, Zenon DEF TInv

\* The packet of a read that is in sync continues the data.
LEMMA DataInSync ==
  ASSUME TypeOK, Stages, pc = "in", ep = "ctrl", InSync, NEW k, k = NextSize(left, got)
  PROVE  /\ Pktsize = k /\ Len(Packet) = k /\ (Packet # <<>> => k > 0)
         /\ Data = Count((total - left) + 1, (total - left) + (got + k))
<1>1. /\ total \in Nat \ {0} /\ left \in 1..total /\ nbytes \in {total, BufSize}
      /\ got \in 0..left /\ got < nbytes /\ PieceAt(total, left, nbytes, got)
  BY ReadPlace
<1>2. nbytes \in Nat \ {0} /\ k \in 0..MaxPkt /\ got + k <= nbytes /\ got + k <= left
  <2>1. PieceGrows(total, left, nbytes, got, k)
    BY <1>1, PieceArith, Zenon
  <2>2. QED
    BY <2>1, Zenon DEF PieceGrows
<1> DEFINE s == total - left
           a == s + got + 1
           b == s + got + k
<1>3. /\ Packet = Count(a, b) /\ Len(Packet) = k
      /\ Packet = <<>> <=> left = got
  BY PacketInSync, Zenon
<1>4. buf = Count(s + 1, s + got) /\ got = Len(buf)
  BY Zenon DEF InSync, Stages
<1>5. /\ s \in Nat /\ a \in Nat /\ b \in Nat /\ k \in Nat /\ k = b - a + 1 /\ s + 1 \in Nat
      /\ s + got \in Nat /\ s + 1 <= (s + got) + 1 /\ s + got <= b /\ a = (s + got) + 1
      /\ b = s + (got + k)
      /\ Smaller(k, nbytes) = k /\ Smaller(k, nbytes - got) = k
      /\ (left # got => k > 0)
  <2>1. MaxPkt \in Nat \ {0}
    BY Sizes
  <2>2. total \in Nat /\ left \in 1..total /\ got \in Nat /\ k \in Nat /\ k <= nbytes - got
    BY <1>1, <1>2, <2>1, SMT
  <2>3. /\ s \in Nat /\ a \in Nat /\ b \in Nat /\ k \in Nat /\ k = b - a + 1 /\ s + 1 \in Nat
        /\ s + got \in Nat /\ s + 1 <= (s + got) + 1 /\ s + got <= b /\ a = (s + got) + 1
        /\ b = s + (got + k)
    BY <2>2, SMT
  <2>4. Smaller(k, nbytes) = k /\ Smaller(k, nbytes - got) = k
    BY <1>2, <2>2, SMT DEF Smaller
  <2>5. left # got => k > 0
    BY <1>1, <2>1, SMT DEF NextSize, Smaller
  <2>6. QED
    BY <2>3, <2>4, <2>5, Zenon
<1>6. Pktsize = k
  BY <1>3, <1>5, Zenon DEF Pktsize
<1> HIDE DEF s, a, b
<1>7. SubSeq(Packet, 1, k) = Packet
  BY <1>3, <1>5, CountSub, Zenon
<1>8. Count(s + 1, s + got) \o Count((s + got) + 1, b) = Count(s + 1, b)
  BY <1>5, CountConcat, Zenon
<1>9. Data = Count(s + 1, b)
  BY <1>3, <1>4, <1>5, <1>6, <1>7, <1>8, Zenon DEF Data
<1>10. QED
  BY <1>3, <1>5, <1>6, <1>9, Zenon DEF s

LEMMA AdvanceCtrl ==
  ASSUME TypeOK, ep = "ctrl", DeviceAdvances
  PROVE  /\ devTog'["ctrl"] = 1 - devTog["ctrl"]
         /\ devTog'["in"] = devTog["in"] /\ devTog'["out"] = devTog["out"]
         /\ devNext'.ctrl = devNext.ctrl + Len(Packet) /\ devNext'.in = devNext.in
<1>1. devTog \in [Endpoint -> Bit] /\ devNext \in Place
  BY Zenon DEF TypeOK
<1>2. "ctrl" \in Endpoint /\ "in" \in Endpoint /\ "out" \in Endpoint
  BY Zenon DEF Endpoint
<1> DEFINE k == Len(Packet)
<1>3. devTog' = [devTog EXCEPT !["ctrl"] = 1 - devTog["ctrl"]]
      /\ devNext' = [devNext EXCEPT !.ctrl = devNext.ctrl + k]
  BY Zenon DEF DeviceAdvances
<1> HIDE DEF k
<1>4. devNext'.ctrl = devNext.ctrl + k /\ devNext'.in = devNext.in
  BY <1>1, <1>3 DEF Place
<1>5. QED
  BY <1>1, <1>2, <1>3, <1>4, Zenon DEF k

\* The two ends of a step of a control read: a piece ends, or goes on.
PieceEnds ==
  /\ Pktsize < MaxPkt \/ got + Pktsize >= nbytes
  /\ parsed' = parsed \o Data /\ buf' = <<>> /\ got' = 0
  /\ left' = LeftAfter(got + Pktsize)
  /\ pc' = IF got + Pktsize < nbytes \/ left' = 0 THEN "status" ELSE "in"

PieceGoesOn ==
  /\ ~(Pktsize < MaxPkt \/ got + Pktsize >= nbytes)
  /\ buf' = Data /\ got' = got + Pktsize
  /\ UNCHANGED <<pc, parsed, left>>

LEMMA CtrlTakes ==
  ASSUME TypeOK, pc = "in", ep = "ctrl", InTakes
  PROVE  /\ PieceEnds \/ PieceGoesOn
         /\ hrsl' = 1 - hrsl /\ UNCHANGED rcode
         /\ toggle'["in"] = toggle["in"] /\ toggle'["out"] = toggle["out"]
<1>1. CASE /\ Pktsize < MaxPkt \/ got + Pktsize >= nbytes
           /\ Received(Data, got + Pktsize)
  <2>1. SaveToggle /\ hrsl' = toggle'[ep] /\ PieceEnds /\ UNCHANGED rcode
    BY <1>1, Zenon DEF Received, PieceEnds
  <2>2. "in" \in Endpoint /\ "out" \in Endpoint
    BY Zenon DEF Endpoint
  <2>3. QED
    BY <2>1, <2>2, SaveToggleTypes, Zenon
<1>2. CASE /\ ~(Pktsize < MaxPkt \/ got + Pktsize >= nbytes)
           /\ hrsl' = 1 - hrsl /\ buf' = Data /\ got' = got + Pktsize
           /\ UNCHANGED <<pc, rcode, parsed, left, toggle>>
  BY <1>2, Zenon DEF PieceGoesOn
<1>3. QED
  BY <1>1, <1>2, Zenon DEF InTakes

\* From a read in sync the bytes come in order, and a read that ends here is
\* well sized and complete.
LEMMA PieceInSync ==
  ASSUME TypeOK, Stages, pc = "in", ep = "ctrl", InSync, Packet # <<>>,
         PieceEnds \/ PieceGoesOn, UNCHANGED <<ep, total, nbytes>>
  PROVE  /\ pc' \in {"in", "status"}
         /\ pc' = "status" => left' = 0 /\ parsed' = Count(1, total) /\ WellSized
         /\ pc' = "in" =>
              /\ left' \in 1..total /\ got' <= left'
              /\ devNext.ctrl + Len(Packet) = (total - left') + got' + 1
              /\ Multiple(total - left', nbytes)
              /\ parsed' = Count(1, total - left')
              /\ buf' = Count((total - left') + 1, (total - left') + got')
<1> DEFINE s == total - left
<1>1. /\ total \in Nat \ {0} /\ left \in 1..total /\ nbytes \in {total, BufSize}
      /\ got \in 0..left /\ got < nbytes /\ PieceAt(total, left, nbytes, got)
  BY ReadPlace
<1>2. PICK k : k = NextSize(left, got)
  OBVIOUS
<1>3. /\ nbytes \in Nat \ {0} /\ k \in 0..MaxPkt /\ got + k <= nbytes /\ got + k <= left
      /\ 0 < k /\ k < MaxPkt => left = got + k /\ ~Multiple(total, MaxPkt)
      /\ got + k = nbytes => Multiple(total - (left - nbytes), nbytes)
      /\ got + k = nbytes /\ left = nbytes => Multiple(total, nbytes)
  <2>1. PieceGrows(total, left, nbytes, got, k)
    BY <1>1, <1>2, PieceArith, Zenon
  <2>2. QED
    BY <2>1, Zenon DEF PieceGrows
<1>4. /\ Pktsize = k /\ Len(Packet) = k /\ k > 0 /\ Data = Count(s + 1, s + (got + k))
  BY <1>2, DataInSync, Zenon
<1>5. /\ devNext.ctrl = s + got + 1 /\ parsed = Count(1, s)
  BY Zenon DEF InSync
<1>6. left \in UInt16 /\ MaxPkt \in Nat
  BY Sizes, Zenon DEF TypeOK
<1> DEFINE read == got + k
<1>7. /\ s \in Nat /\ read \in 0..left /\ s + read \in Nat /\ s <= s + read /\ 1 <= s + 1
      /\ 1 \in Nat /\ left - read \in 0..total /\ total - (left - read) = s + read
      /\ (left - read = 0 => s + read = total)
      /\ devNext.ctrl + k = s + read + 1
  BY <1>1, <1>3, <1>5, SMT
<1>8. CASE PieceEnds
  <2>1. /\ k < MaxPkt \/ read >= nbytes
        /\ parsed' = Count(1, s) \o Count(s + 1, s + read) /\ buf' = <<>> /\ got' = 0
        /\ left' = LeftAfter(read)
        /\ pc' = IF read < nbytes \/ left' = 0 THEN "status" ELSE "in"
    BY <1>4, <1>5, <1>8, Zenon DEF PieceEnds
  <2>2. left' = left - read
    BY <1>6, <1>7, <2>1, NoWrap, Zenon DEF LeftAfter
  <2> HIDE DEF s, read
  <2>3. parsed' = Count(1, s + read)
    BY <1>7, <2>1, CountConcat, Zenon
  <2>4. read < nbytes => k < MaxPkt
    <3>1. read < nbytes => ~(read >= nbytes)
      BY <1>1, <1>3, <1>7, SMT
    <3>2. QED
      BY <2>1, <3>1, Zenon
  <2>5. read < nbytes => left' = 0 /\ ~Multiple(total, MaxPkt)
    <3>1. 0 < k
      BY <1>3, <1>4, SMT
    <3>2. left = read => left - read = 0
      BY <1>7, SMT
    <3>3. QED
      BY <1>3, <2>2, <2>4, <3>1, <3>2, Zenon DEF read
  <2>6. ~(read < nbytes) => read = nbytes
    BY <1>3, <1>7, SMT DEF read
  <2>7. read = nbytes /\ left' = 0 => Multiple(total, nbytes)
    <3>1. left - read = 0 => left = read
      BY <1>1, <1>7, SMT
    <3>2. QED
      BY <1>3, <2>2, <3>1, Zenon DEF read
  <2>8. CASE pc' = "status"
    <3>1. left' = 0 /\ (~Multiple(total, MaxPkt) \/ Multiple(total, nbytes))
      BY <2>1, <2>5, <2>6, <2>7, <2>8, Zenon
    <3>2. WellSized
      BY <3>1, Zenon DEF WellSized, Multiple
    <3>3. parsed' = Count(1, total)
      BY <1>7, <2>2, <2>3, <3>1, Zenon
    <3>4. QED
      BY <2>8, <3>1, <3>2, <3>3, Zenon
  <2>9. CASE pc' = "in"
    <3>1. left' # 0 /\ read = nbytes
      BY <2>1, <2>6, <2>9, Zenon
    <3>2. Multiple(total - left', nbytes)
      BY <1>3, <2>2, <3>1, Zenon DEF read
    <3>3. left' \in 1..total
      BY <1>7, <2>2, <3>1, SMT
    <3>4. total - left' = s + read
      BY <1>7, <2>2, Zenon
    <3>5. got' <= left' /\ s + read + 1 = (s + read) + got' + 1 /\ (s + read) + got' = s + read
      BY <1>7, <2>1, <3>3, SMT
    <3>6. buf' = Count((s + read) + 1, (s + read) + got')
      BY <1>7, <2>1, <3>5, NothingCounted, Zenon
    <3>7. QED
      BY <1>4, <1>7, <2>3, <2>9, <3>2, <3>3, <3>4, <3>5, <3>6, Zenon
  <2>10. QED
    BY <2>1, <2>8, <2>9, Zenon
<1>9. CASE PieceGoesOn
  <2>1. buf' = Count(s + 1, s + read) /\ got' = read /\ UNCHANGED <<pc, parsed, left>>
    BY <1>4, <1>9, Zenon DEF PieceGoesOn
  <2>2. read <= left
    BY <1>7, SMT
  <2>3. devNext.ctrl + Len(Packet) = s + read + 1
    BY <1>4, <1>7, Zenon
  <2> HIDE DEF read
  <2>4. s = total - left
    OBVIOUS
  <2> HIDE DEF s
  <2>5. pc' = "in" /\ pc' # "status"
    BY <2>1, Zenon
  <2>6. total - left' = s /\ left' = left
    BY <2>1, <2>4, Zenon
  <2>7. Multiple(s, nbytes)
    BY <1>1, Zenon DEF PieceAt, s
  <2>8. QED
    BY <1>1, <1>5, <2>1, <2>2, <2>3, <2>5, <2>6, <2>7, Zenon
<1>10. QED
  BY <1>8, <1>9

\* A packet leaves the stage of a control read as the invariant wants it, lost
\* acknowledgements or not.
LEMMA PieceStages ==
  ASSUME TypeOK, Stages, pc = "in", ep = "ctrl", PieceEnds \/ PieceGoesOn,
         UNCHANGED <<ep, total, nbytes>>
  PROVE  Stages' /\ pc' \in {"in", "status"}
<1>1. /\ total \in UInt16 /\ total > 0 /\ nbytes \in {total, BufSize} /\ nbytes \in Nat
      /\ got = Len(buf) /\ got \in Nat /\ got < nbytes /\ Multiple(got, MaxPkt)
      /\ MaxPkt \in Nat \ {0} /\ MaxPkt \in Nat
  BY Sizes, Zenon DEF TypeOK, Stages
<1>2. CASE PieceEnds
  <2>1. pc' \in {"in", "status"} /\ buf' = <<>> /\ got' = 0
    BY <1>2, Zenon DEF PieceEnds
  <2>2. got' = Len(buf') /\ got' < nbytes
    BY <1>1, <2>1, EmptySeq, SMT
  <2>3. Multiple(got', MaxPkt)
    BY <1>1, <2>1, NoneBelow, Zenon
  <2>4. QED
    BY <1>1, <2>1, <2>2, <2>3, Zenon DEF Stages
<1>3. CASE PieceGoesOn
  <2>1. /\ ~(Pktsize < MaxPkt \/ got + Pktsize >= nbytes)
        /\ buf' = Data /\ got' = got + Pktsize /\ pc' = "in"
    BY <1>3, Zenon DEF PieceGoesOn
  <2>2. Pktsize \in 0..MaxPkt /\ (Pktsize + Len(buf) < nbytes => Len(Data) = Len(buf) + Pktsize)
    BY DataType, Zenon
  <2>3. Pktsize = MaxPkt /\ Pktsize + got < nbytes /\ got + Pktsize < nbytes
    BY <1>1, <2>1, <2>2, SMT
  <2>4. got' = Len(buf') /\ got' < nbytes
    BY <1>1, <2>1, <2>2, <2>3, Zenon
  <2>5. Multiple(got + MaxPkt, MaxPkt)
    BY <1>1, AddsUp, NoneBelow, Zenon
  <2>6. QED
    BY <1>1, <2>1, <2>3, <2>4, <2>5, Zenon DEF Stages
<1>4. QED
  BY <1>2, <1>3

\* A lost acknowledgement is counted for good.
LEMMA LostCounts ==
  ASSUME TypeOK
  PROVE  /\ lost' = lost + 1 => lost' > 0 /\ lost' # 0
         /\ lost # 0 => lost > 0
<1>1. lost \in Nat
  <2>1. lost \in 0..MaxLost
    BY Zenon DEF TypeOK
  <2>2. QED
    BY <2>1, SMT
<1>2. QED
  BY <1>1, SMT

LEMMA InDataCtrl ==
  ASSUME TInv, InData, ep = "ctrl"
  PROVE  TInv' /\ UNCHANGED devNext.in
<1>1. /\ TypeOK /\ Stages /\ PollInv /\ CtrlInv /\ pc = "in"
      /\ Packet # <<>> /\ devTog["ctrl"] = hrsl
      /\ \/ DeviceAdvances /\ UNCHANGED lost
         \/ lost < MaxLost /\ lost' = lost + 1 /\ UNCHANGED <<devTog, devNext>>
      /\ InTakes
      /\ UNCHANGED <<ep, total, nbytes, late, accepted, troubled, doubt>>
  BY InDataParts, Zenon DEF TInv
<1>2. TypeOK'
  BY <1>1, InDataTypes, Zenon
<1>3. /\ PieceEnds \/ PieceGoesOn
      /\ hrsl' = 1 - hrsl /\ UNCHANGED rcode
      /\ toggle'["in"] = toggle["in"] /\ toggle'["out"] = toggle["out"]
  BY <1>1, CtrlTakes, Zenon
<1>4. Stages' /\ pc' \in {"in", "status"}
  BY <1>1, <1>3, PieceStages, Zenon
<1>5. /\ lost = 0 => InSync
      /\ troubled \/ InSync
  BY <1>1, Zenon DEF CtrlInv, Repeats
<1>6. InSync =>
        /\ pc' = "status" => left' = 0 /\ parsed' = Count(1, total) /\ WellSized
        /\ pc' = "in" =>
             /\ left' \in 1..total /\ got' <= left'
             /\ devNext.ctrl + Len(Packet) = (total - left') + got' + 1
             /\ Multiple(total - left', nbytes)
             /\ parsed' = Count(1, total - left')
             /\ buf' = Count((total - left') + 1, (total - left') + got')
  BY <1>1, <1>3, PieceInSync, Zenon
<1>7. WellSized' <=> WellSized
  BY <1>1, Zenon DEF WellSized
<1>8. /\ lost' = lost + 1 => lost' > 0 /\ lost' # 0
      /\ lost # 0 => lost > 0
  BY <1>1, LostCounts, Zenon
<1>9. hrsl' # hrsl
  <2>1. hrsl \in Bit
    BY <1>1, Zenon DEF TypeOK
  <2>2. QED
    BY <1>3, <2>1, BitFlips, Zenon
<1>10. ASSUME DeviceAdvances, UNCHANGED lost
       PROVE  CtrlInv' /\ PollInv' /\ devTog'["out"] = devTog["out"] /\ UNCHANGED devNext.in
  <2>1. /\ devTog'["ctrl"] = 1 - devTog["ctrl"]
        /\ devTog'["in"] = devTog["in"] /\ devTog'["out"] = devTog["out"]
        /\ devNext'.ctrl = devNext.ctrl + Len(Packet) /\ devNext'.in = devNext.in
    BY <1>1, <1>10, AdvanceCtrl, Zenon
  <2>2. devTog'["ctrl"] = hrsl'
    BY <1>1, <1>3, <2>1, Zenon
  <2>3. InSync /\ pc' = "in" => InSync'
    BY <1>1, <1>6, <2>1, <2>2, Zenon DEF InSync
  <2>4. CtrlInv'
    BY <1>1, <1>4, <1>5, <1>6, <1>7, <1>10, <2>3, Zenon DEF CtrlInv
  <2>5. PollInv'
    BY <1>1, <1>3, <1>10, <2>1, Zenon DEF PollInv
  <2>6. QED
    BY <2>1, <2>4, <2>5
<1>11. ASSUME lost' = lost + 1, UNCHANGED <<devTog, devNext>>
       PROVE  CtrlInv' /\ PollInv' /\ devTog'["out"] = devTog["out"] /\ UNCHANGED devNext.in
  <2>1. Packet' = Packet
    BY <1>1, <1>11, Zenon DEF Packet
  <2>2. Repeats'
    BY <1>1, <1>8, <1>9, <1>11, <2>1, Zenon DEF Repeats
  <2>3. CtrlInv'
    BY <1>1, <1>4, <1>5, <1>6, <1>7, <1>8, <1>11, <2>2, Zenon DEF CtrlInv
  <2>4. PollInv'
    BY <1>8, <1>11, Zenon DEF PollInv
  <2>5. QED
    BY <1>11, <2>3, <2>4, Zenon
<1>12. CtrlInv' /\ PollInv' /\ devTog'["out"] = devTog["out"] /\ UNCHANGED devNext.in
  BY <1>1, <1>10, <1>11, Zenon
<1>13. OutSync' /\ OutInv'
  <2>1. pc # "out" /\ pc' # "out" /\ ep # "out"
    BY <1>1, <1>4, Zenon
  <2>2. QED
    BY <1>1, <1>3, <1>12, <2>1, OthersKeep, Zenon
<1>14. QED
  BY <1>2, <1>4, <1>12, <1>13, Zenon DEF TInv

\* A poll returns the one packet it is given.
LEMMA InDataPoll ==
  ASSUME TInv, InData, ep = "in"
  PROVE  /\ TInv' /\ parsed' = <<devNext.in>> /\ rcode' = "ok"
         /\ lost' = 0 => devNext'.in = (devNext.in + 1) % 3
<1>1. /\ TypeOK /\ Stages /\ PollInv /\ pc = "in" /\ devTog["in"] = hrsl
      /\ nbytes = MaxPkt /\ buf = <<>> /\ got = 0 /\ parsed = <<>>
      /\ \/ DeviceAdvances /\ UNCHANGED lost
         \/ lost < MaxLost /\ lost' = lost + 1 /\ UNCHANGED <<devTog, devNext>>
      /\ InTakes
      /\ UNCHANGED <<ep, total, nbytes, late, accepted, troubled, doubt>>
  BY InDataParts, Zenon DEF TInv, Stages
<1>2. TypeOK'
  BY <1>1, InDataTypes, Zenon
<1>3. Packet = <<devNext.in>>
  BY Zenon DEF Packet
<1>4. /\ Pktsize = 1 /\ Smaller(Pktsize, nbytes - Len(buf)) = 1
      /\ Pktsize < MaxPkt \/ got + Pktsize >= nbytes
  <2>1. MaxPkt \in Nat \ {0} /\ Len(<<devNext.in>>) = 1 /\ Len(<<>>) = 0
    BY Sizes, EmptySeq, SMT
  <2>2. Pktsize = Smaller(1, MaxPkt) /\ Smaller(Pktsize, nbytes - Len(buf)) = Smaller(Pktsize, MaxPkt - 0)
    BY <1>1, <1>3, <2>1, Zenon DEF Pktsize
  <2>3. Smaller(1, MaxPkt) = 1 /\ Smaller(1, MaxPkt - 0) = 1 /\ (1 < MaxPkt \/ 0 + 1 >= MaxPkt)
    BY <2>1, SMT DEF Smaller
  <2>4. QED
    BY <1>1, <2>2, <2>3, Zenon
<1>5. Data = <<devNext.in>> /\ <<>> \o Data = <<devNext.in>>
  <2>1. devNext.in \in Nat
    <3>1. devNext \in Place
      BY <1>1, Zenon DEF TypeOK
    <3>2. QED
      BY <3>1, SMT DEF Place
  <2> DEFINE x == devNext.in
  <2>2. Data = <<>> \o SubSeq(<<x>>, 1, 1)
    BY <1>1, <1>3, <1>4, Zenon DEF Data
  <2> DEFINE t == <<x>>
  <2>3. t \in Seq(Nat) /\ Len(t) = 1
    BY <2>1, SMT
  <2> HIDE DEF t
  <2>4. SubSeq(t, 1, 1) = t
    BY <2>3, SMT
  <2>5. <<>> \o t = t
    BY <2>3, ConcatEmptySeq, Zenon
  <2>6. QED
    BY <2>2, <2>4, <2>5, Zenon DEF t
<1>6. Received(Data, got + Pktsize)
  BY <1>1, <1>4, Zenon DEF InTakes
<1>7. /\ parsed' = <<devNext.in>> /\ rcode' = "ok" /\ pc' = "idle"
      /\ SaveToggle
  BY <1>1, <1>5, <1>6, Zenon DEF Received, Return
<1>8. Stages'
  BY <1>1, <1>7, Zenon DEF Stages
<1>9. CtrlInv'
  BY <1>1, Zenon DEF CtrlInv
<1>10. /\ toggle'["in"] = 1 - hrsl /\ toggle'["out"] = toggle["out"]
       /\ devTog \in [Endpoint -> Bit] /\ devNext \in Place
       /\ "in" \in Endpoint /\ "out" \in Endpoint
  <2>1. "in" \in Endpoint /\ "out" \in Endpoint
    BY Zenon DEF Endpoint
  <2>2. QED
    BY <1>1, <1>7, <2>1, SaveToggleTypes, Zenon DEF TypeOK
<1>11. ASSUME DeviceAdvances
       PROVE  /\ devTog'["in"] = 1 - hrsl /\ devTog'["out"] = devTog["out"]
              /\ devNext'.in = (devNext.in + 1) % 3
  <2>1. /\ devTog' = [devTog EXCEPT !["in"] = 1 - devTog["in"]]
        /\ devNext' = [devNext EXCEPT !.in = (devNext.in + 1) % 3]
    BY <1>11, Zenon DEF DeviceAdvances
  <2>2. devNext'.in = (devNext.in + 1) % 3
    <3> DEFINE y == (devNext.in + 1) % 3
    <3>1. devNext' = [devNext EXCEPT !.in = y]
      BY <2>1
    <3> HIDE DEF y
    <3>2. devNext'.in = y
      BY <1>10, <3>1 DEF Place
    <3>3. QED
      BY <3>2 DEF y
  <2>3. QED
    BY <1>1, <1>10, <2>1, <2>2, Zenon
<1>12. lost' = 0 => lost = 0 /\ DeviceAdvances
  BY <1>1, LostCounts, Zenon
<1>13. PollInv'
  BY <1>7, <1>10, <1>11, <1>12, Zenon DEF PollInv
<1>14. OutSync' /\ OutInv'
  <2>1. pc # "out" /\ pc' # "out" /\ devTog'["out"] = devTog["out"]
    BY <1>1, <1>7, <1>11, Zenon
  <2>2. ep # "out"
    BY Zenon
  <2>3. QED
    BY <1>1, <1>10, <2>1, <2>2, OthersKeep, Zenon
<1>15. QED
  BY <1>2, <1>7, <1>8, <1>9, <1>11, <1>12, <1>13, <1>14, Zenon DEF TInv

(***************************************************************************)
(* The invariant holds.                                                    *)
(***************************************************************************)
LEMMA InitTInv == Init => TInv
<1> SUFFICES ASSUME Init PROVE TInv
  OBVIOUS
<1>1. /\ pc = "idle" /\ ep = "ctrl" /\ total = 0 /\ nbytes = 0 /\ left = 0
      /\ buf = <<>> /\ got = 0 /\ parsed = <<>>
      /\ retry_count = 0 /\ nak_count = 0 /\ late = FALSE /\ rcode = "ok"
      /\ toggle = [e \in Endpoint |-> 0] /\ hrsl = 0
      /\ devTog = [e \in Endpoint |-> 0] /\ devNext = [ctrl |-> 1, in |-> 0]
      /\ accepted = <<>>
      /\ lost = 0 /\ troubled = FALSE /\ doubt = [now |-> FALSE, start |-> FALSE]
  BY Zenon DEF Init
<1>2. "ctrl" \in Endpoint /\ "in" \in Endpoint /\ "out" \in Endpoint
  BY Zenon DEF Endpoint
<1>3. <<>> \in Seq(Nat) /\ 0 \in Nat /\ 0 \in UInt16 /\ 0 \in 0..MaxLost /\ 0 <= 0 /\ 0 - 0 = 0
  BY Sizes, EmptySeq, SMT DEF UInt16
<1>4. "idle" \in Stage /\ "ok" \in Result /\ 0 \in Bit
  BY Zenon DEF Stage, Result, Bit
<1>5. devNext \in Place /\ doubt \in Doubt
  BY <1>1, SMT DEF Place, Doubt
<1>6. TypeOK
  BY <1>1, <1>2, <1>3, <1>4, <1>5, CountersStart, Zenon DEF TypeOK
<1>7. Stages
  BY <1>1, <1>3, Zenon DEF Stages
<1>8. CtrlInv
  BY <1>1, <1>3, NothingCounted, Zenon DEF CtrlInv
<1>9. PollInv /\ OutSync /\ OutInv
  BY <1>1, <1>2, Zenon DEF PollInv, OutSync, OutInv
<1>10. QED
  BY <1>6, <1>7, <1>8, <1>9, Zenon DEF TInv

LEMMA UnchangedTInv == TInv /\ UNCHANGED vars => TInv'
<1> SUFFICES ASSUME TInv, UNCHANGED vars PROVE TInv'
  OBVIOUS
<1>1. UNCHANGED <<pc, ep, total, nbytes, left, buf, got, parsed, retry_count, nak_count, late,
                  rcode, toggle, hrsl, devTog, devNext, accepted, lost, troubled, doubt>>
  BY Zenon DEF vars, arguments, device, history
<1>2. TypeOK' /\ Stages'
  BY <1>1, Zenon DEF TInv, TypeOK, Stages
<1>3. (InSync => InSync') /\ (Repeats => Repeats') /\ (WellSized' <=> WellSized)
  BY <1>1, Zenon DEF InSync, Repeats, Packet, WellSized
<1>4. CtrlInv'
  BY <1>1, <1>3, Zenon DEF TInv, CtrlInv
<1>5. PollInv' /\ OutSync'
  BY <1>1, Zenon DEF TInv, PollInv, OutSync
<1>6. Sent' = Sent /\ bytes_tosend' = bytes_tosend
  BY <1>1, Zenon DEF Sent, bytes_tosend
<1>7. OutInv'
  BY <1>1, <1>6, Zenon DEF TInv, OutInv
<1>8. QED
  BY <1>2, <1>4, <1>5, <1>7, Zenon DEF TInv

LEMMA InDataKeeps ==
  ASSUME TInv, InData
  PROVE  TInv'
<1>1. ep \in {"ctrl", "in"}
  BY Zenon DEF TInv, Stages, InData
<1>2. QED
  BY <1>1, InDataCtrl, InDataPoll, Zenon

LEMMA StepTInv == TInv /\ [Next]_vars => TInv'
<1> SUFFICES ASSUME TInv, [Next]_vars PROVE TInv'
  OBVIOUS
<1>1. CASE CallCtrl \/ CallPoll \/ CallOut
  BY <1>1, CallsKeep, Zenon
<1>2. CASE Setup
  BY <1>2, SetupKeeps, Zenon
<1>3. CASE InFails
  BY <1>3, InFailsKeeps, Zenon
<1>4. CASE InData
  BY <1>4, InDataKeeps, Zenon
<1>5. CASE InToggleError
  BY <1>5, InToggleErrorKeeps, Zenon
<1>6. CASE Status
  BY <1>6, StatusKeeps, Zenon
<1>7. CASE Out
  BY <1>7, OutKeeps, Zenon
<1>8. CASE UNCHANGED vars
  BY <1>8, UnchangedTInv, Zenon
<1>9. QED
  BY <1>1, <1>2, <1>3, <1>4, <1>5, <1>6, <1>7, <1>8, Zenon DEF Next, Transfer

LEMMA AlwaysTInv == Spec => []TInv
  BY InitTInv, StepTInv, PTL DEF Spec

\* The first n of T numbered bytes are a prefix of them.
LEMMA CountPrefix ==
  ASSUME NEW T \in Nat, NEW n \in 0..T
  PROVE  IsPrefix(Count(1, n), Count(1, T))
<1> DEFINE s == Count(1, n)
           t == Count(1, T)
<1>1. /\ s \in Seq(Nat) /\ Len(s) = n /\ \A k \in 1..n : s[k] = k
      /\ t \in Seq(Nat) /\ Len(t) = T /\ \A k \in 1..T : t[k] = k
  <2>1. ASSUME NEW b \in Nat
        PROVE  /\ Count(1, b) \in Seq(Nat) /\ Len(Count(1, b)) = b
               /\ \A k \in 1..b : Count(1, b)[k] = k
    <3> DEFINE u == Count(1, b)
    <3>1. /\ u \in Seq(Nat) /\ Len(u) = IF b >= 1 THEN b - 1 + 1 ELSE 0
          /\ \A k \in 1..b - 1 + 1 : u[k] = 1 + k - 1
      <4>1. 1 \in Nat /\ b \in Int
        BY SMT
      <4>2. QED
        BY <4>1, CountIsSeq, Zenon
    <3> HIDE DEF u
    <3>2. u \in Seq(Nat) /\ Len(u) = b /\ \A k \in 1..b : u[k] = k
      BY <3>1, SMT
    <3>3. QED
      BY <3>2 DEF u
  <2>2. n \in Nat
    BY SMT
  <2>3. QED
    BY <2>1, <2>2, Zenon
<1> HIDE DEF s, t
<1>2. n \in Nat /\ n <= T /\ \A k \in 1..n : k \in 1..T /\ s[k] = t[k]
  BY <1>1, SMT
<1>3. s = SubSeq(t, 1, n)
  <2> DEFINE v == SubSeq(t, 1, n)
  <2>1. v \in Seq(Nat) /\ Len(v) = n /\ \A k \in 1..n : v[k] = t[k]
    BY <1>1, <1>2, SMT
  <2> HIDE DEF v
  <2>2. s = v
    BY <1>1, <1>2, <2>1, SeqEqual, Zenon
  <2>3. QED
    BY <2>2 DEF v
<1>4. Len(s) <= Len(t) /\ s = SubSeq(t, 1, Len(s))
  BY <1>1, <1>2, <1>3, Zenon
<1>5. SubSeq(s, 1, Len(s)) = s
  BY <1>1, SMT
<1>6. IsPrefix(s, t)
  BY <1>4, <1>5, Zenon DEF IsPrefix
<1>7. QED
  BY <1>6 DEF s, t

(***************************************************************************)
(* The theorems.                                                           *)
(***************************************************************************)

\* The variables of a transfer stay within the types the code gives them: no
\* counter of retries reaches its limit, and left stays a 16-bit number
\* (Usb.cpp:61, 340-366).
THEOREM TransferIsTyped == Spec => []TypeOK
<1>1. TInv => TypeOK
  BY Zenon DEF TInv
<1>2. QED
  BY <1>1, AlwaysTInv, PTL

\* Whatever the packet size, the size of the pieces and the pattern of NAKs and
\* timeouts, the parser sees the bytes of a descriptor in order and all of them
\* if the request returns 0 (Usb.cpp:157-195).
THEOREM DescriptorsInOrder == Spec => []ParsedInOrder
<1>1. TInv => ParsedInOrder
  <2> SUFFICES ASSUME TInv, ep = "ctrl", lost = 0
               PROVE  /\ parsed = Count(1, total - left)
                      /\ pc = "idle" /\ rcode = "ok" /\ total > 0 => left = 0
    BY Zenon DEF ParsedInOrder
  <2>1. /\ pc \in Stage /\ total \in Nat /\ left \in UInt16
        /\ pc = "in" => InSync
        /\ pc = "status" => left = 0 /\ parsed = Count(1, total)
        /\ pc = "idle" => parsed = Count(1, total - left) /\ (rcode = "ok" => left = 0)
        /\ pc = "setup" => left = total /\ parsed = <<>>
        /\ pc # "out"
    BY Zenon DEF TInv, TypeOK, CtrlInv, Stages
  <2>2. total - 0 = total /\ (left = total => total - left = 0)
    BY <2>1, SMT
  <2>3. QED
    BY <2>1, <2>2, NothingCounted, Zenon DEF Stage, InSync
<1>2. QED
  BY <1>1, AlwaysTInv, PTL

\* On a bus without trouble a request with data succeeds exactly if its length
\* fits the loop of ctrlReq, whatever the sizes (Usb.cpp:157-195).
THEOREM FitsOrFails == Spec => []ReadCompletes
<1>1. TInv => ReadCompletes
  <2> SUFFICES ASSUME TInv, pc = "idle", ep = "ctrl", ~troubled, total > 0
               PROVE  rcode = "ok" <=> WellSized
    BY Zenon DEF ReadCompletes
  <2>1. total # 0
    <3>1. total \in Nat
      BY Zenon DEF TInv, TypeOK
    <3>2. QED
      BY <3>1, SMT
  <2>2. troubled \/ total = 0 \/ (rcode = "ok" <=> WellSized)
    BY Zenon DEF TInv, CtrlInv
  <2>3. QED
    BY <2>1, <2>2, Zenon
<1>2. QED
  BY <1>1, AlwaysTInv, PTL

\* The device takes the bytes of an OUT transfer once and in order, and has all
\* of them when the call returns 0, through lost packets and lost
\* acknowledgements and across calls, unless the time limit passes or a call
\* gives up without an answer (Usb.cpp:315-394).
THEOREM OutArrivesInOrder == Spec => []OutInOrder
<1>1. TInv => OutInOrder
  <2> SUFFICES ASSUME TInv, ep = "out", ~late, ~doubt.start
               PROVE  /\ IsPrefix(accepted, Count(1, total))
                      /\ pc = "idle" /\ rcode = "ok" => accepted = Count(1, total)
    BY Zenon DEF OutInOrder
  <2>1. TypeOK /\ Stages /\ OutInv /\ total \in Nat /\ pc \in {"idle", "out"}
    <3>1. TypeOK /\ Stages /\ OutInv /\ pc \in Stage
      BY Zenon DEF TInv, TypeOK
    <3>2. pc # "setup" /\ pc # "status" /\ pc # "in"
      BY <3>1, Zenon DEF Stages
    <3>3. QED
      BY <3>1, <3>2, Zenon DEF TypeOK, Stage
  <2>2. \E n \in 0..total : accepted = Count(1, n)
    <3>1. CASE pc = "out"
      <4>1. Sent \in 0..total /\ Sent + bytes_tosend \in 0..total
        BY <2>1, <3>1, OutArith, Zenon
      <4>2. accepted = Count(1, Sent) \/ accepted = Count(1, Sent + bytes_tosend)
        BY <2>1, <3>1, Zenon DEF OutInv
      <4>3. QED
        BY <4>1, <4>2, Zenon
    <3>2. CASE pc = "idle"
      <4>1. total \in 0..total
        BY <2>1, SMT
      <4>2. QED
        BY <2>1, <3>2, <4>1, Zenon DEF OutInv
    <3>3. QED
      BY <2>1, <3>1, <3>2, Zenon
  <2>3. IsPrefix(accepted, Count(1, total))
    BY <2>1, <2>2, CountPrefix, Zenon
  <2>4. pc = "idle" /\ rcode = "ok" => accepted = Count(1, total)
    BY <2>1, Zenon DEF OutInv
  <2>5. QED
    BY <2>3, <2>4
<1>2. QED
  BY <1>1, AlwaysTInv, PTL

\* While no acknowledgement of the host is lost, a poll returns each packet that
\* leaves the device, none twice and none left out (Usb.cpp:224-297).
THEOREM PollsInOrder == Spec => PollInOrder
<1> DEFINE Moves == PacketMoves /\ lost' = 0 =>
                      /\ parsed' = <<devNext.in>> /\ rcode' = "ok"
                      /\ devNext'.in = (devNext.in + 1) % 3
<1>1. TInv /\ [Next]_vars => [Moves]_vars
  <2> SUFFICES ASSUME TInv, Next, PacketMoves, lost' = 0
               PROVE  /\ parsed' = <<devNext.in>> /\ rcode' = "ok"
                      /\ devNext'.in = (devNext.in + 1) % 3
    BY Zenon
  <2>1. TypeOK /\ Stages
    BY Zenon DEF TInv
  <2>2. ASSUME UNCHANGED devNext.in, pc # "in" \/ ep # "in" \/ UNCHANGED parsed PROVE FALSE
    BY <2>2, Zenon DEF PacketMoves
  <2>3. CASE CallCtrl \/ CallPoll \/ CallOut
    BY <2>2, <2>3, Zenon DEF CallCtrl, CallPoll, CallOut, Call
  <2>4. CASE Setup
    <3>1. pc = "setup"
      BY <2>4, Zenon DEF Setup
    <3>2. devNext \in Place
      BY <2>1, Zenon DEF TypeOK
    <3>3. devNext' = devNext \/ devNext' = [devNext EXCEPT !.ctrl = 1]
      BY <2>4, Zenon DEF Setup
    <3>4. UNCHANGED devNext.in
      BY <3>2, <3>3 DEF Place
    <3>5. QED
      BY <2>2, <3>1, <3>4, Zenon
  <2>5. CASE InFails \/ Status
    BY <2>2, <2>5, Zenon DEF InFails, Status, device
  <2>6. CASE InData
    <3>1. ep \in {"ctrl", "in"}
      BY <2>1, <2>6, Zenon DEF Stages, InData
    <3>2. ep # "ctrl"
      BY <2>2, <2>6, InDataCtrl, Zenon
    <3>3. QED
      BY <2>6, <3>1, <3>2, InDataPoll, Zenon
  <2>7. CASE InToggleError
    BY <2>7, InToggleErrorKeeps, Zenon
  <2>8. CASE Out
    BY <2>2, <2>8, Zenon DEF Out
  <2>9. QED
    BY <2>3, <2>4, <2>5, <2>6, <2>7, <2>8, Zenon DEF Next, Transfer
<1>2. QED
  BY <1>1, AlwaysTInv, PTL DEF Spec, PollInOrder
=============================================================================
