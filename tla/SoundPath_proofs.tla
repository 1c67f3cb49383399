-------------------------- MODULE SoundPath_proofs --------------------------
(***************************************************************************)
(* Proofs about the sound path of the FPGA, for every width of a sample,   *)
(* any number of voices, every length of a frame that holds a sample, and  *)
(* whatever the processor writes.                                          *)
(***************************************************************************)
EXTENDS SoundPath, Recursion, SequenceTheorems

(***************************************************************************)
(* Powers of two.                                                          *)
(***************************************************************************)

\* The powers are positive numbers, and each is twice the one before.
LEMMA Powers ==
  /\ \A n \in Nat : Power[n] \in Nat /\ Power[n] > 0
  /\ Power[0] = 1
  /\ \A n \in Nat : Power[n + 1] = 2 * Power[n]
<1> DEFINE twice == [x \in Nat |-> 2 * x]
           Def(F) == F = [n \in Nat |-> IF n = 0 THEN 1 ELSE 2 * F[n - 1]]
<1>1. PICK F \in [Nat -> Nat] : Recurs(F, 1, twice)
  <2>1. twice \in [Nat -> Nat] /\ 1 \in Nat
    BY SMT
  <2> HIDE DEF twice
  <2>2. QED
    BY <2>1, NatRecursion, Zenon
<1>2. Def(F)
  <2>1. ASSUME NEW n \in Nat PROVE F[n] = IF n = 0 THEN 1 ELSE 2 * F[n - 1]
    <3>1. n # 0 => n - 1 \in Nat
      BY SMT
    <3>2. n # 0 => F[n - 1] \in Nat
      BY <3>1
    <3>3. QED
      BY <1>1, <3>2 DEF Recurs, Step
  <2>2. F = [n \in Nat |-> F[n]]
    OBVIOUS
  <2>3. QED
    BY <2>1, <2>2, Zenon
<1>3. Power = CHOOSE G : Def(G)
  BY Zenon DEF Power
<1>4. Def(Power)
  BY <1>2, <1>3, Zenon
<1>5. ASSUME NEW n \in Nat PROVE Power[n] = IF n = 0 THEN 1 ELSE 2 * Power[n - 1]
  BY <1>4, Zenon
<1>6. Power[0] = 1
  BY <1>5, SMT
<1>7. ASSUME NEW n \in Nat PROVE Power[n + 1] = 2 * Power[n]
  <2>1. n + 1 \in Nat /\ n + 1 # 0 /\ (n + 1) - 1 = n
    BY SMT
  <2>2. QED
    BY <1>5, <2>1
<1> DEFINE G == {n \in Nat : Power[n] \in Nat /\ Power[n] > 0}
<1>8. 0 \in G
  BY <1>6, SMT
<1>9. ASSUME NEW n \in Nat, n \in G PROVE n + 1 \in G
  BY <1>7, <1>9, SMT
<1> HIDE DEF G
<1>10. Nat \subseteq G
  BY <1>8, <1>9, Induction
<1>11. QED
  BY <1>6, <1>7, <1>10, Zenon DEF G

\* 2^(m+n) = 2^m * 2^n.
LEMMA PowerSum ==
  ASSUME NEW m \in Nat, NEW n \in Nat
  PROVE  Power[m + n] = Power[m] * Power[n]
<1> DEFINE G == {k \in Nat : Power[m + k] = Power[m] * Power[k]}
<1>1. 0 \in G
  BY Powers, SMT
<1>2. ASSUME NEW k \in Nat, k \in G PROVE k + 1 \in G
  <2>1. Power[(m + k) + 1] = 2 * Power[m + k] /\ Power[k + 1] = 2 * Power[k]
    BY Powers, SMT
  <2>2. (m + k) + 1 = m + (k + 1)
    BY SMT
  <2>3. Power[m] \in Nat /\ Power[k] \in Nat /\ Power[m + k] = Power[m] * Power[k]
    BY Powers, <1>2
  <2>4. Power[m + (k + 1)] = Power[m] * Power[k + 1]
    BY <2>1, <2>2, <2>3, SMT
  <2>5. QED
    BY <2>4
<1> HIDE DEF G
<1>3. Nat \subseteq G
  BY <1>1, <1>2, Induction
<1>4. QED
  BY <1>3 DEF G

(***************************************************************************)
(* Shifting a sample out, the most significant bit first.                  *)
(***************************************************************************)

\* They are the only ones.
LEMMA Quotient ==
  ASSUME NEW d \in Int, d > 0, NEW q \in Int, NEW r \in Int, 0 <= r, r < d
  PROVE  (d * q + r) \div d = q /\ (d * q + r) % d = r
  BY SMTT(30)

\* What is left of sample x in the shift register when its first n bits are out.
Rest(x, n) == (Power[n] * x) % Power[W]

\* A bit is a bit.
LEMMA BitType == ASSUME NEW x \in Int, NEW n \in Nat PROVE Bit(x, n) \in {0, 1}
<1>1. Power[n] \in Int /\ Power[n] > 0
  BY Powers
<1>2. x \div Power[n] \in Int
  BY <1>1, Divide
<1>3. QED
  BY <1>2, SMT DEF Bit

\* The n-th bit that goes out.
Out(x, n) == IF n <= W THEN Bit(x, W - n) ELSE 0

\* A register that holds a sample in full holds it in W bits.
LEMMA RestWhole == ASSUME NEW x \in Sample PROVE Rest(x, 0) = x
<1>1. Power[W] \in Nat /\ Power[0] = 1 /\ x \in 0..(Power[W] - 1)
  BY Powers, SoundAssumption DEF Sample
<1>2. QED
  BY <1>1, SMT DEF Rest

\* One shift.
LEMMA RestShift ==
  ASSUME NEW x \in Sample, NEW n \in Nat
  PROVE  ShiftLeft(Rest(x, n)) = Rest(x, n + 1)
<1> DEFINE m == Power[W]
           a == Power[n]
           q == (a * x) \div m
           r == (a * x) % m
<1>1. m \in Nat /\ m > 0 /\ a \in Nat /\ x \in Int /\ a * x \in Int /\ Power[n + 1] = 2 * a
  BY Powers, SoundAssumption, SMT DEF Sample
<1>2. a * x = m * q + r /\ q \in Int /\ r \in Int
  <2> HIDE DEF a, m
  <2>1. QED
    BY <1>1, Divide
<1> DEFINE s == 2 * r
           u == s \div m
           c == s % m
           z == 2 * q + u
<1>3. s \in Int
  BY <1>2, SMT
<1>4. s = m * u + c /\ u \in Int /\ c \in Int /\ 0 <= c /\ c < m
  <2> HIDE DEF s, m
  <2>1. QED
    BY <1>1, <1>3, Divide
<1>5. z \in Int
  <2> HIDE DEF q, u
  <2>1. QED
    BY <1>2, <1>4, SMT
<1>6. (2 * a) * x = m * z + c
  <2>1. 2 * r = m * u + c
    BY <1>4
  <2> HIDE DEF q, r, u, c, m, a
  <2>2. (2 * a) * x = m * (2 * q + u) + c
    BY <1>1, <1>2, <1>4, <2>1, SMT
  <2>3. QED
    BY <2>2
<1> HIDE DEF z, c, m
<1>7. (m * z + c) % m = c
  BY <1>1, <1>4, <1>5, Quotient
<1>8. QED
  BY <1>1, <1>6, <1>7 DEF ShiftLeft, Rest, c, m

\* The bit at the head of the register.
LEMMA RestHead ==
  ASSUME NEW x \in Sample, NEW n \in Nat
  PROVE  Bit(Rest(x, n), W - 1) = Out(x, n + 1)
<1> DEFINE a == Power[n]
           m == Power[W]
           h == Power[W - 1]
<1>1. /\ W \in Nat /\ W - 1 \in Nat /\ (W - 1) + 1 = W
      /\ x \in Int
  BY SoundAssumption, SMT DEF Sample
<1>2. /\ a \in Nat /\ a > 0 /\ h \in Nat /\ h > 0 /\ m = 2 * h
  BY <1>1, Powers
<1>3. CASE n + 1 <= W
  <2> DEFINE k == W - (n + 1)
             b == Power[k]
             q == x \div b
             r == x % b
             g == q \div 2
             t == q % 2
  <2>1. k \in Nat /\ n + k = W - 1
    BY <1>1, <1>3, SMT
  <2>2. b \in Nat /\ b > 0 /\ h = a * b
    <3>1. Power[n + k] = a * b
      BY <2>1, PowerSum
    <3>2. QED
      BY <2>1, <3>1, Powers
  <2>3. x = b * q + r /\ q \in Int /\ r \in Int /\ 0 <= r /\ r < b
    <3> HIDE DEF b
    <3>1. QED
      BY <1>1, <2>2, Divide
  <2>4. q = 2 * g + t /\ g \in Int /\ t \in {0, 1}
    <3> HIDE DEF q
    <3>1. QED
      BY <2>3, SMT
  <2> HIDE DEF a, b, h, m, q, r, g, t, k
  <2>5. 0 <= a * r /\ a * r < h /\ a * r \in Int
    BY <1>2, <2>2, <2>3, SMTT(30)
  <2>6. a * x = m * g + (h * t + a * r)
    <3>1. a * x = a * (b * (2 * g + t) + r)
      BY <2>3, <2>4
    <3>2. a * (b * (2 * g + t) + r) = (2 * (a * b)) * g + ((a * b) * t + a * r)
      BY <1>2, <2>2, <2>3, <2>4, SMTT(30)
    <3>3. QED
      BY <1>2, <2>2, <3>1, <3>2
  <2>7. h * t + a * r \in Int /\ 0 <= h * t + a * r /\ h * t + a * r < m
    BY <1>2, <2>4, <2>5, SMT
  <2>8. (a * x) % m = h * t + a * r
    BY <1>2, <2>4, <2>6, <2>7, Quotient, SMT
  <2>9. (h * t + a * r) \div h = t
    <3>1. t \in Int
      BY <2>4, SMT
    <3>2. QED
      BY <1>2, <2>5, <3>1, Quotient
  <2>10. t % 2 = t
    BY <2>4, SMT
  <2>11. QED
    BY <1>3, <2>8, <2>9, <2>10 DEF Bit, Rest, Out, a, h, m, q, t, b, k
<1>4. CASE ~(n + 1 <= W)
  <2> DEFINE k == n - W
             b == Power[k]
  <2>1. k \in Nat /\ W + k = n
    BY <1>1, <1>4, SMT
  <2>2. a = m * b /\ b \in Nat
    <3> HIDE DEF k
    <3>1. Power[W + k] = Power[W] * Power[k]
      BY <1>1, <2>1, PowerSum
    <3>2. QED
      BY <2>1, <3>1, Powers
  <2> HIDE DEF a, b, m, h, k
  <2>3. m \in Nat /\ m > 0 /\ b * x \in Int
    BY <1>1, <1>2, <2>2, SMT
  <2>4. a * x = m * (b * x) + 0
    BY <1>1, <2>2, <2>3, SMT
  <2>5. (a * x) % m = 0
    <3> DEFINE z == b * x
    <3> HIDE DEF z
    <3>1. (m * z + 0) % m = 0
      BY <2>3, Quotient, SMT DEF z
    <3>2. QED
      BY <2>4, <3>1 DEF z
  <2>6. (0 \div h) % 2 = 0
    BY <1>2, SMT
  <2>7. QED
    BY <1>4, <2>5, <2>6 DEF Bit, Rest, Out, a, m, h
<1>5. QED
  BY <1>3, <1>4

\* What goes out are bits.
LEMMA OutBits == ASSUME NEW x \in Sample, NEW n \in Nat PROVE Out(x, n) \in {0, 1}
<1>1. CASE n <= W
  <2>1. W - n \in Nat /\ x \in Int
    BY <1>1, SoundAssumption, SMT DEF Sample
  <2>2. QED
    BY <1>1, <2>1, BitType DEF Out
<1>2. QED
  BY <1>1 DEF Out

(***************************************************************************)
(* The generators and the mixer.                                           *)
(***************************************************************************)
Generator == [counter : Int, local_val : Sample, updown : BOOLEAN]

SoundTypes ==
  /\ wave \in Wave
  /\ reg \in [Voice -> Registers]
  /\ master_vol \in MasterVols
  /\ gen \in [Voice -> Generator]
  /\ LRCLK \in BOOLEAN
  /\ slot \in 0..(Half - 1)
  /\ right \in Sample /\ left \in Int
  /\ taken \in [BOOLEAN -> Sample]

LEMMA SampleRange ==
  /\ Power[W] \in Nat /\ Power[W] > 0
  /\ \A x : x \in Sample <=> x \in Int /\ 0 <= x /\ x < Power[W]
<1>1. Power[W] \in Nat /\ Power[W] > 0
  BY Powers, SoundAssumption
<1>2. QED
  BY <1>1, SMT DEF Sample

\* W bits hold any number modulo 2^W.
LEMMA Wraps == ASSUME NEW x \in Int PROVE x % Power[W] \in Sample
<1>1. Power[W] \in Int /\ Power[W] > 0
  BY SampleRange, SMT
<1>2. x % Power[W] \in Int /\ 0 <= x % Power[W] /\ x % Power[W] < Power[W]
  BY <1>1, Divide
<1>3. QED
  BY <1>2, SampleRange

LEMMA RegisterFacts ==
  ASSUME SoundTypes, NEW v \in Voice
  PROVE  /\ reg[v].period \in Nat /\ reg[v].period > 1 /\ reg[v].vol \in Nat
         /\ init(v) \in Nat /\ init(v) > 0 /\ increment(v) \in Int
<1>1. reg[v] \in Registers
  BY DEF SoundTypes
<1>2. reg[v].period \in Nat /\ reg[v].period > 1 /\ reg[v].vol \in 0..MaxVol
  BY <1>1, SoundAssumption
<1>3. reg[v].vol \in Nat
  BY <1>2, SoundAssumption, SMT
<1>4. init(v) \in Nat /\ init(v) > 0
  BY <1>2, SMT DEF init
<1>5. W + 1 \in Nat
  BY SoundAssumption, SMT
<1>6. top \in Int
  BY <1>5, Powers, SMT DEF top
<1>7. top \div (2 * reg[v].period) \in Int
  BY <1>2, <1>6, SMT
<1>8. top \div init(v) \in Int
  BY <1>4, <1>6, SMT
<1>9. QED
  BY <1>2, <1>3, <1>4, <1>7, <1>8, Zenon DEF increment

\* A clock of a generator leaves a sample of W bits, whatever the registers
\* hold.
LEMMA AdvanceType ==
  ASSUME SoundTypes, NEW v \in Voice
  PROVE  Advance(v) \in Generator
<1>1. /\ gen[v] \in Generator /\ gen[v].counter \in Int /\ gen[v].local_val \in Sample
      /\ gen[v].updown \in BOOLEAN
  BY DEF SoundTypes, Generator
<1>2. gen[v].local_val \in Int
  BY <1>1, SampleRange
<1>3. init(v) \in Int /\ increment(v) \in Int
  BY RegisterFacts, SMT
<1> DEFINE Risen == gen[v].local_val + increment(v)
           Fallen == gen[v].local_val - increment(v)
<1>4. Risen % Power[W] \in Sample /\ Fallen % Power[W] \in Sample
  <2>1. Risen \in Int /\ Fallen \in Int
    BY <1>2, <1>3, SMT
  <2> HIDE DEF Risen, Fallen
  <2>2. QED
    BY <2>1, Wraps
<1>5. Power[W] - 1 - gen[v].local_val \in Sample
  BY <1>1, SampleRange, SMT
<1>6. gen[v].counter - 1 \in Int /\ (~gen[v].updown) \in BOOLEAN
  BY <1>1, SMT
<1> HIDE DEF Risen, Fallen
<1>7. CASE wave = "saw"
  <2>1. Advance(v) = [gen[v] EXCEPT !.local_val = Risen % Power[W]]
    BY <1>7 DEF Advance, Risen
  <2>2. QED
    BY <1>1, <1>4, <2>1 DEF Generator
<1>8. CASE wave = "square"
  <2>1. \/ Advance(v) = [gen[v] EXCEPT !.counter = init(v),
                                       !.local_val = Power[W] - 1 - gen[v].local_val]
        \/ Advance(v) = [gen[v] EXCEPT !.counter = gen[v].counter - 1]
    BY <1>8, SMT DEF Advance, Reload
  <2>2. QED
    BY <1>1, <1>3, <1>5, <1>6, <2>1 DEF Generator
<1>9. CASE wave = "triangle"
  <2>1. \/ Advance(v) = [gen[v] EXCEPT !.counter = init(v), !.updown = ~gen[v].updown]
        \/ Advance(v) = [gen[v] EXCEPT !.counter = gen[v].counter - 1,
                                       !.local_val = Risen % Power[W]]
        \/ Advance(v) = [gen[v] EXCEPT !.counter = gen[v].counter - 1,
                                       !.local_val = Fallen % Power[W]]
    <3>1. CASE gen[v].counter = 0
      BY <1>9, <3>1, SMT DEF Advance, Reload
    <3>2. CASE gen[v].counter # 0
      <4>1. Advance(v) = [gen[v] EXCEPT !.counter = @ - 1,
                                        !.local_val = (IF gen[v].updown THEN @ + increment(v)
                                                       ELSE @ - increment(v)) % Power[W]]
        BY <1>9, <3>2, SMT DEF Advance
      <4>2. CASE gen[v].updown
        BY <4>1, <4>2 DEF Risen
      <4>3. CASE ~gen[v].updown
        BY <4>1, <4>3 DEF Fallen
      <4>4. QED
        BY <4>2, <4>3
    <3>3. QED
      BY <3>1, <3>2
  <2>2. QED
    BY <1>1, <1>3, <1>4, <1>6, <2>1 DEF Generator
<1>10. QED
  BY <1>7, <1>8, <1>9 DEF SoundTypes, Wave

\* The sum over the voices is a number.
LEMMA SumType ==
  ASSUME SoundTypes
  PROVE  MapThenSumSet(SampleOf, Voice) \in Int
<1>1. ASSUME NEW v \in Voice PROVE SampleOf(v) \in Int
  <2>1. gen[v].local_val \in Int
    BY SampleRange DEF SoundTypes, Generator
  <2>2. gen[v].local_val * reg[v].vol \in Int /\ MaxVol \in Int /\ MaxVol > 0
    BY <2>1, RegisterFacts, SoundAssumption, SMT
  <2>3. QED
    BY <2>2, Divide DEF SampleOf
<1> DEFINE pick == [s \in SUBSET Voice |-> CHOOSE x \in s : TRUE]
           step == [v \in Voice |-> [x \in Int |-> SampleOf(v) + x]]
           Def(F) == F = [s \in SUBSET Voice |->
                            IF s = {} THEN 0
                            ELSE SampleOf(CHOOSE x \in s : TRUE) + F[s \ {CHOOSE x \in s : TRUE}]]
<1>2. step \in [Voice -> [Int -> Int]]
  BY <1>1, SMT
<1>3. Picks(pick, Voice)
  BY Zenon DEF Picks
<1>4. PICK F \in [SUBSET Voice -> Int] : Folds(F, Voice, 0, step, pick)
  <2>1. IsFiniteSet(Voice) /\ 0 \in Int
    BY SoundAssumption
  <2> HIDE DEF step, pick
  <2>2. QED
    BY <1>2, <1>3, <2>1, SetRecursion, Zenon
<1>5. ASSUME NEW s \in SUBSET Voice
      PROVE  F[s] = IF s = {} THEN 0
                    ELSE SampleOf(CHOOSE x \in s : TRUE) + F[s \ {CHOOSE x \in s : TRUE}]
  <2>1. F[s] = Fold(F, 0, step, pick, s)
    BY <1>4 DEF Folds
  <2>2. CASE s = {}
    BY <2>1, <2>2 DEF Fold
  <2>3. CASE s # {}
    <3> DEFINE v == CHOOSE x \in s : TRUE
    <3>1. v \in Voice /\ pick[s] = v /\ s \ {v} \in SUBSET Voice
      BY <2>3
    <3>2. F[s \ {v}] \in Int
      BY <3>1
    <3> HIDE DEF v
    <3>3. step[v][F[s \ {v}]] = SampleOf(v) + F[s \ {v}]
      BY <3>1, <3>2
    <3> HIDE DEF step, pick
    <3>4. F[s] = SampleOf(v) + F[s \ {v}]
      BY <2>1, <2>3, <3>1, <3>3 DEF Fold
    <3>5. QED
      BY <2>3, <3>4 DEF v
  <2>4. QED
    BY <2>2, <2>3
<1>6. Def(F)
  <2>1. F = [s \in SUBSET Voice |-> F[s]]
    OBVIOUS
  <2>2. QED
    BY <1>5, <2>1, Zenon
<1> DEFINE G == CHOOSE H : Def(H)
<1>7. MapThenSumSet(SampleOf, Voice) = G[Voice]
  BY Zenon DEF MapThenSumSet, MapThenFoldSet
<1>8. Def(G)
  BY <1>6, Zenon
<1> HIDE DEF G
<1> DEFINE N == {s \in SUBSET Voice : G[s] \in Int}
<1>9. {} \in N
  BY <1>8, SMT
<1>10. ASSUME NEW s \in SUBSET Voice, s # {}
       PROVE  \E x \in s : s \ {x} \in N => s \in N
  <2> DEFINE v == CHOOSE x \in s : TRUE
  <2>1. v \in s /\ G[s] = SampleOf(v) + G[s \ {v}]
    BY <1>8, <1>10
  <2> HIDE DEF v
  <2>2. SampleOf(v) \in Int
    BY <1>1, <2>1
  <2>3. ASSUME s \ {v} \in N PROVE s \in N
    BY <2>1, <2>2, <2>3, SMT
  <2>4. QED
    BY <2>1, <2>3
<1> HIDE DEF N
<1>11. SUBSET Voice \subseteq N
  <2>1. Grows(N, Voice)
    BY <1>10, Zenon DEF Grows
  <2>2. IsFiniteSet(Voice)
    BY SoundAssumption
  <2>3. QED
    BY <1>9, <2>1, <2>2, SetInduction, Zenon
<1>12. QED
  BY <1>7, <1>11 DEF N

\* The mix fits in W bits.
LEMMA MixType == ASSUME SoundTypes PROVE mixed_sample \in Sample
<1> DEFINE m == (MapThenSumSet(SampleOf, Voice) * master_vol) % Power[W]
<1>1. m \in Sample
  <2>1. MapThenSumSet(SampleOf, Voice) * master_vol \in Int
    BY SumType, SoundAssumption, SMT DEF SoundTypes
  <2>2. QED
    BY <2>1, Wraps
<1> HIDE DEF m
<1>2. Power[Shift] \in Nat /\ Power[Shift] > 0
  BY Powers, SoundAssumption
<1>3. m \div Power[Shift] \in Int /\ 0 <= m \div Power[Shift] /\ m \div Power[Shift] <= m
  BY <1>1, <1>2, SampleRange, SMT
<1>4. m \div Power[Shift] \in Sample
  BY <1>1, <1>3, SampleRange, SMT
<1>5. QED
  BY <1>4 DEF mixed_sample, m

(***************************************************************************)
(* The serializer.  In the right half the register holds what is left of   *)
(* the sample after slot shifts, the line the bit of the edge before, and  *)
(* the codec has read all bits before that one.                            *)
(***************************************************************************)
Sending ==
  LRCLK =>
    /\ right = Rest(taken[FALSE], slot)
    /\ slot > 0 => /\ SDATA = Out(taken[FALSE], slot)
                   /\ Len(bits) = slot - 1

SoundInv == SoundTypes /\ bits \in Seq({0, 1}) /\ SDATA \in {0, 1} /\ Sending /\ RightCarriesMix

\* The bits read so far, in the words of the proof.
LEMMA CarriesOut ==
  ASSUME NEW x
  PROVE  Carries(x) <=> \A k \in 1..Len(bits) : bits[k] = Out(x, k)
BY DEF Carries, Out

\* A bit is out when the edge has passed.
LEMMA SendBit ==
  ASSUME SoundInv, SclkEdge, LRCLK
  PROVE  /\ right' = Rest(taken[FALSE], slot + 1)
         /\ SDATA' = Out(taken[FALSE], slot + 1)
         /\ SDATA' \in {0, 1} /\ right' \in Sample
<1>1. right = Rest(taken[FALSE], slot) /\ taken[FALSE] \in Sample /\ slot \in Nat
  <2>1. slot \in Nat
    BY SoundAssumption, SMT DEF SoundInv, SoundTypes
  <2>2. QED
    BY <2>1 DEF SoundInv, Sending, SoundTypes
<1>2. right' = ShiftLeft(right) /\ SDATA' = Bit(right, W - 1)
  BY DEF SclkEdge
<1>3. /\ right' = Rest(taken[FALSE], slot + 1)
      /\ SDATA' = Out(taken[FALSE], slot + 1)
  BY <1>1, <1>2, RestShift, RestHead
<1>4. slot + 1 \in Nat
  BY <1>1, SMT
<1>5. SDATA' \in {0, 1}
  BY <1>1, <1>3, <1>4, OutBits
<1>6. right' \in Sample
  <2>1. right \in Int
    BY SampleRange DEF SoundInv, SoundTypes
  <2>2. 2 * right \in Int
    BY <2>1, SMT
  <2>3. QED
    BY <1>2, <2>2, Wraps DEF ShiftLeft
<1>7. QED
  BY <1>3, <1>5, <1>6

\* The codec reads the next bit of the sample.
LEMMA ReadBit ==
  ASSUME SoundInv, SclkEdge, LRCLK, slot > 0
  PROVE  /\ Len(bits') = slot
         /\ \A k \in 1..Len(bits') : bits'[k] = Out(taken[FALSE], k)
<1>1. /\ slot \in Nat /\ bits \in Seq({0, 1}) /\ SDATA \in {0, 1}
      /\ SDATA = Out(taken[FALSE], slot) /\ Len(bits) = slot - 1
  <2>1. slot \in Nat
    BY SoundAssumption, SMT DEF SoundInv, SoundTypes
  <2>2. QED
    BY <2>1 DEF SoundInv, Sending
<1>2. bits' = Append(bits, SDATA)
  <2>1. slot # 0
    BY <1>1, SMT
  <2>2. QED
    BY <2>1 DEF SclkEdge
<1>3. \A k \in 1..Len(bits) : bits[k] = Out(taken[FALSE], k)
  <2>1. slot # 0
    BY SMT
  <2>2. Carries(taken[FALSE])
    BY <2>1 DEF SoundInv, RightCarriesMix, HalfRead
  <2>3. QED
    BY <2>2, CarriesOut
<1>4. Len(bits') = slot
  BY <1>1, <1>2, SMT
<1>5. ASSUME NEW k \in 1..Len(bits') PROVE bits'[k] = Out(taken[FALSE], k)
  <2>1. CASE k = slot
    <3>1. Append(bits, SDATA)[Len(bits) + 1] = SDATA
      BY <1>1, AppendProperties, Zenon
    <3>2. Len(bits) + 1 = slot
      BY <1>1, SMT
    <3>3. QED
      BY <1>1, <1>2, <2>1, <3>1, <3>2
  <2>2. CASE k # slot
    <3>1. k \in 1..Len(bits)
      BY <1>1, <1>4, <2>2, SMT
    <3>2. bits'[k] = bits[k]
      <4>1. \A i \in 1..Len(bits) : Append(bits, SDATA)[i] = bits[i]
        BY <1>1, AppendProperties, Zenon
      <4>2. QED
        BY <1>2, <3>1, <4>1
    <3>3. QED
      BY <1>3, <3>1, <3>2
  <2>3. QED
    BY <2>1, <2>2
<1>6. QED
  BY <1>4, <1>5

LEMMA SclkTypes ==
  ASSUME SoundInv, SclkEdge
  PROVE  /\ LRCLK' \in BOOLEAN /\ slot' \in 0..(Half - 1)
         /\ right' \in Sample /\ taken' \in [BOOLEAN -> Sample]
         /\ bits' \in Seq({0, 1}) /\ SDATA' \in {0, 1} /\ left' \in Int
<1>1. SoundTypes /\ bits \in Seq({0, 1}) /\ SDATA \in {0, 1}
  BY DEF SoundInv
<1>2. mixed_sample \in Sample
  BY <1>1, MixType
<1>3. LRCLK' \in BOOLEAN
  BY <1>1 DEF SclkEdge, SoundTypes
<1>4. slot' \in 0..(Half - 1)
  BY <1>1, SoundAssumption, SMT DEF SclkEdge, SoundTypes
<1>5. taken' \in [BOOLEAN -> Sample]
  <2>1. taken' = taken \/ taken' = [taken EXCEPT ![LRCLK] = mixed_sample]
    BY DEF SclkEdge
  <2>2. QED
    BY <1>1, <1>2, <2>1 DEF SoundTypes
<1>6. bits' \in Seq({0, 1})
  <2>1. bits' = <<>> \/ bits' = Append(bits, SDATA)
    BY DEF SclkEdge
  <2>2. <<>> \in Seq({0, 1}) /\ Append(bits, SDATA) \in Seq({0, 1})
    BY <1>1, EmptySeq, AppendProperties
  <2>3. QED
    BY <2>1, <2>2
<1>7. right' \in Sample /\ SDATA' \in {0, 1}
  <2>1. CASE LRCLK
    BY <2>1, SendBit
  <2>2. CASE ~LRCLK
    <3>1. right' = mixed_sample /\ SDATA' = Bit(left, W - 1)
      BY <2>2 DEF SclkEdge
    <3>2. left \in Int /\ W - 1 \in Nat
      BY <1>1, SoundAssumption, SMT DEF SoundTypes
    <3>3. QED
      BY <1>2, <3>1, <3>2, BitType
  <2>3. QED
    BY <2>1, <2>2
<1>8. left' \in Int
  <2>1. mixed_sample \in Int /\ left \in Int /\ W - 1 \in Nat
    BY <1>1, <1>2, SampleRange, SoundAssumption, SMT DEF SoundTypes
  <2>2. Bit(mixed_sample, W - 1) \in Int
    BY <2>1, BitType, SMT
  <2>3. ShiftLeft(left) \in Int
    <3>1. 2 * left \in Int
      BY <2>1, SMT
    <3>2. QED
      BY <3>1, Wraps, SampleRange DEF ShiftLeft
  <2>4. left' = Bit(mixed_sample, W - 1) \/ left' = ShiftLeft(left)
    BY DEF SclkEdge
  <2>5. QED
    BY <2>2, <2>3, <2>4
<1>9. QED
  BY <1>3, <1>4, <1>5, <1>6, <1>7, <1>8

LEMMA WrapsToZero == Half % Half = 0
  BY SoundAssumption, SMT

\* An edge of SCLK, at each place of a frame.
LEMMA SclkSound == ASSUME SoundInv, SclkEdge PROVE SoundInv'
<1>1. SoundTypes' /\ bits' \in Seq({0, 1}) /\ SDATA' \in {0, 1}
  BY SclkTypes DEF SclkEdge, SoundInv, SoundTypes, registers
<1>2. /\ LRCLK \in BOOLEAN /\ slot \in Nat /\ slot < Half /\ Half \in Nat /\ Half > 1
      /\ taken \in [BOOLEAN -> Sample]
  BY SoundAssumption, SMT DEF SoundInv, SoundTypes
<1>3. CASE LRCLK
  <2>1. CASE slot + 1 = Half
    <3>1. slot > 0
      BY <1>2, <2>1, SMT
    <3>2. slot' = 0 /\ LRCLK' = FALSE
      BY <1>2, <1>3, <2>1, WrapsToZero DEF SclkEdge
    <3>3. taken'[FALSE] = taken[FALSE]
      BY <1>2, <1>3, <2>1 DEF SclkEdge
    <3>4. Carries(taken[FALSE])'
      BY <1>3, <3>1, <3>3, ReadBit DEF Carries, Out
    <3>5. QED
      BY <1>1, <3>2, <3>4 DEF SoundInv, Sending, RightCarriesMix
  <2>2. CASE slot + 1 # Half
    <3>1. slot' = slot + 1 /\ LRCLK' = LRCLK /\ taken' = taken
      BY <1>2, <2>2, SMT DEF SclkEdge
    <3> DEFINE Read == /\ Len(bits') = slot
                       /\ \A k \in 1..Len(bits') : bits'[k] = Out(taken[FALSE], k)
    <3>3. Read
      <4>1. CASE slot = 0
        <5>1. bits' = <<>>
          BY <4>1 DEF SclkEdge
        <5>2. Len(bits') = 0
          BY <5>1
        <5>3. QED
          BY <4>1, <5>2, SMT
      <4>2. CASE slot # 0
        <5>1. slot > 0
          BY <1>2, <4>2, SMT
        <5>2. QED
          BY <1>3, <5>1, ReadBit
      <4>3. QED
        BY <4>1, <4>2
    <3>4. Carries(taken[FALSE])'
      BY <3>1, <3>3 DEF Carries, Out
    <3>5. Sending'
      <4>1. slot' - 1 = slot
        BY <1>2, <3>1, SMT
      <4>2. QED
        BY <1>3, <3>1, <3>3, <4>1, SendBit DEF Sending
    <3>6. QED
      BY <1>1, <3>4, <3>5 DEF SoundInv, RightCarriesMix
  <2>3. QED
    BY <2>1, <2>2
<1>4. CASE ~LRCLK
  <2>1. CASE slot + 1 = Half
    <3>1. slot' = 0 /\ LRCLK' = TRUE
      BY <1>2, <1>4, <2>1, WrapsToZero DEF SclkEdge
    <3>2. right' = mixed_sample /\ taken'[FALSE] = mixed_sample
      BY <1>2, <1>4, <2>1 DEF SclkEdge
    <3>3. Rest(taken'[FALSE], 0) = taken'[FALSE]
      BY <1>1, RestWhole DEF SoundTypes
    <3>4. Sending'
      BY <3>1, <3>2, <3>3 DEF Sending, Rest
    <3>5. QED
      BY <1>1, <3>1, <3>4 DEF SoundInv, RightCarriesMix, HalfRead
  <2>2. CASE slot + 1 # Half
    <3>1. slot' = slot + 1 /\ LRCLK' = LRCLK
      BY <1>2, <2>2, SMT DEF SclkEdge
    <3>2. slot' # 0
      BY <1>2, <3>1, SMT
    <3>3. QED
      BY <1>1, <1>4, <3>1, <3>2 DEF SoundInv, Sending, RightCarriesMix, HalfRead
  <2>3. QED
    BY <2>1, <2>2
<1>5. QED
  BY <1>2, <1>3, <1>4

LEMMA SoundInductive == SoundInv /\ [Next]_vars => SoundInv'
<1> SUFFICES ASSUME SoundInv, [Next]_vars PROVE SoundInv'
  OBVIOUS
<1> USE DEF serial, registers
<1>1. ASSUME SoundTypes', UNCHANGED serial PROVE SoundInv'
  BY <1>1 DEF SoundInv, Sending, RightCarriesMix, HalfRead, Carries
<1>2. SoundTypes
  BY DEF SoundInv
<1>3. CASE ClockEdge
  <2>1. gen' \in [Voice -> Generator]
    BY <1>2, <1>3, AdvanceType DEF ClockEdge
  <2>2. SoundTypes'
    BY <1>2, <1>3, <2>1 DEF ClockEdge, SoundTypes
  <2>3. QED
    BY <1>1, <1>3, <2>2 DEF ClockEdge
<1>4. CASE Reset
  <2>1. middle \in Sample
    <3>1. W - 1 \in Nat /\ (W - 1) + 1 = W
      BY SoundAssumption, SMT
    <3>2. Power[W - 1] \in Nat /\ Power[W] = 2 * Power[W - 1] /\ Power[W] > 0
      BY <3>1, Powers
    <3>3. QED
      BY <3>2, SampleRange, SMT DEF middle
  <2>2. \A v \in Voice : init(v) \in Int /\ 0 \in Int
    BY <1>2, RegisterFacts, SMT
  <2>3. gen' \in [Voice -> Generator]
    BY <1>4, <2>1, <2>2 DEF Reset, Generator
  <2>4. SoundTypes'
    BY <1>2, <1>4, <2>3 DEF Reset, SoundTypes
  <2>5. QED
    BY <1>1, <1>4, <2>4 DEF Reset
<1>5. CASE SclkEdge
  BY <1>5, SclkSound
<1>6. CASE WriteVoice \/ WriteMaster
  <2>1. SoundTypes' /\ UNCHANGED serial
    BY <1>2, <1>6 DEF WriteVoice, WriteMaster, SoundTypes
  <2>2. QED
    BY <1>1, <2>1
<1>7. CASE UNCHANGED vars
  <2>1. SoundTypes' /\ UNCHANGED serial
    BY <1>2, <1>7 DEF vars, SoundTypes
  <2>2. QED
    BY <1>1, <2>1
<1>8. QED
  BY <1>3, <1>4, <1>5, <1>6, <1>7 DEF Next

LEMMA SoundBegins == Init => SoundInv
<1> SUFFICES ASSUME Init PROVE SoundInv
  OBVIOUS
<1>1. 0 \in Sample /\ middle \in Sample
  <2>1. W - 1 \in Nat /\ (W - 1) + 1 = W
    BY SoundAssumption, SMT
  <2>2. Power[W - 1] \in Nat /\ Power[W] = 2 * Power[W - 1] /\ Power[W] > 0
    BY <2>1, Powers
  <2>3. QED
    BY <2>2, SampleRange, SMT DEF middle
<1>2. gen \in [Voice -> Generator]
  <2>1. {0} \subseteq Int /\ {0, middle} \subseteq Sample /\ {FALSE} \subseteq BOOLEAN
    BY <1>1
  <2>2. ASSUME NEW v \in Voice PROVE gen[v] \in Generator
    <3>1. gen[v] \in [counter : {0}, local_val : {0, middle}, updown : {FALSE}]
      BY DEF Init
    <3>2. QED
      BY <2>1, <3>1 DEF Generator
  <2>3. gen = [v \in Voice |-> gen[v]]
    BY DEF Init
  <2>4. QED
    BY <2>2, <2>3, Zenon
<1>3. 0 \in 0..(Half - 1)
  BY SoundAssumption, SMT
<1>4. SoundTypes
  BY <1>1, <1>2, <1>3 DEF Init, SoundTypes
<1>5. bits = <<>> /\ slot = 0 /\ LRCLK = TRUE /\ SDATA = 0 /\ right = 0 /\ taken[FALSE] = 0
  BY DEF Init
<1>6. Sending
  <2>1. Rest(0, 0) = 0
    BY <1>1, RestWhole
  <2>2. QED
    BY <1>5, <2>1 DEF Sending
<1>7. RightCarriesMix
  BY <1>5 DEF RightCarriesMix, HalfRead
<1>8. QED
  BY <1>4, <1>5, <1>6, <1>7 DEF SoundInv

LEMMA SoundAlways == Spec => []SoundInv
BY SoundBegins, SoundInductive, PTL DEF Spec

\* What the codec reads in a right half frame is one sample: the mix at the last
\* edge of the left half, its most significant bit first and zeros behind its
\* last, whatever the generators and the processor do meanwhile.
THEOREM RightIsTheMix == Spec => []RightCarriesMix
<1>1. SoundInv => RightCarriesMix
  BY DEF SoundInv
<1>2. QED
  BY <1>1, SoundAlways, PTL

\* A volume register, a generator and the mix of any number of voices never
\* leave their width, so that the line to the codec carries bits.
THEOREM SoundTypesHold == Spec => [](SoundTypes /\ mixed_sample \in Sample)
<1>1. SoundInv => SoundTypes /\ mixed_sample \in Sample
  BY MixType DEF SoundInv
<1>2. QED
  BY <1>1, SoundAlways, PTL
=============================================================================
