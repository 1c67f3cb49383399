------------------------------ MODULE Recursion ------------------------------
(***************************************************************************)
(* Induction and recursion over numbers and over finite sets, stated with  *)
(* sets and functions: what the proofs about recursive functions and folds *)
(* rest on.                                                                *)
(***************************************************************************)
EXTENDS Integers, FiniteSetTheorems, TLAPS

(***************************************************************************)
(* Numbers.                                                                *)
(***************************************************************************)

\* Every set of numbers has a least one: where a search from 0 stops.
LEMMA LeastNat ==
  ASSUME NEW T, T \subseteq Nat, T # {}
  PROVE  \E x \in T : \A y \in T : x <= y
<1>1. PICK x \in T : \A y \in T : ~(<<y, x>> \in OpToRel(<, Nat))
  BY NatLessThanWellFounded, WFMin, Zenon
<1>2. \A y \in T : ~(y < x)
  BY <1>1, Zenon DEF OpToRel
<1>3. QED
  BY <1>2, SMT

\* Induction: a set with 0 and with the successor of each of its numbers has
\* them all.
LEMMA Induction ==
  ASSUME NEW G, 0 \in G, \A n \in Nat : n \in G => n + 1 \in G
  PROVE  Nat \subseteq G
<1> DEFINE T == {n \in Nat : n \notin G}
<1>1. SUFFICES ASSUME T # {} PROVE FALSE
  BY DEF T
<1>2. PICK x \in T : \A y \in T : x <= y
  BY <1>1, LeastNat
<1>3. x \in Nat /\ x # 0 /\ x \notin G
  OBVIOUS
<1>4. x - 1 \in Nat /\ x - 1 \notin T
  BY <1>2, <1>3, SMT
<1>5. x - 1 \in G
  BY <1>4
<1>6. (x - 1) + 1 \in G
  BY <1>4, <1>5
<1>7. QED
  BY <1>3, <1>6, SMT

\* One step of the recursion that starts with base.
Step(F, base, step, n) == IF n = 0 THEN base ELSE step[F[n - 1]]

Recurs(F, base, step) == \A n \in Nat : F[n] = Step(F, base, step, n)

\* A function of numbers can be defined by recursion.
LEMMA NatRecursion ==
  ASSUME NEW T, NEW base \in T, NEW step \in [T -> T]
  PROVE  \E F \in [Nat -> T] : Recurs(F, base, step)
<1> DEFINE Upto(F, k) == \A n \in 0..k : F[n] = Step(F, base, step, n)
           G == {k \in Nat : \E F \in [Nat -> T] : Upto(F, k)}
           Agree(F, H, k) == \A n \in 0..k : F[n] = H[n]
<1>1. Nat \subseteq G
  <2>1. 0 \in G
    <3>1. [n \in Nat |-> base] \in [Nat -> T] /\ Upto([n \in Nat |-> base], 0)
      BY SMT DEF Step
    <3>2. QED
      BY <3>1, Zenon
  <2>2. ASSUME NEW k \in Nat, k \in G PROVE k + 1 \in G
    <3>1. PICK F \in [Nat -> T] : Upto(F, k)
      BY <2>2
    <3> DEFINE H == [n \in Nat |-> Step(F, base, step, n)]
    <3>2. H \in [Nat -> T]
      BY SMT DEF Step
    <3>3. \A n \in 0..k : H[n] = F[n]
      BY <3>1, SMT
    <3>4. Upto(H, k + 1)
      <4> SUFFICES ASSUME NEW n \in 0..k + 1 PROVE H[n] = Step(H, base, step, n)
        OBVIOUS
      <4>1. CASE n = 0
        BY <4>1, SMT DEF Step
      <4>2. CASE n # 0
        <5>1. n - 1 \in 0..k /\ n \in Nat
          BY <4>2, SMT
        <5>2. H[n - 1] = F[n - 1]
          BY <3>3, <5>1
        <5>3. H[n] = Step(F, base, step, n)
          BY <5>1
        <5>4. QED
          BY <5>2, <5>3 DEF Step
      <4>3. QED
        BY <4>1, <4>2
    <3> HIDE DEF H, Upto
    <3>5. QED
      BY <3>2, <3>4, SMT
  <2> HIDE DEF G
  <2>3. QED
    BY <2>1, <2>2, Induction
<1>2. ASSUME NEW F \in [Nat -> T], NEW H \in [Nat -> T], NEW k \in Nat, NEW l \in Nat,
             k <= l, Upto(F, k), Upto(H, l)
      PROVE  F[k] = H[k]
  <2> DEFINE E == {n \in Nat : n <= k => F[n] = H[n]}
  <2>1. 0 \in E
    <3>1. 0 \in 0..k /\ 0 \in 0..l
      BY SMT
    <3>2. QED
      BY <1>2, <3>1 DEF Step
  <2>2. ASSUME NEW n \in Nat, n \in E PROVE n + 1 \in E
    <3> SUFFICES ASSUME n + 1 <= k PROVE F[n + 1] = H[n + 1]
      BY SMT
    <3>1. n + 1 \in 0..k /\ n + 1 \in 0..l /\ n + 1 # 0 /\ (n + 1) - 1 = n /\ n <= k
      BY <1>2, SMT
    <3>2. F[n] = H[n]
      BY <2>2, <3>1
    <3>3. F[n + 1] = Step(F, base, step, n + 1) /\ H[n + 1] = Step(H, base, step, n + 1)
      BY <1>2, <3>1
    <3>4. QED
      BY <3>1, <3>2, <3>3 DEF Step
  <2> HIDE DEF E
  <2>3. k \in E
    BY <2>1, <2>2, Induction
  <2>4. QED
    BY <2>3, SMT DEF E
<1> DEFINE A(k) == CHOOSE F \in [Nat -> T] : Upto(F, k)
           R == [k \in Nat |-> A(k)[k]]
<1>3. \A k \in Nat : A(k) \in [Nat -> T] /\ Upto(A(k), k)
  BY <1>1
<1>4. R \in [Nat -> T]
  BY <1>3
<1>5. ASSUME NEW n \in Nat PROVE R[n] = Step(R, base, step, n)
  <2>1. CASE n = 0
    <3>1. 0 \in 0..0
      BY SMT
    <3>2. A(0)[0] = Step(A(0), base, step, 0)
      BY <1>3, <3>1
    <3>3. QED
      BY <2>1, <3>2 DEF Step
  <2>2. CASE n # 0
    <3>1. n - 1 \in Nat /\ n - 1 <= n /\ n \in 0..n
      BY <2>2, SMT
    <3>2. A(n)[n] = Step(A(n), base, step, n)
      BY <1>3, <3>1
    <3>3. A(n - 1) \in [Nat -> T] /\ Upto(A(n - 1), n - 1) /\ A(n) \in [Nat -> T] /\ Upto(A(n), n)
      BY <1>3, <3>1
    <3> HIDE DEF A, Upto
    <3>4. A(n - 1)[n - 1] = A(n)[n - 1]
      BY <1>2, <3>1, <3>3, Zenon
    <3>5. R[n] = A(n)[n] /\ R[n - 1] = A(n - 1)[n - 1]
      BY <3>1
    <3>6. QED
      BY <2>2, <3>2, <3>4, <3>5, Zenon DEF Step
  <2>3. QED
    BY <2>1, <2>2
<1> HIDE DEF R
<1>6. Recurs(R, base, step)
  BY <1>5, Zenon DEF Recurs
<1>7. QED
  BY <1>4, <1>6, Zenon

(***************************************************************************)
(* Finite sets.                                                            *)
(***************************************************************************)

\* G has a subset of S when it has it without one of its elements.
Grows(G, S) == \A s \in SUBSET S : s # {} => \E x \in s : s \ {x} \in G => s \in G

\* Induction: a set with {} that grows has every subset of a finite set.
LEMMA SetInduction ==
  ASSUME NEW S, IsFiniteSet(S), NEW G, {} \in G, Grows(G, S)
  PROVE  SUBSET S \subseteq G
<1> DEFINE N == {n \in Nat : \A s \in SUBSET S : Cardinality(s) = n => s \in G}
<1>1. \A s \in SUBSET S : IsFiniteSet(s) /\ Cardinality(s) \in Nat
  BY FS_Subset, FS_CardinalityType
<1>2. 0 \in N
  BY <1>1, FS_EmptySet
<1>3. ASSUME NEW n \in Nat, n \in N PROVE n + 1 \in N
  <2> SUFFICES ASSUME NEW s \in SUBSET S, Cardinality(s) = n + 1 PROVE s \in G
    OBVIOUS
  <2>1. s # {}
    <3>1. Cardinality({}) = 0
      BY FS_EmptySet
    <3>2. n + 1 # 0
      BY SMT
    <3>3. QED
      BY <3>1, <3>2
  <2>2. PICK x \in s : s \ {x} \in G => s \in G
    BY <2>1 DEF Grows
  <2>3. Cardinality(s \ {x}) = (n + 1) - 1
    BY <1>1, FS_RemoveElement
  <2>4. Cardinality(s \ {x}) = n /\ s \ {x} \in SUBSET S
    BY <2>3, SMT
  <2>5. QED
    BY <1>3, <2>2, <2>4
<1> HIDE DEF N
<1>4. Nat \subseteq N
  BY <1>2, <1>3, Induction
<1>5. QED
  BY <1>1, <1>4 DEF N

\* One step of a fold: the element pick takes out comes last.
Fold(F, base, step, pick, s) ==
  IF s = {} THEN base ELSE step[pick[s]][F[s \ {pick[s]}]]

Picks(pick, S) == \A s \in SUBSET S : s # {} => pick[s] \in s

Folds(F, S, base, step, pick) ==
  \A s \in SUBSET S : F[s] = Fold(F, base, step, pick, s)

\* A fold over a finite set is a function.
LEMMA SetRecursion ==
  ASSUME NEW S, IsFiniteSet(S), NEW T, NEW base \in T, NEW step \in [S -> [T -> T]],
         NEW pick, Picks(pick, S)
  PROVE  \E F \in [SUBSET S -> T] : Folds(F, S, base, step, pick)
<1> USE DEF Picks
<1> DEFINE Upto(F, k) ==
             \A s \in SUBSET S : Cardinality(s) <= k => F[s] = Fold(F, base, step, pick, s)
           N == {k \in Nat : \E F \in [SUBSET S -> T] : Upto(F, k)}
<1>1. \A s \in SUBSET S : IsFiniteSet(s) /\ Cardinality(s) \in Nat /\ Cardinality(s) <= Cardinality(S)
  BY FS_Subset, FS_CardinalityType
<1>2. 0 \in N
  <2> DEFINE F == [s \in SUBSET S |-> base]
  <2>1. ASSUME NEW s \in SUBSET S, Cardinality(s) <= 0 PROVE s = {}
    <3>1. Cardinality(s) = 0
      BY <1>1, <2>1, SMT
    <3>2. QED
      BY <1>1, <3>1, FS_EmptySet
  <2>2. F \in [SUBSET S -> T] /\ Upto(F, 0)
    BY <2>1, Zenon DEF Fold
  <2>3. QED
    BY <2>2, Zenon
<1>3. ASSUME NEW k \in Nat, k \in N PROVE k + 1 \in N
  <2>1. PICK F \in [SUBSET S -> T] : Upto(F, k)
    BY <1>3
  <2> DEFINE H == [s \in SUBSET S |-> Fold(F, base, step, pick, s)]
  <2>2. H \in [SUBSET S -> T]
    <3>1. ASSUME NEW s \in SUBSET S PROVE Fold(F, base, step, pick, s) \in T
      <4>1. CASE s = {}
        BY <4>1 DEF Fold
      <4>2. CASE s # {}
        <5>1. pick[s] \in S /\ s \ {pick[s]} \in SUBSET S
          BY <4>2
        <5>2. F[s \ {pick[s]}] \in T
          BY <5>1
        <5>3. QED
          BY <4>2, <5>1, <5>2 DEF Fold
      <4>3. QED
        BY <4>1, <4>2
    <3>2. QED
      BY <3>1
  <2>3. \A s \in SUBSET S : Cardinality(s) <= k => H[s] = F[s]
    BY <2>1
  <2>4. Upto(H, k + 1)
    <3> SUFFICES ASSUME NEW s \in SUBSET S, Cardinality(s) <= k + 1
                 PROVE  H[s] = Fold(H, base, step, pick, s)
      OBVIOUS
    <3>1. H[s] = Fold(F, base, step, pick, s)
      OBVIOUS
    <3>2. CASE s = {}
      BY <3>1, <3>2 DEF Fold
    <3>3. CASE s # {}
      <4> DEFINE r == s \ {pick[s]}
      <4>1. r \in SUBSET S /\ pick[s] \in s
        BY <3>3
      <4>2. Cardinality(r) = Cardinality(s) - 1
        BY <1>1, <4>1, FS_RemoveElement
      <4>3. Cardinality(r) <= k
        BY <1>1, <4>1, <4>2, SMT
      <4>4. H[r] = F[r]
        BY <2>3, <4>1, <4>3
      <4>5. QED
        BY <3>1, <3>3, <4>4 DEF Fold
    <3>4. QED
      BY <3>2, <3>3
  <2> HIDE DEF H, Upto
  <2>5. QED
    BY <2>2, <2>4, SMT
<1> HIDE DEF N
<1>4. Nat \subseteq N
  BY <1>2, <1>3, Induction
<1>5. Cardinality(S) \in N
  BY <1>4, FS_CardinalityType
<1>6. PICK F \in [SUBSET S -> T] : Upto(F, Cardinality(S))
  BY <1>5 DEF N
<1>7. Folds(F, S, base, step, pick)
  BY <1>1, <1>6 DEF Folds
<1>8. QED
  BY <1>7, Zenon

(***************************************************************************)
(* Division.                                                               *)
(***************************************************************************)

\* The quotient and the remainder.
LEMMA Divide ==
  ASSUME NEW a \in Int, NEW d \in Int, d > 0
  PROVE  /\ a \div d \in Int /\ a % d \in Int
         /\ a = d * (a \div d) + (a % d)
         /\ 0 <= a % d /\ a % d < d
  BY SMT
=============================================================================
