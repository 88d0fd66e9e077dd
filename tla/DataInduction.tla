--------------------------- MODULE DataInduction ----------------------------
(***************************************************************************)
(* Induction over numbers and what folds of the community modules compute. *)
(* Induction is over a set of numbers and a fold over an operator that is  *)
(* given as a function, as provers cannot use a theorem about all          *)
(* predicates or operators.                                                *)
(***************************************************************************)
EXTENDS Integers, SequencesExt, WellFoundedInduction, TLAPS

(* A set of natural numbers has a least element.                           *)
LEMMA LeastNatural ==
  ASSUME NEW T, T \subseteq Nat, T # {}
  PROVE  \E m \in T : \A k \in T : m <= k
<1> DEFINE R == {ss \in Nat \X Nat : ss[1] < ss[2]}
<1>1. IsWellFoundedOn(R, Nat)
  BY NatLessThanWellFounded, Zenon DEF OpToRel
<1>2. PICK m \in T : \A k \in T : ~ (<<k, m>> \in R)
  BY <1>1, WFMin, Zenon
<1>3. ASSUME NEW k \in T PROVE m <= k
  <2>1. <<k, m>> \notin R /\ <<k, m>> \in Nat \X Nat
    BY <1>2
  <2>2. ~ (k < m)
    BY <2>1
  <2> QED
    BY <2>2
<1> QED
  BY <1>3

(* Induction up to a number.                                               *)
LEMMA SetInduction ==
  ASSUME NEW N \in Nat, NEW S, 0 \in S,
         \A n \in 1 .. N : n - 1 \in S => n \in S
  PROVE  \A n \in 0 .. N : n \in S
<1>1. SUFFICES ASSUME NEW n \in 0 .. N, n \notin S PROVE FALSE
  OBVIOUS
<1> DEFINE T == {k \in 0 .. N : k \notin S}
<1>2. T \subseteq Nat /\ T # {}
  BY <1>1
<1>3. PICK m \in T : \A k \in T : m <= k
  BY <1>2, LeastNatural
<1>4. m \in 1 .. N /\ m - 1 \in 0 .. N
  BY <1>3
<1>5. m - 1 \in S
  BY <1>3, <1>4
<1> QED
  BY <1>3, <1>4, <1>5

(* The greatest element of a set that has one.                             *)
LEMMA MaxIs ==
  ASSUME NEW S \in SUBSET Int, NEW m \in S, \A x \in S : x <= m
  PROVE  Max(S) = m
<1>1. \A x \in S : (\A y \in S : x >= y) => x = m
  OBVIOUS
<1> QED
  BY <1>1 DEF Max

(* The same for the least element.                                         *)
LEMMA MinIs ==
  ASSUME NEW S \in SUBSET Int, NEW m \in S, \A x \in S : m <= x
  PROVE  Min(S) = m
<1>1. \A x \in S : (\A y \in S : x =< y) => x = m
  OBVIOUS
<1> QED
  BY <1>1 DEF Min

(* The lesser of two numbers.                                              *)
LEMMA MinOfTwo ==
  ASSUME NEW a \in Nat, NEW b \in Nat
  PROVE  Min({a, b}) \in {a, b} /\ Min({a, b}) <= a
<1>1. {a, b} \in SUBSET Int
  OBVIOUS
<1>2. CASE a <= b
  <2>1. Min({a, b}) = a
    BY <1>1, <1>2, MinIs
  <2> QED
    BY <2>1
<1>3. CASE b < a
  <2>1. Min({a, b}) = b
    BY <1>1, <1>3, MinIs
  <2> QED
    BY <1>3, <2>1
<1> QED
  BY <1>2, <1>3

(* A set of indices has a greatest one.                                    *)
LEMMA MaxOfIndices ==
  ASSUME NEW N \in Nat, NEW S \in SUBSET (1 .. N), S # {}
  PROVE  Max(S) \in S /\ \A x \in S : x <= Max(S)
<1> DEFINE R == {k \in 0 .. N : N - k \in S}
<1>1. R \subseteq Nat /\ R # {}
  <2>1. PICK x : x \in S
    OBVIOUS
  <2>2. x \in 1 .. N
    BY <2>1
  <2>3. N - x \in 0 .. N /\ N - (N - x) = x
    BY <2>2
  <2>4. N - x \in R
    BY <2>1, <2>3
  <2>5. R \subseteq Nat
    OBVIOUS
  <2> QED
    BY <2>4, <2>5, Zenon
<1>2. PICK k \in R : \A j \in R : k <= j
  BY <1>1, LeastNatural
<1>3. N - k \in S /\ k \in Nat
  BY <1>1, <1>2
<1>4. ASSUME NEW x \in S PROVE x <= N - k
  <2>1. N - x \in 0 .. N /\ N - (N - x) = x /\ x \in Nat
    OBVIOUS
  <2>2. N - x \in R
    BY <2>1
  <2> QED
    BY <1>2, <1>3, <2>1, <2>2, SMTT(30)
<1>5. Max(S) = N - k
  <2>1. S \in SUBSET Int
    OBVIOUS
  <2> HIDE DEF R
  <2> QED
    BY <1>3, <1>4, <2>1, MaxIs
<1> QED
  BY <1>3, <1>4, <1>5

(* What a fold over the indices 1 .. n of a sequence does on the way.      *)
IsFold(f, op, base, seq, n) ==
  \A S \in SUBSET (1 .. n) :
    f[S] = IF S = {} THEN base ELSE op[<<f[S \ {Max(S)}], seq[Max(S)]>>]

(* There is a fold of every sequence.                                      *)
LEMMA FoldExists ==
  ASSUME NEW B, NEW T, NEW base \in B, NEW op \in [B \X T -> B],
         NEW seq \in Seq(T)
  PROVE  \E f \in [SUBSET (1 .. Len(seq)) -> B] :
           IsFold(f, op, base, seq, Len(seq))
<1> DEFINE N == Len(seq)
           Done(n) == \E f \in [SUBSET (1 .. n) -> B] :
                        IsFold(f, op, base, seq, n)
           K == {n \in 0 .. N : Done(n)}
<1>1. N \in Nat /\ \A i \in 1 .. N : seq[i] \in T
  OBVIOUS
<1>2. 0 \in K
  <2> DEFINE f == [S \in SUBSET (1 .. 0) |-> base]
  <2>1. f \in [SUBSET (1 .. 0) -> B]
    OBVIOUS
  <2>2. \A S \in SUBSET (1 .. 0) : S = {} /\ f[S] = base
    OBVIOUS
  <2> HIDE DEF f
  <2>3. IsFold(f, op, base, seq, 0)
    BY <2>2 DEF IsFold
  <2>4. Done(0)
    BY <2>1, <2>3
  <2> HIDE DEF Done
  <2> QED
    BY <1>1, <2>4
<1>3. ASSUME NEW n \in 1 .. N, n - 1 \in K PROVE n \in K
  <2>1. PICK f \in [SUBSET (1 .. n - 1) -> B] :
          IsFold(f, op, base, seq, n - 1)
    BY <1>3
  <2>2. n \in Nat /\ n \in 1 .. n /\ seq[n] \in T
        /\ \A i \in 1 .. n : i # n => i \in 1 .. n - 1
    BY <1>1
  <2> DEFINE g == [S \in SUBSET (1 .. n) |->
                     IF n \in S THEN op[<<f[S \ {n}], seq[n]>>] ELSE f[S]]
  <2>3. ASSUME NEW S \in SUBSET (1 .. n), n \in S
        PROVE  /\ Max(S) = n /\ S \ {n} \in SUBSET (1 .. n - 1)
               /\ S \ {n} \in SUBSET (1 .. n) /\ n \notin S \ {n}
               /\ f[S \ {n}] \in B
               /\ g[S] = op[<<f[S \ {n}], seq[n]>>] /\ g[S] \in B
    <3>1. Max(S) = n
      BY <2>2, <2>3, MaxIs
    <3>2. S \ {n} \in SUBSET (1 .. n - 1)
      BY <2>2
    <3>3. f[S \ {n}] \in B
      BY <3>2
    <3> QED
      BY <2>2, <2>3, <3>1, <3>2, <3>3
  <2>4. ASSUME NEW S \in SUBSET (1 .. n), n \notin S
        PROVE  S \in SUBSET (1 .. n - 1) /\ g[S] = f[S] /\ g[S] \in B
    BY <2>2, <2>4
  <2>5. g \in [SUBSET (1 .. n) -> B]
    BY <2>3, <2>4
  <2>6. ASSUME NEW S \in SUBSET (1 .. n)
        PROVE  g[S] = IF S = {} THEN base
                      ELSE op[<<g[S \ {Max(S)}], seq[Max(S)]>>]
    <3>1. CASE n \in S
      <4>1. g[S \ {n}] = f[S \ {n}]
        BY <2>3, <2>4, <3>1
      <4> HIDE DEF g
      <4> QED
        BY <2>3, <3>1, <4>1
    <3>2. CASE n \notin S /\ S # {}
      <4>1. S \in SUBSET (1 .. n - 1) /\ g[S] = f[S]
        BY <2>4, <3>2
      <4>2. S \ {Max(S)} \in SUBSET (1 .. n) /\ n \notin S \ {Max(S)}
        BY <3>2
      <4>3. g[S \ {Max(S)}] = f[S \ {Max(S)}]
        BY <4>2, <2>4
      <4>4. f[S] = op[<<f[S \ {Max(S)}], seq[Max(S)]>>]
        BY <2>1, <3>2, <4>1 DEF IsFold
      <4> HIDE DEF g
      <4> QED
        BY <3>2, <4>1, <4>3, <4>4
    <3>3. CASE S = {}
      <4>1. S \in SUBSET (1 .. n - 1) /\ g[S] = f[S]
        BY <2>4, <3>3
      <4> HIDE DEF g
      <4> QED
        BY <2>1, <3>3, <4>1 DEF IsFold
    <3> QED
      BY <3>1, <3>2, <3>3
  <2> HIDE DEF g
  <2>7. IsFold(g, op, base, seq, n)
    BY <2>6 DEF IsFold
  <2>8. Done(n)
    BY <2>5, <2>7
  <2> HIDE DEF Done
  <2> QED
    BY <1>1, <2>8
<1> HIDE DEF K
<1>4. \A n \in 0 .. N : n \in K
  BY <1>1, <1>2, <1>3, SetInduction
<1>5. N \in K
  BY <1>1, <1>4
<1> QED
  BY <1>5 DEF K

(* The sets of indices that a fold goes through.                           *)
LEMMA IndexSets ==
  ASSUME NEW N \in Nat, NEW n \in 1 .. N
  PROVE  /\ 1 .. n \in SUBSET (1 .. N) /\ 1 .. n # {}
         /\ Max(1 .. n) = n /\ (1 .. n) \ {n} = 1 .. n - 1
<1>1. /\ n \in Nat /\ n \in 1 .. n
      /\ \A i \in 1 .. n : i \in 1 .. N /\ i <= n
  OBVIOUS
<1>2. 1 .. n # {}
  BY <1>1, Zenon
<1>3. 1 .. n \subseteq 1 .. N
  BY <1>1, Zenon
<1>4. 1 .. n \subseteq Int
  BY <1>1
<1>5. Max(1 .. n) = n
  BY <1>1, <1>4, MaxIs
<1>6. (1 .. n) \ {n} = 1 .. n - 1
  BY <1>1
<1> QED
  BY <1>2, <1>3, <1>5, <1>6, Zenon
=============================================================================
