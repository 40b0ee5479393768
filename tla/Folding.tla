------------------------------ MODULE Folding ------------------------------
(***************************************************************************)
(* Induction over numbers, and what FoldLeft computes, as facts without    *)
(* operators for parameters, which the provers can take up: a loop over a  *)
(* sequence is a function on SUBSET (1..n) for FoldLeft, and one on 0..n   *)
(* for who wants to argue about it.                                        *)
(***************************************************************************)
EXTENDS Integers, Sequences, SequencesExt, NaturalsInduction, WellFoundedInduction, TLAPS

\* A set of numbers has a first one.
LEMMA LeastNat ==
  ASSUME NEW S \in SUBSET Nat, S # {}
  PROVE  \E n \in S : \A m \in S : n <= m
<1>1. PICK x \in S : \A y \in S : ~(<<y, x>> \in OpToRel(<, Nat))
  BY NatLessThanWellFounded, WFMin
<1>2. \A y \in S : ~(y < x)
  BY <1>1 DEF OpToRel
<1> QED BY <1>2

\* What holds of 0, and of the next number up to n, holds up to n.
LEMMA CountUp ==
  ASSUME NEW n \in Nat, NEW S, 0 \in S, \A k \in 0..n : (k \in S /\ k < n) => k + 1 \in S
  PROVE  0..n \subseteq S
<1> DEFINE B == {k \in 0..n : k \notin S}
<1> SUFFICES ASSUME B # {} PROVE FALSE
  OBVIOUS
<1>1. PICK k \in B : \A m \in B : k <= m
  <2>1. B \in SUBSET Nat
    OBVIOUS
  <2> HIDE DEF B
  <2> QED BY <2>1, LeastNat
<1>2. k # 0 /\ k - 1 \in 0..n /\ k - 1 \notin B
  BY <1>1
<1> QED BY <1>1, <1>2

\* The last element of a set of positions.
LEMMA MaxIsLast ==
  ASSUME NEW n \in Nat, NEW s \in SUBSET (1..n), s # {}
  PROVE  Max(s) \in s /\ \A i \in s : i <= Max(s)
<1> DEFINE U == {n - y : y \in s}
<1>1. U \in SUBSET Nat /\ U # {}
  <2>1. \A y \in s : y \in Nat /\ n - y \in Nat
    OBVIOUS
  <2> QED BY <2>1
<1>2. PICK u \in U : \A v \in U : u <= v
  <2> HIDE DEF U
  <2> QED BY <1>1, LeastNat
<1>3. PICK x \in s : u = n - x
  OBVIOUS
<1>4. ASSUME NEW y \in s PROVE x >= y
  <2>1. n - y \in U /\ x \in Nat /\ y \in Nat
    OBVIOUS
  <2> QED BY <1>2, <1>3, <2>1
<1>5. Max(s) \in s /\ \A y \in s : Max(s) >= y
  BY <1>4 DEF Max
<1> QED BY <1>5

\* What comes before the last position of 1..k.
LEMMA Segments ==
  ASSUME NEW n \in Nat, NEW k \in 1..n
  PROVE  /\ 1..k \in SUBSET (1..n) /\ 1..k # {}
         /\ Max(1..k) = k /\ (1..k) \ {Max(1..k)} = 1..(k - 1)
<1>1. 1..k \in SUBSET (1..n) /\ k \in 1..k /\ k \in Nat
  OBVIOUS
<1>2. Max(1..k) \in 1..k /\ \A i \in 1..k : i <= Max(1..k)
  BY <1>1, MaxIsLast
<1>3. Max(1..k) = k
  BY <1>1, <1>2
<1> QED BY <1>1, <1>3

\* iter folds the sets of positions up to k, with step for the positions.
Folds(M, base, step, k, iter) ==
  /\ iter \in [SUBSET (1..k) -> M]
  /\ \A s \in SUBSET (1..k) :
       iter[s] = IF s = {} THEN base ELSE step[<<Max(s), iter[s \ {Max(s)}]>>]

\* There is what FoldLeft iterates, for a step that stays within M.
LEMMA FoldExists ==
  ASSUME NEW M, NEW base \in M, NEW n \in Nat, NEW step \in [(1..n) \X M -> M]
  PROVE  \E iter : Folds(M, base, step, n, iter)
<1> DEFINE Good(k, it) == Folds(M, base, step, k, it)
           S == {k \in 0..n : \E it : Good(k, it)}
<1>1. 0 \in S
  <2> DEFINE it == [s \in SUBSET (1..0) |-> base]
  <2>1. 1..0 = {}
    OBVIOUS
  <2>2. Good(0, it)
    BY <2>1 DEF Folds
  <2> HIDE DEF it
  <2> QED BY <2>2
<1>2. ASSUME NEW k \in 0..n, k \in S, k < n PROVE k + 1 \in S
  <2>1. PICK f : Good(k, f)
    BY <1>2
  <2> DEFINE it == [s \in SUBSET (1..(k + 1)) |->
                      IF k + 1 \in s THEN step[<<k + 1, f[s \ {k + 1}]>>] ELSE f[s]]
  <2>2. ASSUME NEW s \in SUBSET (1..(k + 1)), k + 1 \in s
        PROVE  Max(s) = k + 1 /\ s \ {k + 1} \in SUBSET (1..k) /\ f[s \ {k + 1}] \in M
    <3>1. Max(s) = k + 1
      <4>1. \A y \in s : k + 1 >= y
        OBVIOUS
      <4>2. \A x \in s : (\A y \in s : x >= y) => x = k + 1
        BY <2>2
      <4> QED BY <2>2, <4>1, <4>2 DEF Max
    <3>2. s \ {k + 1} \in SUBSET (1..k)
      OBVIOUS
    <3> QED BY <2>1, <3>1, <3>2 DEF Folds
  <2>3. ASSUME NEW s \in SUBSET (1..(k + 1)), k + 1 \notin s
        PROVE  s \in SUBSET (1..k)
    BY <2>3
  <2>4. ASSUME NEW s \in SUBSET (1..(k + 1)), k + 1 \notin s, s # {}
        PROVE  Max(s) \in s
    <3>1. k + 1 \in Nat
      OBVIOUS
    <3> QED BY <2>4, <3>1, MaxIsLast
  <2>5. it \in [SUBSET (1..(k + 1)) -> M]
    <3>1. ASSUME NEW s \in SUBSET (1..(k + 1)) PROVE it[s] \in M
      <4>1. CASE k + 1 \in s
        <5>1. k + 1 \in 1..n
          BY <1>2
        <5>2. f[s \ {k + 1}] \in M
          BY <4>1, <2>2
        <5> QED BY <4>1, <5>1, <5>2
      <4>2. CASE k + 1 \notin s
        BY <4>2, <2>1, <2>3 DEF Folds
      <4> QED BY <4>1, <4>2
    <3> QED BY <3>1
  <2>6. ASSUME NEW s \in SUBSET (1..(k + 1))
        PROVE  it[s] = IF s = {} THEN base ELSE step[<<Max(s), it[s \ {Max(s)}]>>]
    <3>1. CASE k + 1 \in s
      <4>1. it[s] = step[<<k + 1, f[s \ {k + 1}]>>]
        BY <3>1
      <4>2. s \ {k + 1} \in SUBSET (1..(k + 1)) /\ k + 1 \notin s \ {k + 1}
        OBVIOUS
      <4>3. it[s \ {k + 1}] = f[s \ {k + 1}]
        BY <4>2
      <4> HIDE DEF it
      <4> QED BY <3>1, <4>1, <4>3, <2>2
    <3>2. CASE k + 1 \notin s
      <4>1. it[s] = f[s] /\ s \in SUBSET (1..k)
        BY <3>2, <2>3
      <4>2. ASSUME s # {} PROVE it[s \ {Max(s)}] = f[s \ {Max(s)}]
        BY <3>2, <4>2, <2>4
      <4>3. f[s] = IF s = {} THEN base ELSE step[<<Max(s), f[s \ {Max(s)}]>>]
        BY <4>1, <2>1 DEF Folds
      <4> HIDE DEF it
      <4> QED BY <4>1, <4>2, <4>3
    <3> QED BY <3>1, <3>2
  <2> HIDE DEF it
  <2>7. Good(k + 1, it)
    BY <2>5, <2>6 DEF Folds
  <2> QED BY <1>2, <2>7
<1>3. n \in S
  <2> HIDE DEF S
  <2> QED BY <1>1, <1>2, CountUp
<1> QED BY <1>3

\* The same of an iteration of which it is not known that it stays within M.
Iterates(M, base, step, k, iter) ==
  /\ iter[{}] = base
  /\ \A s \in SUBSET (1..k) : s # {} /\ iter[s \ {Max(s)}] \in M
                                => iter[s] = step[<<Max(s), iter[s \ {Max(s)}]>>]

\* iter runs along the positions.
RunsAlong(M, step, n, iter) ==
  /\ \A k \in 0..n : iter[1..k] \in M
  /\ \A k \in 1..n : iter[1..k] = step[<<k, iter[1..(k - 1)]>>]

\* It does.
LEMMA FoldRuns ==
  ASSUME NEW M, NEW base \in M, NEW n \in Nat, NEW step \in [(1..n) \X M -> M],
         NEW iter, Iterates(M, base, step, n, iter)
  PROVE  RunsAlong(M, step, n, iter)
<1> DEFINE S == {k \in 0..n : iter[1..k] \in M}
<1>1. 0 \in S
  <2>1. 1..0 = {}
    OBVIOUS
  <2> QED BY <2>1 DEF Iterates
<1>2. ASSUME NEW k \in 1..n, k - 1 \in S
      PROVE  iter[1..k] = step[<<k, iter[1..(k - 1)]>>] /\ iter[1..k] \in M
  <2>1. iter[1..k] = step[<<k, iter[1..(k - 1)]>>]
    BY <1>2, Segments DEF Iterates
  <2>2. <<k, iter[1..(k - 1)]>> \in (1..n) \X M
    BY <1>2
  <2> QED BY <2>1, <2>2
<1>3. ASSUME NEW k \in 0..n, k \in S, k < n PROVE k + 1 \in S
  <2>1. k + 1 \in 1..n /\ (k + 1) - 1 = k /\ k + 1 \in 0..n
    BY <1>3
  <2>2. iter[1..(k + 1)] \in M
    BY <1>2, <1>3, <2>1
  <2> QED BY <2>1, <2>2
<1>4. 0..n \subseteq S
  <2> HIDE DEF S
  <2> QED BY <1>1, <1>3, CountUp
<1>5. \A k \in 1..n : k - 1 \in S
  BY <1>4
<1> QED BY <1>2, <1>4, <1>5 DEF RunsAlong
=============================================================================
