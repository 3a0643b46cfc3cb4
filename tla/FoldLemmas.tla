----------------------------- MODULE FoldLemmas -----------------------------
(***************************************************************************)
(* The loops of the code over a list are folds in the models.  A fold goes  *)
(* through its steps: what it gives is the last of a row of results, each   *)
(* made of the one before and the next element.  A module takes this as an  *)
(* instance whose operator is the body of its loop; with Induct, which      *)
(* says how to reason about such a row, it stands for induction over data.  *)
(***************************************************************************)
EXTENDS Integers, Sequences, SequencesExt, SequenceTheorems, WellFoundedInduction, TLAPS

CONSTANT Op(_, _)   \* what is left after one more element

\* The results of a loop that begins with base, one for each number of
\* elements that it has gone through.
Rounds(f, base, seq) ==
  /\ DOMAIN f = 0 .. Len(seq) /\ f[0] = base
  /\ \A n \in 1 .. Len(seq) : f[n] = Op(f[n - 1], seq[n])

(* Any set of numbers has a least one; so induction on sets of numbers.     *)
LEMMA Least ==
  ASSUME NEW S \in SUBSET Nat, S # {}
  PROVE  \E m \in S : \A k \in S : m <= k
<1> DEFINE R == OpToRel(<, Nat)
<1>1. IsWellFoundedOn(R, Nat)
  BY NatLessThanWellFounded, Zenon
<1>2. \E x \in S : \A y \in S : ~(<<y, x>> \in R)
  <2> HIDE DEF R
  <2> QED BY <1>1, WFMin
<1>3. \A x, y \in S : <<y, x>> \in R <=> y < x
  BY DEF OpToRel
<1> HIDE DEF R
<1>4. PICK x \in S : \A y \in S : ~(<<y, x>> \in R)
  BY <1>2
<1>5. \A y \in S : ~(y < x)
  BY <1>3, <1>4, Zenon
<1> QED BY <1>5

(* The loops count their rounds: a set of numbers that has 0 and the next   *)
(* of each has them all.                                                    *)
LEMMA Induct ==
  ASSUME NEW S \in SUBSET Nat, 0 \in S, \A n \in S : n + 1 \in S
  PROVE  S = Nat
<1> DEFINE T == Nat \ S
<1>1. CASE T # {}
  <2> HIDE DEF T
  <2>1. T \in SUBSET Nat
    BY DEF T
  <2>2. PICK m \in T : \A k \in T : m <= k
    BY <1>1, <2>1, Least
  <2>3. m \in Nat /\ m # 0 /\ m - 1 \in Nat /\ ~(m <= m - 1)
    BY <2>1, <2>2 DEF T
  <2>4. m - 1 \in S /\ (m - 1) + 1 = m
    BY <2>2, <2>3 DEF T
  <2> QED BY <2>2, <2>4 DEF T
<1> QED BY <1>1

(* The greatest and the least of some numbers, where there are bounds.      *)
LEMMA Greatest ==
  ASSUME NEW k \in Nat, NEW s \in SUBSET (1 .. k), s # {}
  PROVE  Max(s) \in s /\ \A j \in s : Max(s) >= j
<1> DEFINE T == {k - j : j \in s}
<1>1. T \in SUBSET Nat /\ T # {}
  <2>1. \A j \in s : j \in 1 .. k /\ k - j \in Nat
    OBVIOUS
  <2>2. \E j \in s : k - j \in T
    OBVIOUS
  <2> QED BY <2>1, <2>2
<1>a. \A j \in s : k - j \in T /\ j \in Int
  OBVIOUS
<1> HIDE DEF T
<1>2. PICK m \in T : \A j \in T : m <= j
  BY <1>1, Least
<1>3. PICK i \in s : m = k - i
  BY <1>2 DEF T
<1>4. \A j \in s : i >= j
  <2> TAKE j \in s
  <2>1. m <= k - j /\ m = k - i /\ i \in Int /\ j \in Int
    BY <1>2, <1>3, <1>a
  <2> HIDE DEF T
  <2> QED BY <2>1
<1>5. \E x \in s : \A j \in s : x >= j
  BY <1>3, <1>4
<1> QED BY <1>5, Zenon DEF Max

(* A fold takes the last element of a row first (FoldLeft is defined by the *)
(* greatest index).                                                         *)
LEMMA AllButLast ==
  ASSUME NEW k \in Nat, NEW s \in SUBSET (1 .. k + 1), s # {}
  PROVE  Max(s) \in s /\ s \ {Max(s)} \in SUBSET (1 .. k)
<1>1. Max(s) \in s /\ \A j \in s : Max(s) >= j
  <2>1. k + 1 \in Nat
    OBVIOUS
  <2> QED BY <2>1, Greatest
<1>2. ASSUME NEW j \in s \ {Max(s)} PROVE j \in 1 .. k
  <2> DEFINE m == Max(s)
  <2>1. m \in 1 .. k + 1 /\ j \in 1 .. k + 1 /\ j # m /\ m >= j
    BY <1>1, <1>2
  <2> HIDE DEF m
  <2> QED BY <2>1
<1> QED BY <1>1, <1>2

(* The last element of the first k + 1 is the one at k + 1.                 *)
LEMMA LastOfInterval ==
  ASSUME NEW k \in Nat
  PROVE  Max(1 .. k + 1) = k + 1 /\ (1 .. k + 1) \ {k + 1} = 1 .. k
<1>1. Max(1 .. k + 1) \in 1 .. k + 1 /\ \A j \in 1 .. k + 1 : Max(1 .. k + 1) >= j
  <2> DEFINE all == 1 .. k + 1
  <2>1. k + 1 \in Nat /\ all \in SUBSET (1 .. k + 1) /\ 1 \in all
    OBVIOUS
  <2> HIDE DEF all
  <2>2. Max(all) \in all /\ \A j \in all : Max(all) >= j
    BY <2>1, Greatest
  <2> QED BY <2>2 DEF all
<1>2. k + 1 \in 1 .. k + 1
  OBVIOUS
<1> DEFINE m == Max(1 .. k + 1)
<1>3. m \in 1 .. k + 1 /\ m >= k + 1
  BY <1>1, <1>2
<1> HIDE DEF m
<1>4. m = k + 1
  BY <1>3
<1> QED BY <1>4 DEF m

(* A fold over a list goes through its rounds, and its result is the last.  *)
THEOREM FoldsByRounds ==
  ASSUME NEW S, NEW seq \in Seq(S), NEW base
  PROVE  \E f : Rounds(f, base, seq) /\ FoldLeft(Op, base, seq) = f[Len(seq)]
<1> DEFINE Body(f, s) == IF s = {} THEN base ELSE Op(f[s \ {Max(s)}], seq[Max(s)])
           Good(f, D) == f = [s \in SUBSET D |-> Body(f, s)]
           F == CHOOSE f : Good(f, 1 .. Len(seq))
           K == {k \in Nat : \E f : Good(f, 1 .. k)}
<1>0. Len(seq) \in Nat /\ DOMAIN seq = 1 .. Len(seq)
  OBVIOUS
<1>1. FoldLeft(Op, base, seq) = F[1 .. Len(seq)]
  BY <1>0 DEF FoldLeft, MapThenFoldSet
<1>2. 0 \in K
  <2> DEFINE f == [s \in SUBSET (1 .. 0) |-> base]
  <2>1. \A s \in SUBSET (1 .. 0) : s = {}
    OBVIOUS
  <2>2. Good(f, 1 .. 0)
    BY <2>1
  <2> HIDE DEF Good, f
  <2> QED BY <2>2
<1>3. ASSUME NEW k \in K PROVE k + 1 \in K
  <2>0. k \in Nat
    OBVIOUS
  <2>1. PICK f : Good(f, 1 .. k)
    OBVIOUS
  <2> DEFINE g == [s \in SUBSET (1 .. k + 1) |-> Body(f, s)]
  <2>2. \A s \in SUBSET (1 .. k) : g[s] = f[s]
    <3> TAKE s \in SUBSET (1 .. k)
    <3> HIDE DEF Body
    <3>1. f[s] = Body(f, s)
      BY <2>1
    <3>2. s \in SUBSET (1 .. k + 1)
      BY <2>0
    <3> QED BY <3>1, <3>2
  <2>3. \A s \in SUBSET (1 .. k + 1) : Body(g, s) = Body(f, s)
    <3> TAKE s \in SUBSET (1 .. k + 1)
    <3>1. CASE s = {}
      BY <3>1
    <3>2. CASE s # {}
      <4>1. s \ {Max(s)} \in SUBSET (1 .. k)
        BY <2>0, <3>2, AllButLast
      <4> HIDE DEF g
      <4>2. g[s \ {Max(s)}] = f[s \ {Max(s)}]
        BY <2>2, <4>1
      <4> QED BY <3>2, <4>2
    <3> QED BY <3>1, <3>2
  <2>4. Good(g, 1 .. k + 1)
    <3> HIDE DEF Body
    <3> QED BY <2>3
  <2> HIDE DEF Good, g
  <2> QED BY <2>0, <2>4
<1>4. Good(F, 1 .. Len(seq))
  <2> HIDE DEF Good
  <2>1. K \in SUBSET Nat
    OBVIOUS
  <2> HIDE DEF K
  <2>2. K = Nat
    BY <1>2, <1>3, <2>1, Induct
  <2>3. \E f : Good(f, 1 .. Len(seq))
    BY <1>0, <2>2 DEF K
  <2> QED BY <2>3
<1> HIDE DEF F
<1>5. \A s \in SUBSET (1 .. Len(seq)) : F[s] = Body(F, s)
  <2> HIDE DEF Body
  <2> QED BY <1>4
<1> DEFINE f == [n \in 0 .. Len(seq) |-> F[1 .. n]]
<1>6. f[0] = base
  <2>1. F[{}] = base
    BY <1>5
  <2>2. 1 .. 0 = {}
    OBVIOUS
  <2> QED BY <1>0, <2>1, <2>2
<1>7. ASSUME NEW n \in 1 .. Len(seq) PROVE f[n] = Op(f[n - 1], seq[n])
  <2>1. n - 1 \in Nat /\ (n - 1) + 1 = n /\ n - 1 \in 0 .. Len(seq) /\ n \in 0 .. Len(seq)
    BY <1>0
  <2>2. Max(1 .. n) = n /\ (1 .. n) \ {n} = 1 .. n - 1
    BY <2>1, LastOfInterval
  <2>3. 1 .. n \in SUBSET (1 .. Len(seq)) /\ 1 .. n # {}
    <3>1. \A i \in 1 .. n : i \in 1 .. Len(seq)
      BY <1>0
    <3>2. 1 \in 1 .. n
      BY <1>0
    <3> QED BY <3>1, <3>2
  <2>4. F[1 .. n] = Op(F[1 .. n - 1], seq[n])
    BY <1>5, <2>2, <2>3
  <2> QED BY <2>1, <2>4
<1>8. Rounds(f, base, seq) /\ FoldLeft(Op, base, seq) = f[Len(seq)]
  <2>1. Rounds(f, base, seq)
    <3> HIDE DEF f
    <3>1. DOMAIN f = 0 .. Len(seq)
      BY DEF f
    <3> QED BY <1>6, <1>7, <3>1 DEF Rounds
  <2> QED BY <1>0, <1>1, <2>1
<1> QED BY <1>8
=============================================================================
