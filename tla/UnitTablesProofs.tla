-------------------------- MODULE UnitTablesProofs --------------------------
(***************************************************************************)
(* Proofs about the decisions in UnitTables, for catalogues, units, disks   *)
(* and lists of any size: a unit is identified by what it is (first part),  *)
(* transfers reach the bytes they are for and the raid metadata of a disk   *)
(* survive its erase (second part), an array is all data disks (third), bus *)
(* devices are counted exactly (fourth), and the images, kernels and disks  *)
(* of a restore are the right ones (fifth).  The loops that take these one  *)
(* by one are folds, and each is an instance of the induction of FoldLemmas.*)
(***************************************************************************)
EXTENDS UnitTables, FiniteSetTheorems, SequenceTheorems, TLAPS

Loop  == INSTANCE FoldLemmas WITH Op <- TakeCpu
Keep  == INSTANCE FoldLemmas WITH Op <- AddDevice
Group == INSTANCE FoldLemmas WITH Op <- AddArray
Count == INSTANCE FoldLemmas WITH Op <- TakeDevice
Try   == INSTANCE FoldLemmas WITH Op <- TryUpd
Take  == INSTANCE FoldLemmas WITH Op <- TakeClosest

-----------------------------------------------------------------------------
IndexSet(cpus, c) == {i \in 1 .. Len(cpus) : cpus[i] = c}

(* How often a processor is in a list (processorMatch, identify.go:101) is  *)
(* a number.                                                                *)
LEMMA TimesType ==
  ASSUME NEW C, NEW cpus \in Seq(C), NEW c
  PROVE  Times(cpus, c) \in Nat /\ IsFiniteSet(IndexSet(cpus, c)) /\ Times(cpus, c) = Cardinality(IndexSet(cpus, c))
<1>1. IsFiniteSet(1 .. Len(cpus))
  BY FS_Interval
<1>2. IndexSet(cpus, c) \in SUBSET (1 .. Len(cpus))
  BY DEF IndexSet
<1>3. IsFiniteSet(IndexSet(cpus, c))
  BY <1>1, <1>2, FS_Subset
<1>4. Times(cpus, c) = Cardinality(IndexSet(cpus, c))
  BY DEF Times, IndexSet
<1> QED BY <1>3, <1>4, FS_CardinalityType

(* Lists that can be matched one by one have as many members.               *)
LEMMA SameTimes ==
  ASSUME NEW S, NEW T, IsFiniteSet(S), NEW f \in [S -> T],
         \A x, y \in S : f[x] = f[y] => x = y, \A y \in T : \E x \in S : f[x] = y
  PROVE  Cardinality(T) = Cardinality(S)
<1>1. f \in Bijection(S, T)
  BY DEF Bijection, Injection, Surjection, IsInjective
<1>2. ExistsBijection(S, T)
  BY <1>1 DEF ExistsBijection
<1> QED BY <1>2, FS_Bijection

(* What is left of a list when a member is taken from it.                   *)
LEMMA LeftOver ==
  ASSUME NEW C, NEW list \in Seq(C), NEW k \in 1 .. Len(list)
  PROVE  /\ RemoveAt(list, k) \in Seq(C) /\ Len(RemoveAt(list, k)) = Len(list) - 1
         /\ \A i \in 1 .. Len(list) - 1 : RemoveAt(list, k)[i] = list[IF i < k THEN i ELSE i + 1]
<1> DEFINE n == Len(list)
           rest == RemoveAt(list, k)
           Old(i) == IF i < k THEN i ELSE i + 1
<1>1. n \in Nat /\ k \in 1 .. n
  OBVIOUS
<1>2. rest \in Seq(C) /\ Len(rest) = n - 1 /\ \A i \in 1 .. n - 1 : rest[i] = list[Old(i)]
  <2> DEFINE a == SubSeq(list, 1, k - 1)  b == SubSeq(list, k + 1, n)
  <2>1. a \in Seq(C) /\ Len(a) = k - 1 /\ \A i \in 1 .. k - 1 : a[i] = list[i]
    OBVIOUS
  <2>2. b \in Seq(C) /\ Len(b) = n - k /\ \A i \in 1 .. n - k : b[i] = list[k + i]
    OBVIOUS
  <2>3. rest = a \o b
    BY DEF RemoveAt
  <2> HIDE DEF a, b, rest
  <2>4. rest \in Seq(C) /\ Len(rest) = n - 1
    BY <1>1, <2>1, <2>2, <2>3
  <2>5. \A i \in 1 .. n - 1 : rest[i] = list[Old(i)]
    <3> SUFFICES ASSUME NEW i \in 1 .. n - 1 PROVE rest[i] = list[Old(i)]
      OBVIOUS
    <3> HIDE DEF n
    <3>1. CASE i < k
      BY <1>1, <2>1, <2>2, <2>3, <3>1
    <3>2. CASE ~(i < k)
      <4>1. i - (k - 1) \in 1 .. n - k /\ k + (i - (k - 1)) = i + 1 /\ i \in Int
        BY <1>1, <3>2
      <4>2. rest[i] = b[i - (k - 1)]
        BY <1>1, <2>1, <2>2, <2>3, <3>2, <4>1
      <4> QED BY <2>2, <3>2, <4>1, <4>2
    <3> QED BY <3>1, <3>2
  <2> QED BY <2>4, <2>5
<1> QED BY <1>2

(* A processor that is taken from a list (identify.go:117) is there once    *)
(* less, and all others are there as often as before.                       *)
LEMMA OneTaken ==
  ASSUME NEW C, NEW cpus \in Seq(C), NEW k \in 1 .. Len(cpus)
  PROVE  /\ RemoveAt(cpus, k) \in Seq(C)
         /\ \A c : Times(RemoveAt(cpus, k), c) = IF c = cpus[k] THEN Times(cpus, c) - 1 ELSE Times(cpus, c)
<1> DEFINE n == Len(cpus)
           rest == RemoveAt(cpus, k)
           Old(i) == IF i < k THEN i ELSE i + 1
<1>1. n \in Nat /\ k \in 1 .. n
  OBVIOUS
<1>2. rest \in Seq(C) /\ Len(rest) = n - 1 /\ \A i \in 1 .. n - 1 : rest[i] = cpus[Old(i)]
  BY LeftOver
<1>3. ASSUME NEW c PROVE Times(rest, c) = IF c = cpus[k] THEN Times(cpus, c) - 1 ELSE Times(cpus, c)
  <2> DEFINE S == IndexSet(rest, c)  T == IndexSet(cpus, c) \ {k}
             f == [i \in S |-> Old(i)]
  <2>1. IsFiniteSet(S) /\ Cardinality(S) = Times(rest, c)
    <3> HIDE DEF rest
    <3> QED BY <1>2, TimesType
  <2>2. f \in [S -> T] /\ (\A x, y \in S : f[x] = f[y] => x = y)
    <3> HIDE DEF rest
    <3>1. \A i \in S : i \in 1 .. n - 1 /\ rest[i] = c
      BY <1>2 DEF IndexSet
    <3>2. \A i \in S : Old(i) \in T
      BY <1>1, <1>2, <3>1 DEF IndexSet
    <3> QED BY <3>1, <3>2
  <2>3. \A y \in T : \E x \in S : f[x] = y
    <3> TAKE y \in T
    <3> DEFINE x == IF y < k THEN y ELSE y - 1
    <3>1. y \in 1 .. n /\ y # k /\ cpus[y] = c
      BY DEF IndexSet
    <3>2. x \in 1 .. n - 1 /\ Old(x) = y
      BY <1>1, <3>1
    <3> HIDE DEF x, rest
    <3>3. rest[x] = c /\ x \in S
      BY <1>1, <1>2, <3>1, <3>2 DEF IndexSet
    <3> QED BY <3>2, <3>3
  <2> HIDE DEF S, f, rest
  <2>4. Cardinality(T) = Times(rest, c)
    <3> HIDE DEF T
    <3> QED BY <2>1, <2>2, <2>3, SameTimes
  <2>5. k \in IndexSet(cpus, c) <=> c = cpus[k]
    BY DEF IndexSet
  <2>6. IsFiniteSet(IndexSet(cpus, c)) /\ Times(cpus, c) = Cardinality(IndexSet(cpus, c))
    BY TimesType
  <2> QED BY <2>4, <2>5, <2>6, FS_RemoveElement
<1> QED BY <1>2, <1>3

(* The least of some places in a list.                                      *)
LEMMA FirstOf ==
  ASSUME NEW k \in Nat, NEW s \in SUBSET (1 .. k), s # {}
  PROVE  Min(s) \in s /\ \A j \in s : Min(s) <= j
<1>1. s \in SUBSET Nat
  OBVIOUS
<1>2. \E m \in s : \A j \in s : m <= j
  BY <1>1, Loop!Least
<1> QED BY <1>2, Zenon DEF Min

(* What one round of the loop of processorMatch (identify.go:113) leaves:   *)
(* the processor once less, if it was there.                                *)
LEMMA CpuTaken ==
  ASSUME NEW C, NEW cpus \in Seq(C), NEW cpu
  PROVE  /\ TakeCpu(cpus, cpu) \in Seq(C)
         /\ \A c : Times(TakeCpu(cpus, cpu), c) =
                     IF c = cpu /\ Times(cpus, c) > 0 THEN Times(cpus, c) - 1 ELSE Times(cpus, c)
<1> DEFINE at == IndexSet(cpus, cpu)
<1>1. Len(cpus) \in Nat /\ at \in SUBSET (1 .. Len(cpus)) /\ IsFiniteSet(at)
      /\ Times(cpus, cpu) = Cardinality(at) /\ Times(cpus, cpu) \in Nat
  <2>1. at \in SUBSET (1 .. Len(cpus)) /\ Len(cpus) \in Nat
    BY DEF IndexSet
  <2> QED BY <2>1, TimesType
<1>2. TakeCpu(cpus, cpu) = IF at = {} THEN cpus ELSE RemoveAt(cpus, Min(at))
  BY DEF TakeCpu, IndexSet
<1>3. CASE at = {}
  <2>1. Times(cpus, cpu) = 0 /\ TakeCpu(cpus, cpu) = cpus
    BY <1>1, <1>2, <1>3, FS_EmptySet
  <2> QED BY <2>1
<1>4. CASE at # {}
  <2> DEFINE k == Min(at)
  <2>1. k \in at
    <3> HIDE DEF at
    <3> QED BY <1>1, <1>4, FirstOf
  <2>2. k \in 1 .. Len(cpus) /\ cpus[k] = cpu
    BY <2>1 DEF IndexSet
  <2>3. Times(cpus, cpu) > 0
    <3> HIDE DEF at
    <3>1. Cardinality(at) # 0
      BY <1>1, <1>4, FS_EmptySet
    <3> QED BY <1>1, <3>1
  <2> HIDE DEF k
  <2>4. /\ RemoveAt(cpus, k) \in Seq(C)
        /\ \A c : Times(RemoveAt(cpus, k), c) = IF c = cpus[k] THEN Times(cpus, c) - 1 ELSE Times(cpus, c)
    BY <2>2, OneTaken
  <2>5. TakeCpu(cpus, cpu) = RemoveAt(cpus, k)
    BY <1>2, <1>4 DEF k
  <2> HIDE DEF at
  <2> QED BY <2>2, <2>3, <2>4, <2>5
<1> QED BY <1>3, <1>4

\* How often one is among the first n.
TimesUpTo(cpus, n, c) == Cardinality({i \in 1 .. n : cpus[i] = c})

\* One more among them makes it one more time.
Grows(cpus, c) ==
  /\ \A n \in 0 .. Len(cpus) : TimesUpTo(cpus, n, c) \in Nat
  /\ TimesUpTo(cpus, 0, c) = 0 /\ TimesUpTo(cpus, Len(cpus), c) = Times(cpus, c)
  /\ \A n \in 1 .. Len(cpus) :
       TimesUpTo(cpus, n, c) = IF cpus[n] = c THEN TimesUpTo(cpus, n - 1, c) + 1 ELSE TimesUpTo(cpus, n - 1, c)

(* How often a processor is among the first of a list, as the loop of       *)
(* processorMatch goes through it.                                          *)
LEMMA TimesGrow ==
  ASSUME NEW C, NEW cpus \in Seq(C), NEW c
  PROVE  Grows(cpus, c)
<1> DEFINE among(n) == {i \in 1 .. n : cpus[i] = c}
<1>1. \A n \in 0 .. Len(cpus) : IsFiniteSet(among(n))
  <2> TAKE n \in 0 .. Len(cpus)
  <2>1. IsFiniteSet(1 .. n)
    BY FS_Interval
  <2> QED BY <2>1, FS_Subset
<1>2. among(0) = {}
  OBVIOUS
<1>3. ASSUME NEW n \in 1 .. Len(cpus)
      PROVE  TimesUpTo(cpus, n, c) = IF cpus[n] = c THEN TimesUpTo(cpus, n - 1, c) + 1 ELSE TimesUpTo(cpus, n - 1, c)
  <2>1. n - 1 \in 0 .. Len(cpus) /\ n \notin among(n - 1)
    OBVIOUS
  <2>2. IsFiniteSet(among(n - 1))
    BY <1>1, <2>1
  <2>3. CASE cpus[n] = c
    <3>1. among(n) = among(n - 1) \cup {n}
      BY <2>3
    <3> QED BY <2>1, <2>2, <2>3, <3>1, FS_AddElement DEF TimesUpTo
  <2>4. CASE cpus[n] # c
    <3>1. among(n) = among(n - 1)
      BY <2>4
    <3> QED BY <2>4, <3>1 DEF TimesUpTo
  <2> QED BY <2>3, <2>4
<1>4. \A n \in 0 .. Len(cpus) : TimesUpTo(cpus, n, c) \in Nat
  <2> TAKE n \in 0 .. Len(cpus)
  <2>1. IsFiniteSet(among(n)) /\ TimesUpTo(cpus, n, c) = Cardinality(among(n))
    BY <1>1 DEF TimesUpTo
  <2> HIDE DEF among
  <2> QED BY <2>1, FS_CardinalityType
<1>5. TimesUpTo(cpus, 0, c) = 0 /\ TimesUpTo(cpus, Len(cpus), c) = Times(cpus, c)
  BY <1>2, FS_EmptySet DEF TimesUpTo, Times
<1> QED BY <1>3, <1>4, <1>5, Zenon DEF Grows

(* What the whole loop of processorMatch leaves of a list: each processor   *)
(* as often as it was there more than it was taken. The induction over the  *)
(* loop.                                                                    *)
LEMMA CpusTaken ==
  ASSUME NEW C, NEW cpus \in Seq(C), NEW D, NEW taken \in Seq(D), NEW c
  PROVE  LET left == FoldLeft(TakeCpu, cpus, taken)
         IN /\ left \in Seq(C)
            /\ Times(left, c) = IF Times(cpus, c) <= Times(taken, c) THEN 0 ELSE Times(cpus, c) - Times(taken, c)
<1>0. Len(taken) \in Nat
  OBVIOUS
<1>1. PICK f : Loop!Rounds(f, cpus, taken) /\ FoldLeft(TakeCpu, cpus, taken) = f[Len(taken)]
  BY Loop!FoldsByRounds DEF Loop!FoldLeft, FoldLeft, Loop!Max, Max, Loop!MapThenFoldSet, MapThenFoldSet
<1>2. f[0] = cpus /\ \A n \in 1 .. Len(taken) : f[n] = TakeCpu(f[n - 1], taken[n])
  BY <1>1 DEF Loop!Rounds
<1>t. \A n \in 1 .. Len(taken) :
        TimesUpTo(taken, n, c) = IF taken[n] = c THEN TimesUpTo(taken, n - 1, c) + 1 ELSE TimesUpTo(taken, n - 1, c)
  <2>1. Grows(taken, c)
    BY TimesGrow
  <2> QED BY <2>1, Zenon DEF Grows
<1>g. /\ \A n \in 0 .. Len(taken) : TimesUpTo(taken, n, c) \in Nat
      /\ TimesUpTo(taken, 0, c) = 0 /\ TimesUpTo(taken, Len(taken), c) = Times(taken, c)
  <2>1. Grows(taken, c)
    BY TimesGrow
  <2> QED BY <2>1, Zenon DEF Grows
<1> DEFINE Left(n) == /\ f[n] \in Seq(C)
                      /\ Times(f[n], c) = IF Times(cpus, c) <= TimesUpTo(taken, n, c) THEN 0
                                          ELSE Times(cpus, c) - TimesUpTo(taken, n, c)
           K == {n \in Nat : n <= Len(taken) => Left(n)}
<1>3. 0 \in K
  <2>1. Left(0)
    BY <1>2, <1>g, TimesType
  <2> HIDE DEF Left
  <2> QED BY <2>1
<1>4. ASSUME NEW n \in K PROVE n + 1 \in K
  <2>1. SUFFICES ASSUME n + 1 <= Len(taken) PROVE Left(n + 1)
    <3> HIDE DEF Left
    <3> QED BY <1>0
  <2>2. n \in Nat /\ Left(n) /\ n + 1 \in 1 .. Len(taken) /\ (n + 1) - 1 = n /\ n \in 0 .. Len(taken) /\ n + 1 \in 0 .. Len(taken)
    <3> HIDE DEF Left
    <3> QED BY <1>0, <2>1
  <2> DEFINE cpu == taken[n + 1]
             was == Times(f[n], c)
             now == Times(f[n + 1], c)
             before == TimesUpTo(taken, n, c)
             after == TimesUpTo(taken, n + 1, c)
             all == Times(cpus, c)
  <2>3. f[n + 1] = TakeCpu(f[n], cpu)
    BY <1>2, <2>2
  <2>4. f[n + 1] \in Seq(C) /\ now = IF c = cpu /\ was > 0 THEN was - 1 ELSE was
    <3> HIDE DEF cpu
    <3> QED BY <2>2, <2>3, CpuTaken
  <2>5. after = IF cpu = c THEN before + 1 ELSE before
    <3> DEFINE m == n + 1
    <3>1. m \in 1 .. Len(taken) /\ m - 1 = n
      BY <2>2
    <3> HIDE DEF m
    <3>2. TimesUpTo(taken, m, c) = IF taken[m] = c THEN TimesUpTo(taken, m - 1, c) + 1 ELSE TimesUpTo(taken, m - 1, c)
      BY <3>1, <1>t, Zenon
    <3> QED BY <3>1, <3>2 DEF m
  <2>6. before \in Nat /\ all \in Nat
    BY <1>g, <2>2, TimesType
  <2>7. was = IF all <= before THEN 0 ELSE all - before
    BY <2>2
  <2> HIDE DEF cpu, was, now, before, after, all
  <2>8. now = IF all <= after THEN 0 ELSE all - after
    BY <2>4, <2>5, <2>6, <2>7
  <2> QED BY <2>4, <2>8 DEF now, after, all
<1>5. K = Nat
  <2>1. K \in SUBSET Nat
    OBVIOUS
  <2> HIDE DEF K
  <2> QED BY <1>3, <1>4, <2>1, Loop!Induct
<1>6. Left(Len(taken))
  <2> HIDE DEF Left
  <2> QED BY <1>0, <1>5
<1> QED BY <1>1, <1>6, <1>g

(* A list in which nothing is any number of times is empty (len(cpus) == 0, *)
(* identify.go:123).                                                        *)
LEMMA NoneLeft ==
  ASSUME NEW C, NEW left \in Seq(C)
  PROVE  left = << >> <=> \A c \in C : Times(left, c) = 0
<1>1. ASSUME left = << >>, NEW c \in C PROVE Times(left, c) = 0
  <2>1. {i \in 1 .. Len(left) : left[i] = c} = {}
    BY <1>1
  <2> QED BY <2>1, FS_EmptySet DEF Times
<1>2. ASSUME left # << >> PROVE \E c \in C : Times(left, c) # 0
  <2>1. Len(left) \in Nat /\ Len(left) # 0 /\ 1 \in 1 .. Len(left) /\ left[1] \in C
    BY <1>2
  <2>2. 1 \in IndexSet(left, left[1])
    BY <2>1 DEF IndexSet
  <2> DEFINE at == IndexSet(left, left[1])
  <2>3. IsFiniteSet(at) /\ Times(left, left[1]) = Cardinality(at)
    BY TimesType
  <2> HIDE DEF at
  <2>4. Times(left, left[1]) # 0
    BY <2>2, <2>3, FS_EmptySet DEF at
  <2> QED BY <2>1, <2>4
<1> QED BY <1>1, <1>2

(* processorMatch, for any lists: nothing is left just when each processor  *)
(* of the unit is in the variant as often or more.                          *)
LEMMA MatchByTimes ==
  ASSUME NEW C, NEW cpus \in Seq(C), NEW variant, variant.cpus \in Seq(C)
  PROVE  ProcessorMatch(variant, cpus) <=>
           variant.cpus = << >> \/ \A c \in C : Times(cpus, c) <= Times(variant.cpus, c)
<1> DEFINE left == FoldLeft(TakeCpu, cpus, variant.cpus)
<1>1. ProcessorMatch(variant, cpus) <=> variant.cpus = << >> \/ left = << >>
  BY DEF ProcessorMatch
<1>2. left \in Seq(C) /\ \A c : Times(left, c) = IF Times(cpus, c) <= Times(variant.cpus, c) THEN 0
                                                  ELSE Times(cpus, c) - Times(variant.cpus, c)
  <2> DEFINE taken == variant.cpus
  <2>1. taken \in Seq(C)
    OBVIOUS
  <2> HIDE DEF taken
  <2>2. \A c : FoldLeft(TakeCpu, cpus, taken) \in Seq(C) /\ Times(FoldLeft(TakeCpu, cpus, taken), c) =
               IF Times(cpus, c) <= Times(taken, c) THEN 0 ELSE Times(cpus, c) - Times(taken, c)
    BY <2>1, CpusTaken
  <2> QED BY <2>2 DEF taken
<1> HIDE DEF left
<1>3. \A c : Times(cpus, c) \in Nat /\ Times(variant.cpus, c) \in Nat
  BY TimesType
<1>4. \A c : Times(left, c) = 0 <=> Times(cpus, c) <= Times(variant.cpus, c)
  <2> TAKE c
  <2> DEFINE a == Times(cpus, c)  b == Times(variant.cpus, c)  l == Times(left, c)
  <2>1. a \in Nat /\ b \in Nat /\ l = IF a <= b THEN 0 ELSE a - b
    BY <1>2, <1>3
  <2> HIDE DEF a, b, l
  <2>2. l = 0 <=> a <= b
    BY <2>1
  <2> QED BY <2>2 DEF a, b, l
<1>5. left = << >> <=> \A c \in C : Times(left, c) = 0
  BY <1>2, NoneLeft
<1> QED BY <1>1, <1>4, <1>5

(* A list and its reverse have everything the same number of times.         *)
LEMMA TimesReversed ==
  ASSUME NEW C, NEW cpus \in Seq(C), NEW c
  PROVE  Reverse(cpus) \in Seq(C) /\ Times(Reverse(cpus), c) = Times(cpus, c)
<1> DEFINE n == Len(cpus)
           back == Reverse(cpus)
           S == IndexSet(back, c)
           T == IndexSet(cpus, c)
           f == [i \in S |-> (n - i) + 1]
<1>1. n \in Nat /\ \A i \in 1 .. n : (n - i) + 1 \in 1 .. n /\ (n - ((n - i) + 1)) + 1 = i
  OBVIOUS
<1>2. back \in Seq(C) /\ Len(back) = n /\ \A i \in 1 .. n : back[i] = cpus[(n - i) + 1]
  <2>1. back = [i \in 1 .. n |-> cpus[(n - i) + 1]]
    BY DEF Reverse
  <2>2. \A i \in 1 .. n : cpus[(n - i) + 1] \in C
    BY <1>1
  <2> HIDE DEF back, n
  <2> QED BY <1>1, <2>1, <2>2
<1> HIDE DEF back, n
<1>3. IsFiniteSet(S) /\ Times(back, c) = Cardinality(S)
  BY <1>2, TimesType
<1>4. \A i \in 1 .. n : i \in S <=> (n - i) + 1 \in T
  BY <1>1, <1>2 DEF IndexSet, n
<1>5. S \in SUBSET (1 .. n) /\ T \in SUBSET (1 .. n)
  BY <1>2 DEF IndexSet, n
<1> HIDE DEF S, T
<1>6. f \in [S -> T] /\ (\A x, y \in S : f[x] = f[y] => x = y)
  <2>1. \A i \in S : i \in 1 .. n /\ (n - i) + 1 \in T
    BY <1>4, <1>5
  <2>2. \A x, y \in S : (n - x) + 1 = (n - y) + 1 => x = y
    BY <1>1, <2>1
  <2> QED BY <2>1, <2>2
<1>7. \A y \in T : \E x \in S : f[x] = y
  <2> TAKE y \in T
  <2>1. y \in 1 .. n /\ (n - y) + 1 \in 1 .. n /\ (n - ((n - y) + 1)) + 1 = y
    BY <1>1, <1>5
  <2>2. (n - y) + 1 \in S
    BY <1>4, <2>1
  <2>3. f[(n - y) + 1] = y
    BY <2>1, <2>2
  <2> QED BY <2>2, <2>3
<1> HIDE DEF f
<1>8. Cardinality(T) = Cardinality(S)
  BY <1>3, <1>6, <1>7, SameTimes
<1>9. Times(cpus, c) = Cardinality(T)
  BY TimesType DEF T
<1> QED BY <1>2, <1>3, <1>8, <1>9 DEF back

(* The first variant that fits (identify.go:52) fits, and there is none     *)
(* only if none fits.                                                       *)
LEMMA FirstFitFits ==
  ASSUME NEW variants, Len(variants) \in Nat, NEW mfg, NEW prod, NEW unit
  PROVE  LET first == FirstFit(variants, mfg, prod, unit)
         IN /\ first # 0 => first \in 1 .. Len(variants) /\ Fits(variants[first], mfg, prod, unit)
            /\ first = 0 => \A i \in 1 .. Len(variants) : ~Fits(variants[i], mfg, prod, unit)
<1> DEFINE fit == {i \in 1 .. Len(variants) : Fits(variants[i], mfg, prod, unit)}
<1>1. FirstFit(variants, mfg, prod, unit) = IF fit = {} THEN 0 ELSE Min(fit)
  BY Zenon DEF FirstFit
<1>2. fit \in SUBSET (1 .. Len(variants))
  OBVIOUS
<1>3. fit # {} => Min(fit) \in fit
  <2> HIDE DEF fit
  <2> QED BY <1>2, FirstOf
<1>4. ASSUME fit # {} PROVE Min(fit) # 0 /\ Min(fit) \in 1 .. Len(variants) /\ Fits(variants[Min(fit)], mfg, prod, unit)
  BY <1>3, <1>4
<1>5. ASSUME fit = {} PROVE \A i \in 1 .. Len(variants) : ~Fits(variants[i], mfg, prod, unit)
  BY <1>5
<1> HIDE DEF fit
<1> QED BY <1>1, <1>4, <1>5, Zenon

(* The variant that the recovery volume names (Get, identify.go:215) has    *)
(* that code name.                                                          *)
LEMMA FallbackIsNamed ==
  ASSUME NEW variants, Len(variants) \in Nat, NEW code, FallbackFile(variants, code) # 0
  PROVE  variants[FallbackFile(variants, code)].code = code
<1> DEFINE named == {i \in 1 .. Len(variants) : variants[i].code = code}
<1>1. FallbackFile(variants, code) = IF named = {} THEN 0 ELSE Min(named)
  BY Zenon DEF FallbackFile
<1>2. named \in SUBSET (1 .. Len(variants))
  OBVIOUS
<1>3. named # {} => Min(named) \in named
  <2> HIDE DEF named
  <2> QED BY <1>2, FirstOf
<1> QED BY <1>1, <1>3, Zenon

(* processorMatch says what HasCpus says.                                   *)
LEMMA MatchIsCpus ==
  ASSUME NEW C, NEW cpus \in Seq(C), NEW variant, variant.cpus \in Seq(C)
  PROVE  ProcessorMatch(variant, cpus) <=> HasCpus(variant, cpus)
<1> DEFINE own == variant.cpus  all == cpus \o own
<1>1. own \in Seq(C)
  OBVIOUS
<1>2. /\ ToSet(all) \subseteq C
      /\ \A i \in 1 .. Len(cpus) : cpus[i] \in ToSet(all)
  <2> HIDE DEF own
  <2>1. all \in Seq(C) /\ Len(all) = Len(cpus) + Len(own) /\ \A i \in 1 .. Len(cpus) : all[i] = cpus[i]
    BY <1>1
  <2>2. DOMAIN all = 1 .. Len(all) /\ \A i \in 1 .. Len(cpus) : i \in 1 .. Len(all)
    BY <1>1, <2>1
  <2> HIDE DEF all
  <2> QED BY <2>1, <2>2 DEF ToSet
<1> HIDE DEF own, all
<1>3. \A c : Times(cpus, c) \in Nat /\ Times(own, c) \in Nat
  BY <1>1, TimesType
<1>4. ASSUME NEW c \in C, c \notin ToSet(all) PROVE Times(cpus, c) = 0
  <2>1. {i \in 1 .. Len(cpus) : cpus[i] = c} = {}
    BY <1>2, <1>4
  <2> QED BY <2>1, FS_EmptySet DEF Times
<1>5. (\A c \in C : Times(cpus, c) <= Times(own, c)) <=> (\A c \in ToSet(all) : Times(own, c) >= Times(cpus, c))
  <2>1. \A c : Times(cpus, c) <= Times(own, c) <=> Times(own, c) >= Times(cpus, c)
    BY <1>3
  <2>2. \A c \in C : c \notin ToSet(all) => Times(cpus, c) <= Times(own, c)
    BY <1>3, <1>4
  <2> QED BY <1>2, <2>1, <2>2, Zenon
<1>6. ProcessorMatch(variant, cpus) <=> own = << >> \/ \A c \in C : Times(cpus, c) <= Times(own, c)
  BY MatchByTimes DEF own
<1>7. HasCpus(variant, cpus) <=> own = << >> \/ \A c \in ToSet(all) : Times(own, c) >= Times(cpus, c)
  BY DEF HasCpus, own, all
<1> QED BY <1>5, <1>6, <1>7, Zenon

(* processorMatch does not depend on the order in which firmware lists      *)
(* processors.                                                              *)
LEMMA MatchInAnyOrder ==
  ASSUME NEW C, NEW cpus \in Seq(C), NEW variant, variant.cpus \in Seq(C)
  PROVE  ProcessorMatch(variant, Reverse(cpus)) <=> ProcessorMatch(variant, cpus)
<1>1. Reverse(cpus) \in Seq(C) /\ \A c : Times(Reverse(cpus), c) = Times(cpus, c)
  BY TimesReversed
<1>2. ProcessorMatch(variant, Reverse(cpus)) <=>
        variant.cpus = << >> \/ \A c \in C : Times(Reverse(cpus), c) <= Times(variant.cpus, c)
  BY <1>1, MatchByTimes
<1>3. ProcessorMatch(variant, cpus) <=>
        variant.cpus = << >> \/ \A c \in C : Times(cpus, c) <= Times(variant.cpus, c)
  BY MatchByTimes
<1>4. \A c : Times(Reverse(cpus), c) = Times(cpus, c)
  BY <1>1
<1> QED BY <1>2, <1>3, <1>4

(* What Identify compares (identify.go:42) is board or system, sku and      *)
(* processors.                                                              *)
LEMMA FitsIsPlatform ==
  ASSUME NEW unit \in UnitData, NEW variant \in Variant
  PROVE  IsPlatform(unit, variant) <=> \/ Fits(variant, unit.boardMfg, unit.boardProd, unit)
                                       \/ Fits(variant, unit.sysMfg, unit.sysProd, unit)
<1>1. unit.cpus \in Seq(STRING) /\ variant.cpus \in Seq(STRING)
  BY DEF UnitData, Variant
<1>2. ProcessorMatch(variant, unit.cpus) <=> HasCpus(variant, unit.cpus)
  <2> DEFINE cpus == unit.cpus
  <2>1. cpus \in Seq(STRING)
    BY <1>1
  <2> HIDE DEF cpus
  <2>2. ProcessorMatch(variant, cpus) <=> HasCpus(variant, cpus)
    BY <1>1, <2>1, MatchIsCpus
  <2> QED BY <2>2 DEF cpus
<1> DEFINE named == <<variant.mfg, variant.prod>> \in {<<unit.boardMfg, unit.boardProd>>, <<unit.sysMfg, unit.sysProd>>}
           sku   == unit.skus[variant.skuField] \in variant.matches
<1>3. IsPlatform(unit, variant) <=> named /\ sku /\ HasCpus(variant, unit.cpus)
  BY Zenon DEF IsPlatform
<1>4. named <=> \/ variant.mfg = unit.boardMfg /\ variant.prod = unit.boardProd
                \/ variant.mfg = unit.sysMfg /\ variant.prod = unit.sysProd
  OBVIOUS
<1>5. /\ Fits(variant, unit.boardMfg, unit.boardProd, unit) <=>
           variant.mfg = unit.boardMfg /\ variant.prod = unit.boardProd /\ sku /\ HasCpus(variant, unit.cpus)
      /\ Fits(variant, unit.sysMfg, unit.sysProd, unit) <=>
           variant.mfg = unit.sysMfg /\ variant.prod = unit.sysProd /\ sku /\ HasCpus(variant, unit.cpus)
  BY <1>2, Zenon DEF Fits, CheckModelRe, Sku
<1> HIDE DEF named, sku
<1> QED BY <1>3, <1>4, <1>5

(* Identify finds a variant that is the unit's whenever there is one.       *)
LEMMA IdentifyFits ==
  ASSUME NEW variants \in Seq(Variant), NEW unit
  PROVE  LET found == Identify(variants, unit)
             fits(i) == \/ Fits(variants[i], unit.boardMfg, unit.boardProd, unit)
                        \/ Fits(variants[i], unit.sysMfg, unit.sysProd, unit)
         IN /\ found # 0 => found \in 1 .. Len(variants) /\ fits(found)
            /\ found = 0 => \A i \in 1 .. Len(variants) : ~fits(i)
<1> DEFINE board == FirstFit(variants, unit.boardMfg, unit.boardProd, unit)
           sys   == FirstFit(variants, unit.sysMfg, unit.sysProd, unit)
           found == Identify(variants, unit)
<1>0. Len(variants) \in Nat
  OBVIOUS
<1>1. found = IF board # 0 THEN board ELSE sys
  BY Zenon DEF Identify
<1>2. /\ board # 0 => board \in 1 .. Len(variants) /\ Fits(variants[board], unit.boardMfg, unit.boardProd, unit)
      /\ board = 0 => \A i \in 1 .. Len(variants) : ~Fits(variants[i], unit.boardMfg, unit.boardProd, unit)
  BY <1>0, FirstFitFits, Zenon
<1>3. /\ sys # 0 => sys \in 1 .. Len(variants) /\ Fits(variants[sys], unit.sysMfg, unit.sysProd, unit)
      /\ sys = 0 => \A i \in 1 .. Len(variants) : ~Fits(variants[i], unit.sysMfg, unit.sysProd, unit)
  BY <1>0, FirstFitFits, Zenon
<1> HIDE DEF board, sys, found
<1>4. CASE board # 0
  <2>1. found = board
    BY <1>1, <1>4
  <2> QED BY <1>2, <1>4, <2>1 DEF found
<1>5. CASE board = 0
  <2>1. found = sys
    BY <1>1, <1>5
  <2> QED BY <1>2, <1>3, <1>5, <2>1 DEF found
<1> QED BY <1>4, <1>5

(* The variant found does not depend on the order of the processors.        *)
LEMMA FirstFitInAnyOrder ==
  ASSUME NEW variants \in Seq(Variant), NEW unit \in UnitData, NEW mfg, NEW prod
  PROVE  FirstFit(variants, mfg, prod, [unit EXCEPT !.cpus = Reverse(@)]) = FirstFit(variants, mfg, prod, unit)
<1> DEFINE turned == [unit EXCEPT !.cpus = Reverse(@)]
<1>1. turned.skus = unit.skus /\ turned.cpus = Reverse(unit.cpus) /\ unit.cpus \in Seq(STRING)
  BY DEF UnitData
<1> HIDE DEF turned
<1>2. \A i \in 1 .. Len(variants) : Fits(variants[i], mfg, prod, turned) <=> Fits(variants[i], mfg, prod, unit)
  <2> TAKE i \in 1 .. Len(variants)
  <2> DEFINE variant == variants[i]  cpus == unit.cpus
  <2>1. variant \in Variant /\ cpus \in Seq(STRING)
    BY <1>1
  <2> HIDE DEF variant, cpus
  <2>2. variant.cpus \in Seq(STRING)
    BY <2>1 DEF Variant
  <2>3. ProcessorMatch(variant, Reverse(cpus)) <=> ProcessorMatch(variant, cpus)
    BY <2>1, <2>2, MatchInAnyOrder
  <2> QED BY <1>1, <2>3, Zenon DEF Fits, CheckModelRe, Sku, variant, cpus
<1> DEFINE fit(u) == {i \in 1 .. Len(variants) : Fits(variants[i], mfg, prod, u)}
<1>3. fit(turned) = fit(unit)
  BY <1>2
<1>4. \A u : FirstFit(variants, mfg, prod, u) = IF fit(u) = {} THEN 0 ELSE Min(fit(u))
  BY Zenon DEF FirstFit
<1> HIDE DEF fit
<1> QED BY <1>3, <1>4 DEF turned

(* IdentifyWithFallback (identify.go:177), for any catalogue and any unit.  *)
LEMMA UnitIsIdentified ==
  ASSUME NEW variants \in Seq(Variant), NEW unit \in UnitData, NEW code
  PROVE  LET found == IdentifyWithFallback(variants, unit, code)
             fit == {i \in 1 .. Len(variants) : IsPlatform(unit, variants[i])}
         IN /\ IF fit = {} THEN found.fallback \/ found.idx = 0 ELSE ~found.fallback /\ found.idx \in fit
            /\ found.fallback /\ found.idx # 0 => variants[found.idx].code = code
            /\ found = IdentifyWithFallback(variants, [unit EXCEPT !.cpus = Reverse(@)], code)
<1> DEFINE turned == [unit EXCEPT !.cpus = Reverse(@)]
           given(u) == IF Identify(variants, u) # 0 THEN [idx |-> Identify(variants, u), fallback |-> FALSE]
                       ELSE IF code = "unreadable" THEN [idx |-> 0, fallback |-> FALSE]
                       ELSE [idx |-> FallbackFile(variants, code), fallback |-> TRUE]
           named == Identify(variants, unit)
           found == IdentifyWithFallback(variants, unit, code)
           fit == {i \in 1 .. Len(variants) : IsPlatform(unit, variants[i])}
<1>1. \A u : IdentifyWithFallback(variants, u, code) = given(u)
  BY Zenon DEF IdentifyWithFallback
<1>2. Identify(variants, turned) = named
  <2>1. /\ turned.boardMfg = unit.boardMfg /\ turned.boardProd = unit.boardProd
        /\ turned.sysMfg = unit.sysMfg /\ turned.sysProd = unit.sysProd
    BY DEF UnitData
  <2>2. \A mfg, prod : FirstFit(variants, mfg, prod, turned) = FirstFit(variants, mfg, prod, unit)
    BY FirstFitInAnyOrder
  <2> HIDE DEF turned
  <2> QED BY <2>1, <2>2, Zenon DEF Identify
<1>3. found = IdentifyWithFallback(variants, turned, code)
  <2> HIDE DEF turned
  <2> QED BY <1>1, <1>2, Zenon
<1>4. \A i \in 1 .. Len(variants) :
        IsPlatform(unit, variants[i]) <=> \/ Fits(variants[i], unit.boardMfg, unit.boardProd, unit)
                                          \/ Fits(variants[i], unit.sysMfg, unit.sysProd, unit)
  <2> TAKE i \in 1 .. Len(variants)
  <2> DEFINE variant == variants[i]
  <2>1. variant \in Variant
    OBVIOUS
  <2> HIDE DEF variant
  <2>2. IsPlatform(unit, variant) <=> \/ Fits(variant, unit.boardMfg, unit.boardProd, unit)
                                      \/ Fits(variant, unit.sysMfg, unit.sysProd, unit)
    BY <2>1, FitsIsPlatform, Zenon
  <2> QED BY <2>2, Zenon DEF variant
<1>5. (named # 0 => named \in fit) /\ (named = 0 => fit = {})
  <2>1. /\ named # 0 => /\ named \in 1 .. Len(variants)
                        /\ \/ Fits(variants[named], unit.boardMfg, unit.boardProd, unit)
                           \/ Fits(variants[named], unit.sysMfg, unit.sysProd, unit)
        /\ named = 0 => \A i \in 1 .. Len(variants) :
                          ~ \/ Fits(variants[i], unit.boardMfg, unit.boardProd, unit)
                            \/ Fits(variants[i], unit.sysMfg, unit.sysProd, unit)
    BY IdentifyFits, Zenon
  <2> HIDE DEF named
  <2> QED BY <1>4, <2>1, Zenon
<1>6. found = IF named # 0 THEN [idx |-> named, fallback |-> FALSE]
              ELSE IF code = "unreadable" THEN [idx |-> 0, fallback |-> FALSE]
              ELSE [idx |-> FallbackFile(variants, code), fallback |-> TRUE]
  BY <1>1, Zenon
<1> HIDE DEF named, found, turned
<1>7. /\ named # 0 => found.idx = named /\ ~found.fallback
      /\ named = 0 => found.fallback \/ found.idx = 0
      /\ found.fallback => found.idx = FallbackFile(variants, code)
  BY <1>6
<1>8. IF fit = {} THEN found.fallback \/ found.idx = 0 ELSE ~found.fallback /\ found.idx \in fit
  <2> HIDE DEF fit
  <2> QED BY <1>5, <1>7
<1>9. found.fallback /\ found.idx # 0 => variants[found.idx].code = code
  BY <1>7, FallbackIsNamed
<1> QED BY <1>3, <1>8, <1>9, Zenon DEF found, turned

(* What read (lightweight.go:78) gives of what write (lightweight.go:59)    *)
(* wrote, with the conversions of json.go.                                  *)
LEMMA FactsAreRead ==
  ASSUME NEW facts \in Facts, NEW found \in Lcds
  PROVE  Read(WriteOut(facts, found)) =
           [facts EXCEPT !.lcd = IF facts.prototype /\ found # "none" THEN found ELSE @]
<1>1. facts = [prototype |-> facts.prototype, lcd |-> facts.lcd, validation |-> facts.validation, location |-> facts.location]
      /\ facts.lcd \in Lcds /\ facts.validation \in {"usb", "sata", "none", "9p"} /\ facts.location \in {"9p", "byLabel"}
  BY DEF Facts
<1> DEFINE file == WriteOut(facts, found)
           lcd  == IF facts.prototype /\ found # "none" THEN found ELSE facts.lcd
<1>2. /\ file.prototype = facts.prototype /\ file.lcd = lcd
      /\ file.validation = WriteValidation(facts.validation) /\ file.location = WriteLocation(facts.location)
  BY DEF WriteOut, WriteLcd
<1>3. lcd \in Lcds
  BY <1>1
<1> HIDE DEF file, lcd
<1>4. ReadLcd(lcd) = lcd
  BY <1>3 DEF ReadLcd, Lcds
<1>5. ReadValidation(WriteValidation(facts.validation)) = facts.validation
  BY <1>1 DEF ReadValidation, WriteValidation
<1>6. ReadLocation(WriteLocation(facts.location)) = facts.location
  BY <1>1 DEF ReadLocation, WriteLocation
<1>7. Read(file) = [prototype |-> facts.prototype, lcd |-> lcd, validation |-> facts.validation, location |-> facts.location]
  BY <1>2, <1>4, <1>5, <1>6, Zenon DEF Read
<1>8. [facts EXCEPT !.lcd = lcd] = [prototype |-> facts.prototype, lcd |-> lcd, validation |-> facts.validation, location |-> facts.location]
  BY <1>1
<1> QED BY <1>7, <1>8 DEF file, lcd

-----------------------------------------------------------------------------
(* Reads and writes of a disk (pkg/erase/raid), for disks of any size: what *)
(* is read and written is what was asked for, whatever alignment is used.   *)

Lesser(x, y) == IF x <= y THEN x ELSE y

\* A stretch of l cells was read, and of it the ones from a place on are asked for.
Stretch(d, at, size, r, begin, from, l) ==
  /\ begin \in Nat /\ from \in Nat /\ l \in Nat
  /\ begin + from = Place(d, at) /\ begin + l <= DevSize(d)
  /\ r.begin = begin /\ r.from = from
  /\ r.buf = SubSeq(d.cells, begin + 1, begin + l)
  /\ r.to = Lesser(from + size, l)
  /\ Place(d, at) + size <= begin + l \/ begin + l = DevSize(d)

(* The least of two numbers.                                                *)
LEMMA MinIsLesser ==
  ASSUME NEW x \in Int, NEW y \in Int
  PROVE  Min({x, y}) = Lesser(x, y)
<1>1. Min({x, y}) = CHOOSE m \in {x, y} : \A n \in {x, y} : m <= n
  BY DEF Min
<1>2. Lesser(x, y) \in {x, y} /\ \A n \in {x, y} : Lesser(x, y) <= n
  BY DEF Lesser
<1>3. \A m \in {x, y} : (\A n \in {x, y} : m <= n) => m = Lesser(x, y)
  BY DEF Lesser
<1> QED BY <1>1, <1>2, <1>3

(* The multiple of an alignment at or before a place (device.go:336).       *)
LEMMA AlignParts ==
  ASSUME NEW at \in Int, NEW a \in {2, 4, 8}
  PROVE  /\ Align(at, a).res \in Int /\ Align(at, a).off \in 0 .. a - 1
         /\ Align(at, a).res + Align(at, a).off = at
         /\ at < 0 <=> Align(at, a).res < 0
<1> USE DEF Align
<1>1. CASE a = 2
  BY <1>1
<1>2. CASE a = 4
  BY <1>2
<1>3. CASE a = 8
  BY <1>3
<1> QED BY <1>1, <1>2, <1>3

(* A read that is no error gives the cells it is to give (device.go:405).   *)
LEMMA ReadCellsExact ==
  ASSUME NEW d, DevSize(d) \in Nat,
         NEW begin \in Int, NEW off \in Int, NEW size \in Int, NEW length \in Int,
         NEW total, total = Lesser(length, DevSize(d) - begin),
         ReadCells(d, begin, off, size, length) # Error
  PROVE  /\ begin >= 0 /\ total > 0
         /\ ReadCells(d, begin, off, size, length) =
              [begin |-> begin, buf |-> Cells(d, begin, begin + total),
               from |-> off, to |-> Lesser(off + size, total)]
<1> DEFINE least == Min({length, DevSize(d) - begin})
           cut   == begin < 0 \/ begin % d.required # 0 \/ length % d.required # 0 \/ least <= 0
           given == [begin |-> begin, buf |-> Cells(d, begin, begin + least),
                     from |-> off, to |-> Min({off + size, least})]
<1>1. ReadCells(d, begin, off, size, length) = IF cut THEN Error ELSE given
  BY Zenon DEF ReadCells
<1>2. ~cut /\ ReadCells(d, begin, off, size, length) = given
  <2> HIDE DEF cut, given
  <2> QED BY Zenon, <1>1
<1>3. total \in Int
  BY DEF Lesser
<1>4. least = total
  BY MinIsLesser
<1>5. Min({off + size, least}) = Lesser(off + size, total)
  <2> HIDE DEF least
  <2> QED BY <1>3, <1>4, MinIsLesser
<1>6. given = [begin |-> begin, buf |-> Cells(d, begin, begin + total),
               from |-> off, to |-> Lesser(off + size, total)]
  <2> HIDE DEF least
  <2> QED BY Zenon, <1>4, <1>5
<1>7. begin >= 0 /\ total > 0
  <2> HIDE DEF least, given
  <2> QED BY <1>2, <1>3, <1>4
<1> QED BY Zenon, <1>2, <1>6, <1>7

(* One read with an alignment: a stretch of the disk that begins at a       *)
(* multiple of it, and where in there the cells are that were asked for.    *)
LEMMA TryReadExact ==
  ASSUME NEW C, NEW d, d.cells \in Seq(C), NEW at \in Int, NEW size \in Nat,
         NEW a \in {2, 4, 8}, NEW r, r = TryRead(d, at, size, a), r # Error
  PROVE  Stretch(d, at, size, r, r.begin, r.from, Len(r.buf))
<1> DEFINE n      == DevSize(d)
           first  == Align(at, a)
           begin  == IF first.res < 0 THEN n + first.res ELSE first.res
           end    == Align(begin + first.off + size, a)
           pad    == IF end.off > 0 THEN a ELSE 0
           length == (end.res - begin) + pad
           total  == Lesser(length, n - begin)
<1>1. n \in Nat
  BY DEF DevSize
<1>2. /\ first.res \in Int /\ first.off \in 0 .. a - 1 /\ first.res + first.off = at
      /\ at < 0 <=> first.res < 0
  BY AlignParts
<1>3. begin \in Int /\ begin + first.off = Place(d, at)
  <2> HIDE DEF n, first
  <2> QED BY <1>1, <1>2 DEF Place, n
<1>4. begin + first.off + size \in Int
  <2> HIDE DEF begin, first
  <2> QED BY <1>2, <1>3
<1>5. /\ end.res \in Int /\ end.off \in 0 .. a - 1
      /\ end.res + end.off = begin + first.off + size
  <2> HIDE DEF begin, first
  <2> QED BY <1>4, AlignParts
<1>6. length \in Int /\ begin + length >= begin + first.off + size
  <2>1. pad \in Int /\ pad >= end.off
    <3> HIDE DEF begin, first, end
    <3> QED BY <1>5
  <2> DEFINE stop == end.res + pad  goal == begin + first.off + size
  <2>2. stop >= goal /\ stop \in Int /\ goal \in Int
    <3> HIDE DEF begin, first, end, pad
    <3> QED BY <1>4, <1>5, <2>1
  <2>3. length = stop - begin
    <3> HIDE DEF begin, first, end, pad
    <3> QED BY <1>3, <1>5, <2>1
  <2> HIDE DEF begin, length, stop, goal
  <2>4. length \in Int /\ begin + length >= goal
    BY <1>3, <2>2, <2>3
  <2> QED BY Zenon, <2>4 DEF goal
<1>7. begin \in Int /\ first.off \in Int /\ r = ReadCells(d, begin, first.off, size, length)
  BY <1>2, <1>3 DEF TryRead
<1> HIDE DEF n, first, begin, end, pad, length
<1>8. total = Lesser(length, DevSize(d) - begin)
  BY DEF n
<1> HIDE DEF total
<1>9. /\ begin >= 0 /\ total > 0
      /\ r = [begin |-> begin, buf |-> Cells(d, begin, begin + total),
              from |-> first.off, to |-> Lesser(first.off + size, total)]
  <2>1. DevSize(d) \in Nat
    BY <1>1 DEF n
  <2> QED BY <2>1, <1>6, <1>7, <1>8, ReadCellsExact
<1>10. total \in Nat /\ begin + total <= n /\ (Place(d, at) + size <= begin + total \/ begin + total = n)
  BY <1>1, <1>2, <1>3, <1>6, <1>8, <1>9 DEF Lesser, n
<1>11. r.begin = begin /\ r.from = first.off /\ r.begin \in Nat /\ r.from \in Nat
  BY <1>2, <1>3, <1>9
<1>12. r.buf = SubSeq(d.cells, r.begin + 1, r.begin + total)
  <2>1. r.buf = Cells(d, begin, begin + total)
    BY <1>9
  <2> QED BY <1>11, <2>1 DEF Cells
<1>13. r.to = Lesser(r.from + size, total)
  BY <1>9, <1>11
<1>14. Len(r.buf) = total
  <2>1. \A i \in r.begin + 1 .. r.begin + total : d.cells[i] \in C
    BY <1>10, <1>11 DEF n, DevSize
  <2>2. Len(SubSeq(d.cells, r.begin + 1, r.begin + total)) = total
    BY <1>10, <1>11, <2>1, SubSeqProperties
  <2> QED BY <1>12, <2>2
<1>15. Stretch(d, at, size, r, begin, first.off, total)
  BY <1>2, <1>3, <1>9, <1>10, <1>11, <1>12, <1>13 DEF n, Stretch
<1> QED BY Zenon, <1>11, <1>14, <1>15

(* A read that succeeds is a read with one of the alignments (device.go:364). *)
LEMMA SomeAlignment ==
  ASSUME NEW d, NEW at, NEW size, RawAlignedRead(d, at, size) # Error
  PROVE  /\ ~(at > DevSize(d)) /\ ~(-at > DevSize(d))
         /\ \E a \in {2, 4, 8} : RawAlignedRead(d, at, size) = TryRead(d, at, size, a)
<1> DEFINE usable == {a \in Alignments(d) : ~Failed(TryRead(d, at, size, a))}
<1>1. /\ ~(at > DevSize(d)) /\ ~(-at > DevSize(d)) /\ usable # {}
      /\ RawAlignedRead(d, at, size) = TryRead(d, at, size, Min(usable))
  BY Zenon DEF RawAlignedRead
<1>2. usable \subseteq {2, 4, 8}
  BY DEF Alignments
<1> HIDE DEF usable
<1>3. \E m \in usable : \A b \in usable : m <= b
  <2>1. CASE 2 \in usable
    BY <1>2, <2>1
  <2>2. CASE 2 \notin usable /\ 4 \in usable
    BY <1>2, <2>2
  <2>3. CASE 2 \notin usable /\ 4 \notin usable
    <3>1. \A b \in usable : b = 8
      BY <1>2, <2>3
    <3>2. PICK b \in usable : TRUE
      BY Zenon, <1>1
    <3>3. 8 \in usable
      BY Zenon, <3>1, <3>2
    <3> QED BY <3>1, <3>3
  <2> QED BY <2>1, <2>2, <2>3
<1>4. Min(usable) \in usable
  BY <1>3 DEF Min
<1> QED BY Zenon, <1>1, <1>2, <1>4

(* What the caller of a read gets to see: the stretch of the disk that was  *)
(* read, and the place in it of what was asked for.                         *)
LEMMA RawReadExact ==
  ASSUME NEW C, NEW d, d.cells \in Seq(C), NEW at \in Int, NEW size \in Nat,
         NEW r, r = RawAlignedRead(d, at, size), r # Error
  PROVE  Place(d, at) \in 0 .. DevSize(d) /\ Stretch(d, at, size, r, r.begin, r.from, Len(r.buf))
<1>1. ~(at > DevSize(d)) /\ ~(-at > DevSize(d))
  BY SomeAlignment
<1>2. PICK a \in {2, 4, 8} : r = TryRead(d, at, size, a)
  BY SomeAlignment
<1>3. DevSize(d) \in Nat
  BY DEF DevSize
<1>4. Place(d, at) \in 0 .. DevSize(d)
  BY <1>1, <1>3 DEF Place
<1> QED BY <1>2, <1>4, TryReadExact

(* A part of a stretch of a row.                                            *)
LEMMA PartOfStretch ==
  ASSUME NEW C, NEW row \in Seq(C), NEW begin \in Nat, NEW l \in Nat, begin + l <= Len(row),
         NEW from \in Nat, NEW to \in Int, to <= l
  PROVE  SubSeq(SubSeq(row, begin + 1, begin + l), from + 1, to) = SubSeq(row, begin + from + 1, begin + to)
<1> DEFINE part == SubSeq(row, begin + 1, begin + l)
<1>1. CASE to < from + 1
  <2>1. SubSeq(part, from + 1, to) = << >>
    BY <1>1, SubSeqEmpty
  <2>2. SubSeq(row, begin + from + 1, begin + to) = << >>
    BY <1>1, SubSeqEmpty
  <2> QED BY <2>1, <2>2
<1>2. CASE to >= from + 1
  <2> DEFINE i == begin + 1  j == begin + l  m == from + 1
  <2>1. /\ i \in 1 .. Len(row) /\ j \in 1 .. Len(row) /\ m \in 1 .. j - i + 1 /\ to \in 1 .. j - i + 1
        /\ i + m - 1 = begin + from + 1 /\ i + to - 1 = begin + to
    BY <1>2
  <2> HIDE DEF i, j, m
  <2>2. SubSeq(SubSeq(row, i, j), m, to) = SubSeq(row, i + m - 1, i + to - 1)
    BY <2>1, SubSeqOfSubSeq
  <2> QED BY <2>1, <2>2 DEF i, j, m
<1> QED BY <1>1, <1>2

(* For a disk of any size, any place and any number of cells: a read that   *)
(* is no error (device.go:353) gives exactly the cells asked for, up to the *)
(* end of the disk, with whatever alignment it came about.                  *)
THEOREM ReadIsExact ==
  ASSUME NEW C, NEW d, d.cells \in Seq(C), NEW at \in Int, NEW size \in Nat,
         AlignedRead(d, at, size) # Error
  PROVE  /\ Place(d, at) \in 0 .. DevSize(d)
         /\ AlignedRead(d, at, size) =
              [data |-> SubSeq(d.cells, Place(d, at) + 1, Lesser(Place(d, at) + size, DevSize(d)))]
<1> DEFINE r == RawAlignedRead(d, at, size)
           n == DevSize(d)
           p == Place(d, at)
<1>1. r # Error /\ AlignedRead(d, at, size) = [data |-> SubSeq(r.buf, r.from + 1, r.to)]
  BY Zenon DEF AlignedRead, Asked, Failed
<1> DEFINE begin == r.begin
           from  == r.from
           l     == Len(r.buf)
<1> HIDE DEF r
<1>2. r = RawAlignedRead(d, at, size)
  BY DEF r
<1>3. p \in 0 .. n /\ Stretch(d, at, size, r, begin, from, l)
  BY Zenon, <1>1, <1>2, RawReadExact
<1>4. n \in Nat /\ n = Len(d.cells)
  BY DEF DevSize
<1> HIDE DEF n, p, begin, from, l
<1>5. /\ begin \in Nat /\ from \in Nat /\ l \in Nat
      /\ begin + from = p /\ begin + l <= n
      /\ p + size <= begin + l \/ begin + l = n
  BY <1>3 DEF Stretch, n, p
<1> DEFINE to == Lesser(from + size, l)
<1>6. to \in Int /\ to <= l /\ begin + to = Lesser(p + size, n)
  BY <1>4, <1>5 DEF Lesser
<1> HIDE DEF to
<1>7. SubSeq(SubSeq(d.cells, begin + 1, begin + l), from + 1, to) = SubSeq(d.cells, begin + from + 1, begin + to)
  BY <1>4, <1>5, <1>6, PartOfStretch
<1>8. SubSeq(r.buf, r.from + 1, r.to) = SubSeq(SubSeq(d.cells, begin + 1, begin + l), from + 1, to)
  BY Zenon, <1>3 DEF Stretch, to
<1>9. SubSeq(r.buf, r.from + 1, r.to) = SubSeq(d.cells, p + 1, Lesser(p + size, n))
  BY Zenon, <1>5, <1>6, <1>7, <1>8
<1> QED BY Zenon, <1>1, <1>3, <1>9 DEF n, p

(* Data laid into a stretch, and that back into the row.                    *)
LEMMA OverlayOfStretch ==
  ASSUME NEW C, NEW row \in Seq(C), NEW data \in Seq(C), NEW begin \in Nat, NEW l \in Nat,
         begin + l <= Len(row), NEW from \in Nat, from + Len(data) <= l
  PROVE  Overlay(row, begin, Overlay(SubSeq(row, begin + 1, begin + l), from, data))
           = Overlay(row, begin + from, data)
<1> DEFINE part == SubSeq(row, begin + 1, begin + l)
           new  == Overlay(part, from, data)
<1>1. Len(part) = l /\ \A i \in 1 .. l : part[i] = row[begin + i]
  <2> DEFINE m == begin + 1  k == begin + l
  <2>1. /\ m \in 1 .. Len(row) + 1 /\ k \in 0 .. Len(row) /\ (\A i \in m .. k : row[i] \in C)
        /\ (IF m <= k THEN k - m + 1 ELSE 0) = l /\ k - m + 1 = l
        /\ \A i \in 1 .. l : m + i - 1 = begin + i
    OBVIOUS
  <2>2. part = SubSeq(row, m, k)
    OBVIOUS
  <2> HIDE DEF m, k, part
  <2>3. /\ Len(SubSeq(row, m, k)) = (IF m <= k THEN k - m + 1 ELSE 0)
        /\ \A i \in 1 .. k - m + 1 : SubSeq(row, m, k)[i] = row[m + i - 1]
    BY <2>1, SubSeqProperties
  <2> QED BY <2>1, <2>2, <2>3
<1>2. new = [i \in 1 .. l |-> IF i \in from + 1 .. from + Len(data) THEN data[i - from] ELSE part[i]]
  BY Zenon, <1>1 DEF Overlay
<1>3. Len(new) = l
  <2> HIDE DEF part
  <2> QED BY <1>2
<1> HIDE DEF part, new
<1>4. \A i \in 1 .. Len(row) :
        (IF i \in begin + 1 .. begin + Len(new) THEN new[i - begin] ELSE row[i])
          = (IF i \in (begin + from) + 1 .. (begin + from) + Len(data) THEN data[i - (begin + from)] ELSE row[i])
  <2> TAKE i \in 1 .. Len(row)
  <2>1. CASE i \in begin + 1 .. begin + l
    <3>1. i - begin \in 1 .. l
      BY <2>1
    <3>2. new[i - begin] = IF i - begin \in from + 1 .. from + Len(data)
                           THEN data[i - begin - from] ELSE part[i - begin]
      BY <1>2, <3>1
    <3>3. part[i - begin] = row[i]
      BY <1>1, <3>1
    <3>4. i - begin - from = i - (begin + from)
      OBVIOUS
    <3>5. (i - begin \in from + 1 .. from + Len(data)) <=> (i \in (begin + from) + 1 .. (begin + from) + Len(data))
      BY <2>1
    <3> QED BY <1>3, <2>1, <3>2, <3>3, <3>4, <3>5
  <2>2. CASE i \notin begin + 1 .. begin + l
    BY <1>3, <2>2
  <2> QED BY <2>1, <2>2
<1> QED BY <1>4 DEF Overlay, part, new

(* A write that is no error (device.go:449) changes exactly the cells it is *)
(* for, to what it is given, and reaches nowhere beyond the end of a disk.  *)
THEOREM WriteIsExact ==
  ASSUME NEW C, NEW d, d.cells \in Seq(C), NEW at \in Int, NEW data \in Seq(C),
         AlignedWrite(d, at, data) # Error
  PROVE  /\ Place(d, at) \in 0 .. DevSize(d) - Len(data)
         /\ AlignedWrite(d, at, data) = [d EXCEPT !.cells = Overlay(d.cells, Place(d, at), data)]
<1> DEFINE r == RawAlignedRead(d, at, Len(data))
           n == DevSize(d)
           p == Place(d, at)
           begin == r.begin
           from  == r.from
           l     == Len(r.buf)
           to    == Lesser(from + Len(data), l)
<1> HIDE DEF r, n, p, begin, from, l, to
<1>1. AlignedWrite(d, at, data) = WriteBack(d, r, data)
  BY Zenon DEF AlignedWrite, r
<1>2. /\ r # Error /\ ~(r.to - r.from < Len(data))
      /\ WriteBack(d, r, data)
           = [d EXCEPT !.cells = Overlay(d.cells, r.begin, Overlay(r.buf, r.from, data))]
  BY Zenon, <1>1 DEF WriteBack, Failed
<1>3. n \in Nat /\ n = Len(d.cells) /\ Len(data) \in Nat
  BY DEF DevSize, n
<1>4. p \in 0 .. n /\ Stretch(d, at, Len(data), r, begin, from, l)
  BY <1>2, <1>3, RawReadExact DEF r, n, p, begin, from, l
<1>5. /\ begin \in Nat /\ from \in Nat /\ l \in Nat /\ begin + from = p /\ begin + l <= n
      /\ r.begin = begin /\ r.from = from /\ r.to = to
      /\ r.buf = SubSeq(d.cells, begin + 1, begin + l)
  BY Zenon, <1>4 DEF Stretch, n, p, to
<1>6. ~(to - from < Len(data))
  BY Zenon, <1>2, <1>5
<1>7. from + Len(data) <= l /\ p \in 0 .. n - Len(data)
  BY <1>3, <1>4, <1>5, <1>6 DEF Lesser, to
<1>8. Overlay(d.cells, begin, Overlay(SubSeq(d.cells, begin + 1, begin + l), from, data))
        = Overlay(d.cells, begin + from, data)
  BY <1>3, <1>5, <1>7, OverlayOfStretch
<1>9. WriteBack(d, r, data) = [d EXCEPT !.cells = Overlay(d.cells, p, data)]
  BY Zenon, <1>2, <1>5, <1>8
<1> QED BY Zenon, <1>1, <1>7, <1>9 DEF n, p

\* Where the record of a disk begins: that of imsm has a fixed size, that of
\* ddf begins with the first of the headers that its anchor names.
RecordPlace(d, type) ==
  IF type = "imsm" THEN DevSize(d) - ImsmSize
  ELSE RecordStart(d, FindOffsets(AlignedRead(d, -AnchorSize, AnchorSize).data))

(* What is read from a place up to the end of a disk.                       *)
LEMMA TailIsRead ==
  ASSUME NEW C, NEW d, d.cells \in Seq(C), NEW at \in Int, NEW size \in Nat,
         Place(d, at) + size = DevSize(d),
         AlignedRead(d, at, size) # Error
  PROVE  AlignedRead(d, at, size) = [data |-> SubSeq(d.cells, Place(d, at) + 1, DevSize(d))]
<1>1. DevSize(d) \in Nat
  BY DEF DevSize
<1>2. Lesser(Place(d, at) + size, DevSize(d)) = DevSize(d)
  BY <1>1 DEF Lesser
<1>3. AlignedRead(d, at, size)
        = [data |-> SubSeq(d.cells, Place(d, at) + 1, Lesser(Place(d, at) + size, DevSize(d)))]
  BY ReadIsExact
<1> QED BY Zenon, <1>2, <1>3

(* What Backup (device.go:232) takes from a disk with metadata is its       *)
(* record: everything from its place to the end of the disk.                *)
LEMMA RecordIsSaved ==
  ASSUME NEW C, NEW d, d.cells \in Seq(C), NEW type \in {"imsm", "ddf"},
         type = "ddf" => RecordPlace(d, type) \in Nat,
         Backup(d, type) # Error
  PROVE  /\ RecordPlace(d, type) \in 0 .. DevSize(d)
         /\ Backup(d, type) = [data |-> SubSeq(d.cells, RecordPlace(d, type) + 1, DevSize(d))]
<1> DEFINE n     == DevSize(d)
           start == RecordPlace(d, type)
<1>1. n \in Nat
  BY DEF DevSize
<1>2. CASE type = "imsm"
  <2>1. Backup(d, type) = AlignedRead(d, -4, 4) /\ start = n - 4
    BY <1>2 DEF Backup, SaveIMSM, ImsmSize, RecordPlace
  <2>2. AlignedRead(d, -4, 4) # Error
    BY <2>1
  <2>3. Place(d, -4) \in 0 .. n
    BY <2>2, ReadIsExact
  <2>4. Place(d, -4) = start /\ start \in 0 .. n /\ n - start = 4
    BY <1>1, <2>1, <2>3 DEF Place
  <2> HIDE DEF n, start
  <2>5. Place(d, -4) + 4 = n
    BY <1>1, <2>4
  <2>6. AlignedRead(d, -4, 4) = [data |-> SubSeq(d.cells, Place(d, -4) + 1, n)]
    BY <2>2, <2>5, TailIsRead DEF n
  <2> QED BY <2>1, <2>4, <2>6 DEF n, start
<1>3. CASE type = "ddf"
  <2> DEFINE tail == AlignedRead(d, start, n - start)
  <2>1. Backup(d, type) = SaveDDF(d)
    BY <1>3 DEF Backup
  <2>2. SaveDDF(d) = SaveFrom(d, start)
    BY Zenon, <1>3, <2>1 DEF SaveDDF, RecordPlace
  <2>3. tail # Error /\ Backup(d, type) = tail
    BY Zenon, <2>1, <2>2 DEF SaveFrom, Failed
  <2>4. RawAlignedRead(d, start, n - start) # Error
    BY Zenon, <2>3 DEF AlignedRead, Asked, Failed
  <2>5. start \in Nat /\ ~(start > n)
    BY <1>3, <2>4, SomeAlignment
  <2> HIDE DEF start, n
  <2>6. Place(d, start) = start /\ start \in 0 .. n
    BY <1>1, <2>5 DEF Place
  <2> DEFINE size == n - start
  <2>7. size \in Nat /\ start + size = n /\ start \in Int
    BY <1>1, <2>6
  <2>8. AlignedRead(d, start, size) # Error
    BY <2>3
  <2> HIDE DEF size
  <2>9. AlignedRead(d, start, size) = [data |-> SubSeq(d.cells, Place(d, start) + 1, n)]
    BY <2>6, <2>7, <2>8, TailIsRead DEF n
  <2> QED BY Zenon, <2>3, <2>6, <2>9 DEF start, n, size
<1> QED BY <1>2, <1>3

(* An erase leaves a disk its metadata and nothing else of what it held     *)
(* (device.go:232, 253): for disks of any size, any places of the headers   *)
(* of a ddf record and whatever alignments are asked for, what Restore      *)
(* writes to the erased disk e is the record Backup took from it when it    *)
(* was d, where it was, and all before the record stays as it is on e.      *)
THEOREM RecordGoesBack ==
  ASSUME NEW C, NEW d, d.cells \in Seq(C), NEW e, e.cells \in Seq(C), DevSize(e) = DevSize(d),
         NEW type \in {"imsm", "ddf"}, type = "ddf" => RecordPlace(d, type) \in Nat,
         Backup(d, type) # Error,
         Restore(e, type, Backup(d, type)) # Error
  PROVE  Restore(e, type, Backup(d, type)) =
           [e EXCEPT !.cells = [i \in 1 .. DevSize(d) |->
                                  IF i > RecordPlace(d, type) THEN d.cells[i] ELSE e.cells[i]]]
<1> DEFINE n     == DevSize(d)
           start == RecordPlace(d, type)
           data  == SubSeq(d.cells, start + 1, n)
<1> HIDE DEF n, start, data
<1>1. n \in Nat /\ n = Len(d.cells) /\ n = Len(e.cells) /\ n = DevSize(e)
  BY DEF DevSize, n
<1>2. start \in 0 .. n /\ Backup(d, type) = [data |-> data]
  BY RecordIsSaved DEF n, start, data
<1>3. data \in Seq(C) /\ Len(data) = n - start /\ \A i \in 1 .. n - start : data[i] = d.cells[start + i]
  <2> DEFINE row == d.cells
  <2> HIDE DEF row
  <2>1. row \in Seq(C) /\ n = Len(row)
    BY <1>1 DEF row
  <2>2. \A i \in start + 1 .. n : row[i] \in C
    BY <1>2, <2>1
  <2>3. /\ data \in Seq(C) /\ Len(data) = (IF start + 1 <= n THEN n - (start + 1) + 1 ELSE 0)
        /\ \A i \in 1 .. n - (start + 1) + 1 : data[i] = row[start + 1 + i - 1]
    BY <1>1, <1>2, <2>2, SubSeqProperties DEF data, row
  <2> QED BY <1>1, <1>2, <2>3 DEF row
<1>4. data # << >> /\ Restore(e, type, Backup(d, type)) = AlignedWrite(e, -Len(data), data)
  <2>1. [data |-> data].data = data
    OBVIOUS
  <2> QED BY Zenon, <1>2, <2>1 DEF Restore
<1>5. Len(data) > 0
  BY <1>3, <1>4
<1>6. Place(e, -Len(data)) = start
  BY <1>1, <1>2, <1>3, <1>5 DEF Place
<1>7. AlignedWrite(e, -Len(data), data) # Error
  BY Zenon, <1>4
<1>8. AlignedWrite(e, -Len(data), data) = [e EXCEPT !.cells = Overlay(e.cells, start, data)]
  <2> DEFINE at == -Len(data)
  <2>1. at \in Int /\ Place(e, at) = start /\ AlignedWrite(e, at, data) # Error
    BY <1>5, <1>6, <1>7
  <2> HIDE DEF at
  <2>2. AlignedWrite(e, at, data) = [e EXCEPT !.cells = Overlay(e.cells, Place(e, at), data)]
    BY <1>3, <2>1, WriteIsExact
  <2> QED BY Zenon, <2>1, <2>2 DEF at
<1>9. Overlay(e.cells, start, data) = [i \in 1 .. n |-> IF i > start THEN d.cells[i] ELSE e.cells[i]]
  <2>1. \A i \in 1 .. n : (IF i \in start + 1 .. start + Len(data) THEN data[i - start] ELSE e.cells[i])
                            = (IF i > start THEN d.cells[i] ELSE e.cells[i])
    BY <1>1, <1>2, <1>3
  <2> QED BY <1>1, <2>1 DEF Overlay
<1> QED BY Zenon, <1>4, <1>8, <1>9 DEF n, start

-----------------------------------------------------------------------------
(* Sums and differences of multiples of what a disk requires                *)
(* (device.go:385) are multiples.                                           *)
LEMMA SumIsMultiple ==
  ASSUME NEW q \in {1, 2, 4, 8}, NEW x \in Int, NEW y \in Int, x % q = 0, y % q = 0
  PROVE  (x + y) % q = 0 /\ (x - y) % q = 0
<1>1. CASE q = 1
  BY <1>1
<1>2. CASE q = 2
  BY <1>2
<1>3. CASE q = 4
  BY <1>3
<1>4. CASE q = 8
  BY <1>4
<1> QED BY <1>1, <1>2, <1>3, <1>4

(* A multiple of an alignment is one of what the disk requires, if the      *)
(* alignment is.                                                            *)
LEMMA MultipleOfMultiple ==
  ASSUME NEW q \in {1, 2, 4, 8}, NEW a \in {2, 4, 8}, a % q = 0, NEW x \in Int, x % a = 0
  PROVE  x % q = 0
<1>1. CASE q = 1
  BY <1>1
<1>2. CASE q = 2
  BY <1>2
<1>3. CASE q = 4
  BY <1>3
<1>4. CASE q = 8
  BY <1>4
<1> QED BY <1>1, <1>2, <1>3, <1>4

(* What align (device.go:336) rounds to is a multiple.                      *)
LEMMA ResIsMultiple ==
  ASSUME NEW at \in Int, NEW a \in {2, 4, 8}
  PROVE  Align(at, a).res % a = 0
<1> USE DEF Align
<1>1. CASE a = 2
  BY <1>1
<1>2. CASE a = 4
  BY <1>2
<1>3. CASE a = 8
  BY <1>3
<1> QED BY <1>1, <1>2, <1>3

\* A disk of which something can be read and written.
Takes(d) ==
  /\ d.required \in {1, 2, 4, 8} /\ DevSize(d) \in Nat /\ DevSize(d) % d.required = 0

(* A read from a multiple on, of a multiple and within the disk, is not     *)
(* refused (device.go:405).                                                 *)
LEMMA ReadCellsGiven ==
  ASSUME NEW d, Takes(d), NEW begin \in Nat, begin % d.required = 0, begin < DevSize(d),
         NEW off \in Int, NEW size \in Int, NEW length \in Int, length > 0, length % d.required = 0
  PROVE  ReadCells(d, begin, off, size, length) # Error
<1> DEFINE least == Min({length, DevSize(d) - begin})
           cut   == begin < 0 \/ begin % d.required # 0 \/ length % d.required # 0 \/ least <= 0
           given == [begin |-> begin, buf |-> Cells(d, begin, begin + least),
                     from |-> off, to |-> Min({off + size, least})]
<1>1. ReadCells(d, begin, off, size, length) = IF cut THEN Error ELSE given
  BY Zenon DEF ReadCells
<1>2. least = Lesser(length, DevSize(d) - begin)
  BY MinIsLesser DEF Takes
<1>3. ~(least <= 0)
  <2> HIDE DEF least
  <2> QED BY <1>2 DEF Lesser, Takes
<1>4. ~cut
  BY <1>3
<1>5. given # Error
  <2>1. "begin" \in DOMAIN given /\ "begin" \notin DOMAIN Error
    BY DEF Error
  <2> HIDE DEF given
  <2> QED BY <2>1, Zenon
<1> HIDE DEF cut, given
<1> QED BY <1>1, <1>4, <1>5

(* The buffer that AlignedWrite (device.go:449) writes back is a multiple,  *)
(* also when it was cut at the end of the disk.                             *)
LEMMA BufferIsMultiple ==
  ASSUME NEW d, Takes(d), NEW at \in Int, NEW size \in Nat, NEW a \in {2, 4, 8},
         TryRead(d, at, size, a) # Error,
         NEW C, d.cells \in Seq(C)
  PROVE  Len(TryRead(d, at, size, a).buf) % d.required = 0
<1> DEFINE n      == DevSize(d)
           first  == Align(at, a)
           begin  == IF first.res < 0 THEN n + first.res ELSE first.res
           end    == Align(begin + first.off + size, a)
           length == (end.res - begin) + (IF end.off > 0 THEN a ELSE 0)
           total  == Lesser(length, n - begin)
           r      == TryRead(d, at, size, a)
<1>1. n \in Nat /\ n = Len(d.cells) /\ n % d.required = 0 /\ d.required \in {1, 2, 4, 8}
  BY DEF Takes, DevSize
<1>2. first.res \in Int /\ first.off \in 0 .. a - 1
  BY AlignParts
<1>3. begin \in Int
  <2> HIDE DEF first, n
  <2> QED BY <1>1, <1>2
<1>4. end.res \in Int /\ end.off \in 0 .. a - 1
  <2> DEFINE x == begin + first.off + size
  <2>1. x \in Int
    <3> HIDE DEF begin, first
    <3> QED BY <1>2, <1>3
  <2> HIDE DEF x
  <2>2. Align(x, a).res \in Int /\ Align(x, a).off \in 0 .. a - 1
    BY <2>1, AlignParts
  <2> QED BY <2>2 DEF x
<1>5. length \in Int
  <2> HIDE DEF end, begin
  <2> QED BY <1>3, <1>4
<1>6. r = ReadCells(d, begin, first.off, size, length)
  BY Zenon DEF TryRead
<1> HIDE DEF first, begin, end, length, r
<1>7. begin % d.required = 0 /\ length % d.required = 0
  <2> DEFINE least == Min({length, DevSize(d) - begin})
             cut   == begin < 0 \/ begin % d.required # 0 \/ length % d.required # 0 \/ least <= 0
             given == [begin |-> begin, buf |-> Cells(d, begin, begin + least),
                       from |-> first.off, to |-> Min({first.off + size, least})]
  <2>1. r = IF cut THEN Error ELSE given
    BY <1>6, Zenon DEF ReadCells
  <2>2. ~cut
    <3> HIDE DEF cut, given
    <3> QED BY <2>1, Zenon DEF r
  <2> QED BY <2>2
<1>8. /\ begin >= 0 /\ total > 0
      /\ r = [begin |-> begin, buf |-> Cells(d, begin, begin + total),
              from |-> first.off, to |-> Lesser(first.off + size, total)]
  <2>1. total = Lesser(length, DevSize(d) - begin) /\ DevSize(d) \in Nat /\ first.off \in Int
    BY <1>1, <1>2
  <2>2. ReadCells(d, begin, first.off, size, length) # Error
    BY <1>6 DEF r
  <2> HIDE DEF total
  <2> QED BY <1>3, <1>5, <1>6, <2>1, <2>2, ReadCellsExact
<1>9. total % d.required = 0 /\ total \in Nat /\ begin + total <= n
  <2> HIDE DEF n
  <2> DEFINE q == d.required
  <2>0. q \in {1, 2, 4, 8} /\ n % q = 0 /\ begin % q = 0 /\ length % q = 0
    BY <1>1, <1>7
  <2> HIDE DEF q
  <2>1. (n - begin) % q = 0
    <3>1. n \in Int
      BY <1>1
    <3> QED BY <1>3, <2>0, <3>1, SumIsMultiple
  <2> DEFINE k == n - begin
  <2>2. k \in Int /\ k % q = 0 /\ begin + k = n
    BY <1>1, <1>3, <2>1
  <2>3. total = length \/ total = k
    BY DEF Lesser
  <2>4. total <= k
    <3> HIDE DEF k
    <3>1. total = Lesser(length, k)
      BY DEF k
    <3> QED BY <1>5, <2>2, <3>1 DEF Lesser
  <2> HIDE DEF total, k
  <2>5. total % q = 0 /\ total \in Nat /\ begin + total <= n
    <3>1. total % q = 0
      BY <2>0, <2>2, <2>3
    <3>2. total \in Nat
      <4>1. total > 0
        BY <1>8, Zenon
      <4> QED BY <1>5, <2>2, <2>3, <4>1
    <3>3. n \in Int /\ begin \in Int
      BY <1>1, <1>3
    <3> HIDE DEF n, begin
    <3> QED BY <2>2, <2>4, <3>1, <3>2, <3>3
  <2> QED BY <2>5 DEF q
<1>10. Len(r.buf) = total
  <2> HIDE DEF n, total
  <2> DEFINE m == begin + 1  k == begin + total
  <2>1. m \in Int /\ k \in Int /\ (\A i \in m .. k : d.cells[i] \in C) /\ (IF m <= k THEN k - m + 1 ELSE 0) = total
    BY <1>1, <1>3, <1>8, <1>9
  <2>2. r.buf = SubSeq(d.cells, m, k)
    BY <1>8, Zenon DEF Cells
  <2> HIDE DEF m, k
  <2>3. Len(SubSeq(d.cells, m, k)) = (IF m <= k THEN k - m + 1 ELSE 0)
    BY <2>1, SubSeqProperties
  <2> QED BY <2>1, <2>2, <2>3
<1> QED BY <1>9, <1>10 DEF r

(* One try of rawAlignedRead (device.go:385) that succeeds: the alignment   *)
(* serves the disk, and rounding does not go before its start.              *)
LEMMA TryGiven ==
  ASSUME NEW d, Takes(d), NEW at \in Int, NEW size \in Nat \ {0}, NEW a \in {2, 4, 8},
         a % d.required = 0, Place(d, at) \in 0 .. DevSize(d) - 1,
         at < 0 => DevSize(d) % a = 0 \/ Place(d, at) >= a
  PROVE  TryRead(d, at, size, a) # Error
<1> DEFINE n      == DevSize(d)
           q      == d.required
           p      == Place(d, at)
           first  == Align(at, a)
           begin  == IF first.res < 0 THEN n + first.res ELSE first.res
           end    == Align(begin + first.off + size, a)
           pad    == IF end.off > 0 THEN a ELSE 0
           length == (end.res - begin) + pad
<1>1. n \in Nat /\ n % q = 0 /\ q \in {1, 2, 4, 8} /\ a % q = 0 /\ p \in 0 .. n - 1
  BY DEF Takes
<1>2. /\ first.res \in Int /\ first.off \in 0 .. a - 1 /\ first.res + first.off = at
      /\ at < 0 <=> first.res < 0
  BY AlignParts
<1>3. first.res % a = 0
  BY ResIsMultiple
<1>4. begin \in Int /\ begin + first.off = p
  <2> HIDE DEF first, n
  <2> QED BY <1>1, <1>2 DEF Place, n
<1>5. begin % q = 0
  <2>1. first.res % q = 0
    <3> DEFINE x == first.res
    <3>1. x \in Int /\ x % a = 0
      BY <1>2, <1>3
    <3> HIDE DEF x, q
    <3>2. x % q = 0
      BY <1>1, <3>1, MultipleOfMultiple
    <3> QED BY <3>2 DEF x
  <2> DEFINE x == first.res
  <2>2. x \in Int /\ x % q = 0 /\ begin = IF x < 0 THEN n + x ELSE x
    BY <1>2, <2>1
  <2> HIDE DEF x, q, n, begin
  <2>3. (n + x) % q = 0
    <3>1. n \in Int
      BY <1>1
    <3> QED BY <1>1, <2>2, <3>1, SumIsMultiple
  <2> QED BY <2>2, <2>3
<1>6. begin >= 0
  <2>1. CASE ~(at < 0)
    <3> HIDE DEF first, n
    <3> QED BY <1>2, <2>1
  <2>2. CASE at < 0 /\ p >= a
    <3> HIDE DEF begin, first, n, p
    <3> QED BY <1>1, <1>2, <1>4, <2>2
  <2>3. CASE at < 0 /\ n % a = 0
    <3> DEFINE x == first.res  off == first.off
    <3>1. x \in Int /\ x % a = 0 /\ x < 0 /\ off \in 0 .. a - 1
      BY <1>2, <1>3, <2>3
    <3>2. begin = n + x /\ begin + off = p
      BY <1>4, <3>1
    <3> HIDE DEF x, off, begin, n, p
    <3>3. (n + x) % a = 0
      <4>1. a \in {1, 2, 4, 8} /\ n \in Int
        BY <1>1
      <4> QED BY <2>3, <3>1, <4>1, SumIsMultiple
    <3>4. begin > -a
      BY <1>1, <1>4, <3>1, <3>2
    <3>5. begin % a = 0
      BY <3>2, <3>3
    <3>6. CASE a = 2
      BY <1>4, <3>4, <3>5, <3>6
    <3>7. CASE a = 4
      BY <1>4, <3>4, <3>5, <3>7
    <3>8. CASE a = 8
      BY <1>4, <3>4, <3>5, <3>8
    <3> QED BY <3>6, <3>7, <3>8
  <2> QED BY <2>1, <2>2, <2>3
<1> DEFINE x == begin + first.off + size
<1>7. x \in Int /\ x = p + size
  <2> HIDE DEF begin, first, p
  <2> QED BY <1>1, <1>2, <1>4
<1>8. end = Align(x, a)
  OBVIOUS
<1> HIDE DEF x
<1>9. end.res \in Int /\ end.off \in 0 .. a - 1 /\ end.res + end.off = x /\ end.res % a = 0
  <2>1. Align(x, a).res \in Int /\ Align(x, a).off \in 0 .. a - 1 /\ Align(x, a).res + Align(x, a).off = x
    BY <1>7, AlignParts
  <2>2. Align(x, a).res % a = 0
    BY <1>7, ResIsMultiple
  <2> HIDE DEF end
  <2> QED BY <1>8, <2>1, <2>2
<1> HIDE DEF end
<1>10. length \in Int /\ length > 0 /\ length % q = 0
  <2> DEFINE e == end.res  off == end.off
  <2>0. e \in Int /\ off \in 0 .. a - 1 /\ e + off = x /\ e % a = 0 /\ pad = IF off > 0 THEN a ELSE 0
    BY <1>9
  <2>2. length = (e - begin) + pad
    OBVIOUS
  <2> HIDE DEF e, off, pad, length, begin, first, q, p, n
  <2>1. pad \in Int /\ pad % a = 0 /\ e + pad >= x
    <3>1. CASE a = 2
      BY <1>7, <2>0, <3>1
    <3>2. CASE a = 4
      BY <1>7, <2>0, <3>2
    <3>3. CASE a = 8
      BY <1>7, <2>0, <3>3
    <3> QED BY <3>1, <3>2, <3>3
  <2>3. e % q = 0 /\ pad % q = 0
    BY <1>1, <2>0, <2>1, MultipleOfMultiple
  <2> DEFINE y == e - begin
  <2>4. y \in Int /\ y % q = 0 /\ length = y + pad
    <3>1. (e - begin) % q = 0
      BY <1>1, <1>4, <1>5, <2>0, <2>3, SumIsMultiple
    <3> QED BY <1>4, <2>0, <2>2, <3>1
  <2> HIDE DEF y
  <2>6. length % q = 0
    <3>1. (y + pad) % q = 0
      BY <1>1, <2>1, <2>3, <2>4, SumIsMultiple
    <3> QED BY <2>4, <3>1
  <2>7. length > 0 /\ length \in Int
    <3> DEFINE o == first.off
    <3>0. o >= 0 /\ o \in Int /\ begin + o = p
      BY <1>2, <1>4
    <3> HIDE DEF o
    <3>1. begin <= p /\ x > p
      BY <1>1, <1>4, <1>7, <3>0
    <3> QED BY <1>1, <1>4, <1>7, <2>0, <2>1, <2>2, <3>1
  <2> QED BY <2>6, <2>7
<1>11. begin \in Nat /\ begin < n
  <2> HIDE DEF begin, first, n, p
  <2> QED BY <1>1, <1>2, <1>4, <1>6
<1>12. TryRead(d, at, size, a) = ReadCells(d, begin, first.off, size, length)
  BY Zenon DEF TryRead, end
<1>13. first.off \in Int /\ size \in Int
  BY <1>2
<1> HIDE DEF begin, length, first
<1>14. ReadCells(d, begin, first.off, size, length) # Error
  BY <1>5, <1>10, <1>11, <1>13, ReadCellsGiven DEF n, q
<1> QED BY <1>12, <1>14

\* An alignment that a place on a disk can be read with.
Suits(d, at, a) ==
  a \in Alignments(d) /\ a % d.required = 0 /\ (at < 0 => DevSize(d) % a = 0 \/ Place(d, at) >= a)

(* Unless a disk may refuse, one of the alignments that are tried           *)
(* (device.go:379) serves.                                                  *)
LEMMA OneSuits ==
  ASSUME NEW d, Takes(d), DevSize(d) % 2 = 0, d.alignment \in {0, 2, 4, 8},
         NEW at \in Int, Place(d, at) \in Int, ~MayRefuse(d, at)
  PROVE  \E a \in {2, 4, 8} : Suits(d, at, a)
<1> DEFINE n == DevSize(d)  q == d.required  al == d.alignment  p == Place(d, at)
<1>1. n \in Nat /\ q \in {1, 2, 4, 8} /\ n % q = 0 /\ n % 2 = 0 /\ al \in {0, 2, 4, 8} /\ p \in Int
  BY DEF Takes
<1>2. at < 0 => ~(p < al) \/ n % al = 0
  BY DEF MayRefuse
<1>3. \A a \in {2, 4, 8} : Suits(d, at, a) <=> a >= al /\ a % q = 0 /\ (at < 0 => n % a = 0 \/ p >= a)
  BY DEF Suits, Alignments
<1> HIDE DEF n, q, al, p
<1>4. \E a \in {2, 4, 8} : a >= al /\ a % q = 0 /\ (at < 0 => n % a = 0 \/ p >= a)
  <2>1. CASE al \in {0, 2} /\ q \in {1, 2}
    <3>1. 2 >= al /\ 2 % q = 0 /\ n % 2 = 0
      BY <1>1, <2>1
    <3> QED BY <3>1
  <2>2. CASE q = 8
    <3>1. 8 >= al /\ 8 % q = 0 /\ n % 8 = 0
      BY <1>1, <2>2
    <3> QED BY <3>1
  <2>3. CASE q = 4 /\ al # 8
    <3>1. 4 >= al /\ 4 % q = 0 /\ n % 4 = 0
      BY <1>1, <2>3
    <3> QED BY <3>1
  <2>4. CASE al = 8
    <3>1. 8 >= al /\ 8 % q = 0 /\ (at < 0 => n % 8 = 0 \/ p >= 8)
      BY <1>1, <1>2, <2>4
    <3> QED BY <3>1
  <2>5. CASE al = 4 /\ q \in {1, 2}
    <3>1. 4 >= al /\ 4 % q = 0 /\ (at < 0 => n % 4 = 0 \/ p >= 4)
      BY <1>1, <1>2, <2>5
    <3> QED BY <3>1
  <2> QED BY <1>1, <2>1, <2>2, <2>3, <2>4, <2>5
<1> QED BY <1>3, <1>4

(* If some alignment serves, the loop of rawAlignedRead finds one.          *)
LEMMA RawGiven ==
  ASSUME NEW d, Takes(d), NEW at \in Int, NEW size \in Nat \ {0}, NEW a \in {2, 4, 8},
         Suits(d, at, a), Place(d, at) \in 0 .. DevSize(d) - 1
  PROVE  RawAlignedRead(d, at, size) # Error
<1> DEFINE usable == {b \in Alignments(d) : ~Failed(TryRead(d, at, size, b))}
<1>1. RawAlignedRead(d, at, size) =
        IF at > DevSize(d) \/ -at > DevSize(d) \/ usable = {} THEN Error ELSE TryRead(d, at, size, Min(usable))
  BY Zenon DEF RawAlignedRead
<1>2. TryRead(d, at, size, a) # Error
  BY TryGiven DEF Suits
<1>3. a \in usable
  BY <1>2 DEF Suits, Failed
<1>4. usable \in SUBSET (1 .. 8)
  BY DEF Alignments
<1>5. Min(usable) \in usable
  <2> HIDE DEF usable
  <2>1. usable \in SUBSET Nat
    BY <1>4
  <2>2. \E m \in usable : \A j \in usable : m <= j
    BY <1>3, <2>1, Loop!Least
  <2> QED BY <2>2, Zenon DEF Min
<1>6. TryRead(d, at, size, Min(usable)) # Error
  BY <1>5 DEF Failed
<1>7. ~(at > DevSize(d)) /\ ~(-at > DevSize(d))
  BY DEF Place, Takes
<1> HIDE DEF usable
<1> QED BY <1>1, <1>3, <1>6, <1>7

(* Then AlignedRead (device.go:353) does not fail.                          *)
LEMMA ReadGiven ==
  ASSUME NEW d, Takes(d), NEW at \in Int, NEW size \in Nat \ {0}, NEW a \in {2, 4, 8},
         Suits(d, at, a), Place(d, at) \in 0 .. DevSize(d) - 1
  PROVE  AlignedRead(d, at, size) # Error
<1> DEFINE r == RawAlignedRead(d, at, size)
           part == SubSeq(r.buf, r.from + 1, r.to)
<1>1. r # Error
  BY RawGiven
<1>2. AlignedRead(d, at, size) = [data |-> part]
  BY <1>1, Zenon DEF AlignedRead, Asked, Failed
<1> HIDE DEF part
<1>3. "data" \in DOMAIN [data |-> part] /\ "data" \notin DOMAIN Error
  BY DEF Error
<1> QED BY <1>2, <1>3, Zenon

(* Nor does AlignedWrite (device.go:449), when what is written lies within  *)
(* the disk.                                                                *)
LEMMA WriteGiven ==
  ASSUME NEW C, NEW d, d.cells \in Seq(C), Takes(d), ~d.writeFails, "cells" \in DOMAIN d,
         NEW at \in Int, NEW data \in Seq(C), Len(data) > 0, NEW a \in {2, 4, 8},
         Suits(d, at, a), Place(d, at) \in 0 .. DevSize(d) - Len(data)
  PROVE  AlignedWrite(d, at, data) # Error
<1> DEFINE len   == Len(data)
           r     == RawAlignedRead(d, at, len)
           new   == [d EXCEPT !.cells = Overlay(@, r.begin, Overlay(r.buf, r.from, data))]
           short == r.to - r.from < len \/ d.writeFails \/ Len(r.buf) % d.required # 0
           n     == DevSize(d)
           p     == Place(d, at)
           l     == Len(r.buf)
<1>1. len \in Nat \ {0} /\ n \in Nat /\ p \in 0 .. n - 1 /\ p + len <= n
  BY DEF Takes
<1> HIDE DEF len
<1>2. r # Error
  BY <1>1, RawGiven DEF n, p
<1>3. Stretch(d, at, len, r, r.begin, r.from, l)
  <2> DEFINE s == r
  <2>1. s = RawAlignedRead(d, at, len) /\ s # Error /\ len \in Nat
    BY <1>1, <1>2
  <2> HIDE DEF s, r
  <2>2. Stretch(d, at, len, s, s.begin, s.from, Len(s.buf))
    BY <2>1, RawReadExact
  <2>3. s = r
    BY <2>1 DEF r
  <2> QED BY <2>2, <2>3
<1> HIDE DEF r
<1> DEFINE from == r.from  begin == r.begin  to == r.to
<1>4. /\ begin \in Nat /\ from \in Nat /\ l \in Nat /\ begin + from = p /\ begin + l <= n
      /\ to = Lesser(from + len, l) /\ (p + len <= begin + l \/ begin + l = n)
  BY <1>3 DEF Stretch
<1> HIDE DEF from, begin, to, n, p, l
<1>5. to - from >= len
  BY <1>1, <1>4 DEF Lesser
<1>6. l % d.required = 0
  <2>1. PICK b \in {2, 4, 8} : r = TryRead(d, at, len, b)
    BY <1>2, SomeAlignment DEF r
  <2>2. len \in Nat /\ TryRead(d, at, len, b) # Error
    BY <1>1, <1>2, <2>1
  <2>3. Len(TryRead(d, at, len, b).buf) % d.required = 0
    BY <2>2, BufferIsMultiple
  <2> QED BY <2>1, <2>3 DEF l
<1>7. ~short
  <2>1. ~(to - from < len)
    BY <1>1, <1>4, <1>5 DEF Lesser
  <2> QED BY <1>6, <2>1 DEF l, to, from
<1>8. AlignedWrite(d, at, data) = IF r = Error THEN Error ELSE IF short THEN Error ELSE new
  BY Zenon DEF AlignedWrite, WriteBack, Failed, r, len
<1>9. new # Error
  <2>1. "cells" \in DOMAIN new /\ "cells" \notin DOMAIN Error
    BY DEF Error
  <2> HIDE DEF new
  <2> QED BY <2>1, Zenon
<1> HIDE DEF new, short
<1> QED BY <1>2, <1>7, <1>8, <1>9, Zenon

\* The disks that are read and written in a transfer.
LEMMA ReadExactOrRefused ==
  ASSUME NEW C, NEW d, d.cells \in Seq(C), DevSize(d) % 2 = 0, d.alignment \in {0, 2, 4, 8},
         d.required > MaxAlign \/ Takes(d), NEW at \in Int, NEW len \in Nat \ {0}
  PROVE  Exact(d, at, AlignedRead(d, at, len), [data |-> Wanted(d, at, len)])
<1> DEFINE n == DevSize(d)  p == Place(d, at)  result == AlignedRead(d, at, len)
           wanted == Wanted(d, at, len)
<1>1. n \in Nat /\ p \in Int /\ len \in Nat
  BY DEF DevSize, Place
<1>2. wanted = SubSeq(d.cells, p + 1, Lesser(p + len, n))
  <2>1. Min({p + len, n}) = Lesser(p + len, n)
    <3> HIDE DEF n, p
    <3> QED BY <1>1, MinIsLesser
  <2> QED BY <2>1, Zenon DEF Wanted
<1>3. result # Error => p \in 0 .. n /\ result = [data |-> wanted]
  <2>1. ASSUME result # Error
        PROVE  p \in 0 .. n /\ result = [data |-> SubSeq(d.cells, p + 1, Lesser(p + len, n))]
    BY <1>1, <2>1, ReadIsExact
  <2> QED BY <1>2, <2>1, Zenon
<1>4. p = n => wanted = << >>
  <2>1. ASSUME p = n PROVE Lesser(p + len, n) = n
    BY <1>1, <2>1 DEF Lesser
  <2>2. ASSUME p = n PROVE wanted = SubSeq(d.cells, n + 1, n)
    BY <1>2, <2>1, <2>2, Zenon
  <2> HIDE DEF n, wanted
  <2>3. SubSeq(d.cells, n + 1, n) = << >>
    BY <1>1, SubSeqEmpty
  <2> QED BY <2>2, <2>3
<1>5. p \in 0 .. n - 1 /\ result = Error => MayRefuse(d, at)
  <2>1. SUFFICES ASSUME p \in 0 .. n - 1, ~MayRefuse(d, at) PROVE result # Error
    BY Zenon
  <2>2. Takes(d)
    BY <2>1 DEF MayRefuse
  <2>3. PICK a \in {2, 4, 8} : Suits(d, at, a)
    BY <1>1, <2>1, <2>2, OneSuits
  <2> QED BY <2>1, <2>2, <2>3, ReadGiven
<1>6. p \notin 0 .. n - 1 => result \in {Error, [data |-> << >>]}
  <2> HIDE DEF n, p, result, wanted
  <2> QED BY <1>1, <1>3, <1>4
<1>7. p \in 0 .. n - 1 => result = [data |-> wanted] \/ (MayRefuse(d, at) /\ result = Error)
  BY <1>3, <1>5, Zenon
<1> QED BY <1>6, <1>7, Zenon DEF Exact

(* AlignedWrite, whatever place and data: exactly those cells are changed,  *)
(* or it fails where it must.                                               *)
LEMMA WriteExactOrRefused ==
  ASSUME NEW C, NEW d, d.cells \in Seq(C), DevSize(d) % 2 = 0, d.alignment \in {0, 2, 4, 8},
         d.required > MaxAlign \/ Takes(d), ~d.writeFails, "cells" \in DOMAIN d,
         NEW at \in Int, NEW data \in Seq(C), Len(data) > 0
  PROVE  Exact(d, at, AlignedWrite(d, at, data),
               IF Len(Wanted(d, at, Len(data))) < Len(data) THEN Error
               ELSE [d EXCEPT !.cells = Overlay(@, Place(d, at), data)])
<1> DEFINE n == DevSize(d)  p == Place(d, at)  len == Len(data)  result == AlignedWrite(d, at, data)
           written == [d EXCEPT !.cells = Overlay(d.cells, p, data)]
           wanted == Wanted(d, at, len)
<1>1. n \in Nat /\ p \in Int /\ len \in Nat \ {0}
  BY DEF DevSize, Place
<1>2. result # Error => p \in 0 .. n - len /\ result = written
  BY WriteIsExact
<1>3. p \in 0 .. n - 1 => Len(wanted) = Lesser(p + len, n) - p
  <2> HIDE DEF len
  <2>1. Min({p + len, n}) = Lesser(p + len, n)
    <3> HIDE DEF n, p
    <3> QED BY <1>1, MinIsLesser
  <2>2. wanted = SubSeq(d.cells, p + 1, Lesser(p + len, n))
    BY <2>1, Zenon DEF Wanted
  <2>3. n = Len(d.cells)
    BY DEF DevSize
  <2> DEFINE k == Lesser(p + len, n)  m == p + 1
  <2> HIDE DEF wanted, n, p
  <2>4. ASSUME p \in 0 .. n - 1 PROVE m \in Int /\ k \in Int /\ (\A i \in m .. k : d.cells[i] \in C) /\ m <= k /\ k - m + 1 = k - p
    <3> DEFINE row == d.cells
    <3>1. row \in Seq(C) /\ n = Len(row)
      BY <2>3
    <3> HIDE DEF row
    <3>2. m \in Int /\ k \in Int /\ m >= 1 /\ k <= Len(row) /\ m <= k /\ k - m + 1 = k - p
      BY <1>1, <2>4, <3>1 DEF Lesser
    <3> HIDE DEF m, k
    <3>3. \A i \in m .. k : row[i] \in C
      BY <3>1, <3>2
    <3> QED BY <3>2, <3>3 DEF row
  <2> HIDE DEF k, m
  <2>5. ASSUME p \in 0 .. n - 1 PROVE Len(SubSeq(d.cells, m, k)) = k - m + 1
    BY <2>4, <2>5, SubSeqProperties
  <2> QED BY <2>2, <2>4, <2>5 DEF m, k
<1>4. p \in 0 .. n - 1 => (Len(wanted) < len <=> p + len > n)
  <2> HIDE DEF n, p, len, wanted
  <2> QED BY <1>1, <1>3 DEF Lesser
<1>5. p \in 0 .. n - len /\ result = Error => MayRefuse(d, at)
  <2>1. SUFFICES ASSUME p \in 0 .. n - len, ~MayRefuse(d, at) PROVE result # Error
    BY Zenon
  <2>2. Takes(d)
    BY <2>1 DEF MayRefuse
  <2>3. PICK a \in {2, 4, 8} : Suits(d, at, a)
    BY <1>1, <2>1, <2>2, OneSuits
  <2> QED BY <2>1, <2>2, <2>3, WriteGiven
<1> DEFINE expected == IF Len(wanted) < len THEN Error ELSE written
<1>6. Exact(d, at, result, expected)
  <2> HIDE DEF written, result, wanted, expected, n, p, len
  <2>1. p \notin 0 .. n - 1 => result = Error
    BY <1>1, <1>2
  <2>2. p \in 0 .. n - 1 => result = expected \/ (MayRefuse(d, at) /\ result = Error)
    <3>1. CASE p + len > n
      <4>1. p \in 0 .. n - 1 => expected = Error
        BY <1>4, <3>1 DEF expected
      <4>2. result = Error
        BY <1>1, <1>2, <3>1
      <4> QED BY <4>1, <4>2
    <3>2. CASE ~(p + len > n)
      <4>1. p \in 0 .. n - 1 => expected = written /\ p \in 0 .. n - len
        BY <1>1, <1>4, <3>2 DEF expected
      <4> QED BY <1>2, <1>5, <4>1
    <3> QED BY <3>1, <3>2
  <2>3. Exact(d, at, result, expected) <=>
          IF p \notin 0 .. n - 1 THEN result \in {Error, [data |-> << >>]}
          ELSE result = expected \/ (MayRefuse(d, at) /\ result = Error)
    BY Zenon DEF Exact, n, p
  <2> QED BY <2>1, <2>2, <2>3
<1> QED BY <1>6, Zenon

(* AlignedRead, AlignedWrite and InRange (device.go:322) on any disk.       *)
LEMMA TransfersAreExact ==
  ASSUME NEW size \in DiskSizes, NEW required \in Required, NEW alignment \in {0, 2, 4, 8}, size % required = 0,
         NEW d, d = Disk([i \in 1 .. size |-> i], required, MinAlign, alignment, FALSE),
         NEW at \in Begins, NEW len \in Lengths
  PROVE  TransferIsExact(d, at, len)
<1> DEFINE n == DevSize(d)  p == Place(d, at)
           data == [i \in 1 .. len |-> -i]
           wanted == Wanted(d, at, len)
<1>1. size \in Nat /\ size % 2 = 0 /\ required \in Nat \ {0} /\ (required > MaxAlign \/ required \in {1, 2, 4, 8})
      /\ at \in Int /\ len \in Nat \ {0}
  BY RaidAssumption DEF MinAlign
<1>2. /\ d.cells = [i \in 1 .. size |-> i] /\ d.required = required /\ d.alignment = alignment /\ d.writeFails = FALSE
      /\ "cells" \in DOMAIN d
  BY DEF Disk
<1>3. d.cells \in Seq(Int) /\ Len(d.cells) = size
  <2> DEFINE row == [i \in 1 .. size |-> i]
  <2>1. row \in Seq(Int) /\ Len(row) = size
    BY <1>1
  <2> QED BY <1>2, <2>1, Zenon
<1>4. n = size /\ (d.required > MaxAlign \/ Takes(d))
  BY <1>1, <1>2, <1>3 DEF DevSize, Takes
<1>5. data \in Seq(Int) /\ Len(data) = len
  BY <1>1
<1>6. p \in Int
  <2>1. p = IF at < 0 THEN n + at ELSE at
    BY Zenon DEF Place
  <2> HIDE DEF n, p
  <2> QED BY <1>1, <1>4, <2>1
<1> HIDE DEF n, p, data, wanted
<1>7. d.alignment # 0 => (InRange(d, at, len) <=> p + len <= n)
  <2> DEFINE x == p + len
  <2>1. InRange(d, at, len) <=> Align(x, alignment).res + Align(x, alignment).off <= n
    BY <1>2, Zenon DEF InRange, Place, p, n
  <2>2. x \in Int
    BY <1>1, <1>6
  <2> HIDE DEF x
  <2>3. ASSUME alignment # 0 PROVE Align(x, alignment).res + Align(x, alignment).off = x
    <3>1. alignment \in {2, 4, 8}
      BY <2>3
    <3> QED BY <2>2, <3>1, AlignParts
  <2> QED BY <1>2, <2>1, <2>3 DEF x
<1>8. Exact(d, at, AlignedRead(d, at, len), [data |-> wanted])
  <2>1. DevSize(d) % 2 = 0 /\ d.alignment \in {0, 2, 4, 8}
    BY <1>1, <1>2, <1>4 DEF n
  <2> QED BY <1>1, <1>3, <1>4, <2>1, ReadExactOrRefused DEF wanted
<1>9. Exact(d, at, AlignedWrite(d, at, data), IF Len(wanted) < len THEN Error ELSE [d EXCEPT !.cells = Overlay(@, p, data)])
  <2>1. DevSize(d) % 2 = 0 /\ d.alignment \in {0, 2, 4, 8} /\ ~d.writeFails /\ Len(data) > 0
    <3>1. DevSize(d) = size
      BY <1>4 DEF n
    <3>2. ~d.writeFails /\ d.alignment \in {0, 2, 4, 8}
      BY <1>2
    <3>3. Len(data) > 0
      BY <1>1, <1>5
    <3> QED BY <1>1, <3>1, <3>2, <3>3
  <2>2. Exact(d, at, AlignedWrite(d, at, data),
              IF Len(Wanted(d, at, Len(data))) < Len(data) THEN Error
              ELSE [d EXCEPT !.cells = Overlay(@, Place(d, at), data)])
    BY <1>1, <1>2, <1>3, <1>4, <1>5, <2>1, WriteExactOrRefused
  <2> QED BY <1>5, <2>2 DEF wanted, p
<1> QED BY <1>7, <1>8, <1>9, Zenon DEF TransferIsExact, n, p, data, wanted

-----------------------------------------------------------------------------
(* What a part of a row of cells is.                                        *)
LEMMA PartOfRow ==
  ASSUME NEW C, NEW row \in Seq(C), NEW m \in Nat, NEW k \in Nat, 1 <= m, m <= k + 1, k <= Len(row)
  PROVE  /\ SubSeq(row, m, k) \in Seq(C) /\ Len(SubSeq(row, m, k)) = k - m + 1
         /\ \A i \in 1 .. k - m + 1 : SubSeq(row, m, k)[i] = row[m + i - 1]
<1>1. \A i \in m .. k : row[i] \in C
  OBVIOUS
<1>2. m \in Int /\ k \in Int /\ (IF m <= k THEN k - m + 1 ELSE 0) = k - m + 1
  OBVIOUS
<1> QED BY <1>1, <1>2, SubSeqProperties

\* A disk that has been read with no alignment yet, nor asks for much.
Plain(d) == Takes(d) /\ DevSize(d) % 2 = 0 /\ d.alignment = 0

(* A read of a disk that no alignment was found for yet, within it,         *)
(* succeeds.                                                                *)
LEMMA PlainRead ==
  ASSUME NEW C, NEW d, d.cells \in Seq(C), Plain(d), NEW at \in Int, NEW len \in Nat \ {0},
         NEW p, p = Place(d, at), p \in 0 .. DevSize(d) - len
  PROVE  AlignedRead(d, at, len) # Error /\ AlignedRead(d, at, len) = [data |-> SubSeq(d.cells, p + 1, p + len)]
<1> DEFINE n == DevSize(d)
<1>1. n \in Nat /\ p \in 0 .. n - 1 /\ Lesser(p + len, n) = p + len
  BY DEF Plain, Takes, Lesser
<1>2. d.alignment \in {0, 2, 4, 8} /\ ~MayRefuse(d, at) /\ Place(d, at) \in Int
  BY <1>1 DEF Plain, Takes, MayRefuse, MaxAlign
<1>3. PICK a \in {2, 4, 8} : Suits(d, at, a)
  BY <1>2, OneSuits DEF Plain
<1>4. AlignedRead(d, at, len) # Error
  BY <1>1, <1>3, ReadGiven DEF Plain
<1>5. len \in Nat
  OBVIOUS
<1>6. AlignedRead(d, at, len) = [data |-> SubSeq(d.cells, Place(d, at) + 1, Lesser(Place(d, at) + len, n))]
  BY <1>4, <1>5, ReadIsExact
<1> QED BY <1>1, <1>4, <1>6

(* The write of Restore (device.go:253) to the end of such a disk succeeds  *)
(* unless the disk fails.                                                   *)
LEMMA PlainWrite ==
  ASSUME NEW C, NEW d, d.cells \in Seq(C), Plain(d), "cells" \in DOMAIN d, NEW data \in Seq(C), Len(data) > 0,
         Len(data) <= DevSize(d)
  PROVE  /\ d.writeFails = TRUE => AlignedWrite(d, -Len(data), data) = Error
         /\ d.writeFails = FALSE => AlignedWrite(d, -Len(data), data) # Error
<1>1. d.writeFails = TRUE => AlignedWrite(d, -Len(data), data) = Error
  BY Zenon DEF AlignedWrite, WriteBack
<1>2. ASSUME d.writeFails = FALSE PROVE AlignedWrite(d, -Len(data), data) # Error
  <2> DEFINE at == -Len(data)  n == DevSize(d)
  <2>1. at \in Int /\ at < 0 /\ n \in Nat /\ n + at \in 0 .. n - Len(data)
    BY DEF Plain, Takes
  <2> HIDE DEF at
  <2>2. Place(d, at) = n + at
    BY <2>1, Zenon DEF Place
  <2>3. d.alignment \in {0, 2, 4, 8} /\ ~MayRefuse(d, at) /\ Place(d, at) \in Int
    BY <2>1, <2>2 DEF Plain, Takes, MayRefuse, MaxAlign
  <2>4. PICK a \in {2, 4, 8} : Suits(d, at, a)
    BY <2>1, <2>3, OneSuits DEF Plain
  <2>5. Takes(d) /\ Place(d, at) \in 0 .. DevSize(d) - Len(data) /\ ~d.writeFails
    BY <1>2, <2>1, <2>2 DEF Plain
  <2>6. AlignedWrite(d, at, data) # Error
    BY <2>1, <2>4, <2>5, WriteGiven
  <2> QED BY <2>6 DEF at
<1> QED BY <1>1, <1>2

(* A header is there (detectDDF, ddf.go:62) if it lies before the anchor    *)
(* and has the signature.                                                   *)
LEMMA HeaderIs ==
  ASSUME NEW C, NEW d, d.cells \in Seq(C), Plain(d), NEW lba, Lba2byte(d, lba) \in Nat
  PROVE  HeaderAt(d, lba) <=> Lba2byte(d, lba) < DevSize(d) - 2 /\ d.cells[Lba2byte(d, lba) + 1] = "ddf"
<1> DEFINE x == Lba2byte(d, lba)  n == DevSize(d)  header == AlignedRead(d, x, 2)  row == d.cells
<1>1. x \in Nat /\ n \in Nat /\ row \in Seq(C) /\ n = Len(row)
  BY DEF Plain, Takes, DevSize
<1>2. HeaderAt(d, lba) <=> x < n - 2 /\ ~Failed(header) /\ Len(header.data) = 2 /\ HasSig(header.data, "ddf")
  BY Zenon DEF HeaderAt, AnchorSize
<1>3. ASSUME x < n - 2 PROVE ~Failed(header) /\ Len(header.data) = 2 /\ (HasSig(header.data, "ddf") <=> row[x + 1] = "ddf")
  <2> HIDE DEF x
  <2>1. Place(d, x) = x /\ x \in Int /\ x \in 0 .. DevSize(d) - 2
    BY <1>1, <1>3 DEF Place
  <2>2. 2 \in Nat \ {0}
    OBVIOUS
  <2>3. header # Error /\ header = [data |-> SubSeq(d.cells, x + 1, x + 2)]
    BY <2>1, <2>2, PlainRead
  <2> DEFINE m == x + 1  k == x + 2
  <2>4. m \in Nat /\ k \in Nat /\ 1 <= m /\ m <= k + 1 /\ k <= Len(row) /\ k - m + 1 = 2 /\ m + 1 - 1 = m
    BY <1>1, <1>3
  <2>5. header.data = SubSeq(row, m, k)
    BY <2>3
  <2> HIDE DEF header, row, m, k
  <2>6. Len(SubSeq(row, m, k)) = k - m + 1 /\ \A i \in 1 .. k - m + 1 : SubSeq(row, m, k)[i] = row[m + i - 1]
    BY <1>1, <2>4, PartOfRow
  <2>7. Len(header.data) = 2 /\ header.data[1] = row[m]
    BY <2>4, <2>5, <2>6
  <2>8. header.data # << >>
    BY <2>7
  <2> QED BY <2>3, <2>7, <2>8 DEF Failed, HasSig, m
<1> HIDE DEF x, n, header, row
<1> QED BY <1>2, <1>3 DEF x, n, row

Anchored == {"ddf", "headless"}
Kinds == {"imsm", "ddf", "headless", "none"}
Lbas(size) == (0 .. size) \cup {NoSecondary}
CellOf(pri, sec) == {"imsm", "ddf", "data", "erased", [pri |-> pri, sec |-> sec]}

\* Where a disk of this size has the signatures and the anchor of its metadata.
Marked(row, size, metadata, sector, pri, sec) ==
  /\ row \in Seq(CellOf(pri, sec)) /\ Len(row) = size
  /\ row[size - 3] = "imsm" <=> metadata = "imsm"
  /\ row[size - 1] = "ddf" <=> metadata \in Anchored
  /\ metadata \in Anchored => row[size] = [pri |-> pri, sec |-> sec]
  /\ metadata = "ddf" => \A x \in Nat : x \in {sector * pri, sector * sec} /\ x < size - 2 => row[x + 1] = "ddf"
  /\ metadata = "headless" => \A x \in Nat : x < size - 2 => row[x + 1] # "ddf"

(* What the detection looks at of a disk with metadata.                     *)
LEMMA DataDiskCells ==
  ASSUME NEW size \in Nat, size >= 8, NEW metadata \in Kinds, NEW sector \in Nat \ {0},
         NEW pri \in 0 .. size, NEW sec \in Lbas(size), NEW row, row = DataDisk(size, metadata, sector, pri, sec)
  PROVE  Marked(row, size, metadata, sector, pri, sec)
<1> DEFINE imsm == IF metadata = "imsm" THEN {size - 3} ELSE {}
           ddf  == CASE metadata = "ddf"      -> {size - 1, sector * pri + 1, sector * sec + 1}
                     [] metadata = "headless" -> {size - 1}
                     [] OTHER                 -> {}
           record == [pri |-> pri, sec |-> sec]
           cell(i) == IF metadata \in {"ddf", "headless"} /\ i = size THEN record
                      ELSE IF i \in imsm THEN "imsm" ELSE IF i \in ddf THEN "ddf" ELSE "data"
<1>1. row = [i \in 1 .. size |-> cell(i)]
  BY DEF DataDisk
<1>2. /\ metadata = "ddf" => ddf = {size - 1, sector * pri + 1, sector * sec + 1}
      /\ metadata = "headless" => ddf = {size - 1}
      /\ metadata \in {"imsm", "none"} => ddf = {}
  OBVIOUS
<1>3. imsm = IF metadata = "imsm" THEN {size - 3} ELSE {}
  OBVIOUS
<1> HIDE DEF imsm, ddf, record
<1>4. row \in Seq(CellOf(pri, sec)) /\ Len(row) = size
  <2>1. \A i \in 1 .. size : cell(i) \in CellOf(pri, sec)
    BY DEF CellOf, record
  <2> HIDE DEF cell
  <2> QED BY <1>1, <2>1
<1>5. \A i \in 1 .. size : row[i] = cell(i)
  <2> HIDE DEF cell
  <2> QED BY <1>1
<1>6. /\ size - 3 \in 1 .. size /\ size - 3 # size /\ size - 3 # size - 1
      /\ size - 1 \in 1 .. size /\ size - 1 # size /\ size \in 1 .. size
  OBVIOUS
<1>7. row[size - 3] = "imsm" <=> metadata = "imsm"
  BY <1>3, <1>5, <1>6
<1>8. row[size - 1] = "ddf" <=> metadata \in Anchored
  BY <1>2, <1>3, <1>5, <1>6 DEF Anchored, Kinds
<1>9. metadata \in Anchored => row[size] = record
  BY <1>5, <1>6 DEF Anchored
<1>10. ASSUME metadata = "ddf", NEW x \in Nat, x \in {sector * pri, sector * sec}, x < size - 2 PROVE row[x + 1] = "ddf"
  <2>1. x + 1 \in 1 .. size /\ x + 1 # size /\ x + 1 \in ddf /\ imsm = {}
    BY <1>2, <1>3, <1>10
  <2>2. cell(x + 1) = "ddf"
    BY <2>1
  <2> QED BY <1>5, <2>1, <2>2
<1>11. ASSUME metadata = "headless", NEW x \in Nat, x < size - 2 PROVE row[x + 1] # "ddf"
  <2>1. x + 1 \in 1 .. size /\ x + 1 # size /\ x + 1 \notin ddf /\ imsm = {}
    BY <1>2, <1>3, <1>11
  <2>2. cell(x + 1) = "data"
    BY <2>1
  <2>3. "data" # "ddf"
    OBVIOUS
  <2> QED BY <1>5, <2>1, <2>2, <2>3
<1>12. \A x \in Nat : metadata = "ddf" /\ x \in {sector * pri, sector * sec} /\ x < size - 2 => row[x + 1] = "ddf"
  BY <1>10
<1>13. \A x \in Nat : metadata = "headless" /\ x < size - 2 => row[x + 1] # "ddf"
  BY <1>11
<1> QED BY <1>4, <1>7, <1>8, <1>9, <1>12, <1>13, Zenon DEF record, Marked

\* The cells of a disk with metadata, as far as they are looked at.
Holds(d, metadata, pri, sec) ==
  LET size == DevSize(d)  row == d.cells
  IN /\ size \in Nat /\ size >= 8 /\ size < NoSecondary /\ Plain(d) /\ d.sector \in Nat \ {0} /\ "cells" \in DOMAIN d
     /\ metadata \in Kinds /\ pri \in 0 .. size /\ sec \in Lbas(size) /\ pri # sec
     /\ Marked(row, size, metadata, d.sector, pri, sec)

(* DetectRaidType (device.go:195), for a disk of any size with its headers  *)
(* anywhere: imsm is always found, ddf unless its headers lie where the     *)
(* anchor is or the sectors are too small, and nothing else is.             *)
LEMMA Detected ==
  ASSUME NEW d, NEW metadata, NEW pri, NEW sec, Holds(d, metadata, pri, sec)
  PROVE  LET type == DetectRaidType(d, 0)
             Clear(lba) == d.sector * lba < DevSize(d) - 2
         IN /\ type \in {"imsm", "ddf", "unknown"}
            /\ type = "imsm" <=> metadata = "imsm"
            /\ type = "ddf" <=> /\ metadata = "ddf" /\ d.sector % 2 = 0
                                /\ Clear(pri) /\ (sec = NoSecondary \/ Clear(sec))
<1> DEFINE n == DevSize(d)  row == d.cells  C == CellOf(pri, sec)
           x == d.sector * pri  y == d.sector * sec
           type == DetectRaidType(d, 0)
<1>1. n \in Nat /\ n >= 8 /\ row \in Seq(C) /\ Len(row) = n /\ Plain(d)
  BY DEF Holds, Marked
<1>2. x \in Nat /\ y \in Nat
  <2>1. NoSecondary \in Nat
    BY RaidAssumption
  <2>2. d.sector \in Nat /\ pri \in Nat /\ sec \in Nat
    BY <1>1, <2>1 DEF Holds, Marked, Lbas
  <2> QED BY <2>2
<1>3. AlignedRead(d, -8, 8) # Error
  <2>1. Place(d, -8) = n - 8 /\ n - 8 \in 0 .. DevSize(d) - 8 /\ -8 \in Int /\ 8 \in Nat \ {0}
    BY <1>1 DEF Place
  <2> QED BY <1>1, <2>1, PlainRead
<1>4. DetectIMSM(d) <=> metadata = "imsm"
  <2> DEFINE m == n - 3
  <2>1. m \in Nat /\ 1 <= m /\ m <= n + 1 /\ n <= Len(row) /\ n - m + 1 = 4 /\ (n - 4) + 1 = m /\ m + 1 - 1 = m
    BY <1>1
  <2>2. Cells(d, n - 4, n) = SubSeq(row, m, n)
    BY <2>1 DEF Cells
  <2>3. row[m] = "imsm" <=> metadata = "imsm"
    BY DEF Holds, Marked
  <2> DEFINE tail == Cells(d, n - 4, n)
  <2>4. DetectIMSM(d) <=> HasSig(tail, "imsm")
    BY DEF DetectIMSM, ImsmSize
  <2> HIDE DEF m, n, row, tail
  <2>5. Len(SubSeq(row, m, n)) = n - m + 1 /\ \A i \in 1 .. n - m + 1 : SubSeq(row, m, n)[i] = row[m + i - 1]
    BY <1>1, <2>1, PartOfRow
  <2>6. Len(tail) = 4 /\ tail[1] = row[m]
    <3>1. 1 \in 1 .. n - m + 1 /\ tail = SubSeq(row, m, n)
      BY <2>1, <2>2 DEF tail
    <3> QED BY <2>1, <2>5, <3>1
  <2>7. tail # << >>
    BY <2>6
  <2> QED BY <2>3, <2>4, <2>6, <2>7 DEF HasSig
<1>5. LET anchor == Cells(d, n - 2, n)
      IN /\ HasSig(anchor, "ddf") <=> metadata \in Anchored
         /\ metadata \in Anchored => FindOffsets(anchor) = [pri |-> pri, sec |-> sec]
  <2> DEFINE m == n - 1  anchor == Cells(d, n - 2, n)
  <2>1. m \in Nat /\ 1 <= m /\ m <= n + 1 /\ n <= Len(row) /\ n - m + 1 = 2 /\ (n - 2) + 1 = m /\ m + 1 - 1 = m /\ m + 2 - 1 = n
    BY <1>1
  <2>2. anchor = SubSeq(row, m, n)
    BY <2>1 DEF Cells
  <2>3. /\ row[m] = "ddf" <=> metadata \in Anchored
        /\ metadata \in Anchored => row[n] = [pri |-> pri, sec |-> sec]
    BY DEF Holds, Marked
  <2> HIDE DEF m, n, row, anchor
  <2>4. Len(SubSeq(row, m, n)) = n - m + 1 /\ \A i \in 1 .. n - m + 1 : SubSeq(row, m, n)[i] = row[m + i - 1]
    BY <1>1, <2>1, PartOfRow
  <2>5. Len(anchor) = 2 /\ anchor[1] = row[m] /\ anchor[2] = row[n]
    <3>1. 1 \in 1 .. n - m + 1 /\ 2 \in 1 .. n - m + 1
      BY <2>1
    <3> QED BY <2>1, <2>2, <2>4, <3>1
  <2>6. anchor # << >>
    BY <2>5
  <2>7. HasSig(anchor, "ddf") <=> metadata \in Anchored
    BY <2>3, <2>5, <2>6 DEF HasSig
  <2>8. metadata \in Anchored => FindOffsets(anchor) = [pri |-> pri, sec |-> sec]
    BY <2>3, <2>5 DEF FindOffsets
  <2> QED BY <2>7, <2>8 DEF anchor
<1>6. DetectDDF(d) <=> /\ metadata \in Anchored /\ d.sector % 2 = 0
                       /\ HeaderAt(d, pri) /\ (sec = NoSecondary \/ HeaderAt(d, sec))
  <2> DEFINE anchor == Cells(d, n - 2, n)
  <2>1. DetectDDF(d) <=> /\ HasSig(anchor, "ddf") /\ d.sector % 2 = 0
                         /\ HeaderAt(d, FindOffsets(anchor).pri)
                         /\ (FindOffsets(anchor).sec = NoSecondary \/ HeaderAt(d, FindOffsets(anchor).sec))
    BY DEF DetectDDF, AnchorSize, MinAlign
  <2>2. /\ HasSig(anchor, "ddf") <=> metadata \in Anchored
        /\ metadata \in Anchored => FindOffsets(anchor) = [pri |-> pri, sec |-> sec]
    BY <1>5, Zenon
  <2> HIDE DEF anchor
  <2>3. CASE metadata \in Anchored
    <3>1. FindOffsets(anchor).pri = pri /\ FindOffsets(anchor).sec = sec
      BY <2>2, <2>3
    <3>2. HasSig(anchor, "ddf")
      BY <2>2, <2>3
    <3> QED BY <2>1, <2>3, <3>1, <3>2, Zenon
  <2>4. CASE metadata \notin Anchored
    BY <2>1, <2>2, <2>4, Zenon
  <2> QED BY <2>3, <2>4, Zenon
<1>7. /\ HeaderAt(d, pri) <=> x < n - 2 /\ row[x + 1] = "ddf"
      /\ HeaderAt(d, sec) <=> y < n - 2 /\ row[y + 1] = "ddf"
  <2>1. Lba2byte(d, pri) = x /\ Lba2byte(d, sec) = y
    BY DEF Lba2byte
  <2> HIDE DEF x, y
  <2>2. HeaderAt(d, pri) <=> Lba2byte(d, pri) < DevSize(d) - 2 /\ d.cells[Lba2byte(d, pri) + 1] = "ddf"
    BY <1>1, <1>2, <2>1, HeaderIs
  <2>3. HeaderAt(d, sec) <=> Lba2byte(d, sec) < DevSize(d) - 2 /\ d.cells[Lba2byte(d, sec) + 1] = "ddf"
    BY <1>1, <1>2, <2>1, HeaderIs
  <2> QED BY <2>1, <2>2, <2>3
<1>8. /\ metadata = "ddf" /\ x < n - 2 => row[x + 1] = "ddf"
      /\ metadata = "ddf" /\ y < n - 2 => row[y + 1] = "ddf"
      /\ metadata = "headless" /\ x < n - 2 => row[x + 1] # "ddf"
  <2>1. /\ metadata = "ddf" => \A z \in Nat : z \in {x, y} /\ z < n - 2 => row[z + 1] = "ddf"
        /\ metadata = "headless" => \A z \in Nat : z < n - 2 => row[z + 1] # "ddf"
    BY DEF Holds, Marked
  <2> HIDE DEF x, y, n, row
  <2> QED BY <1>2, <2>1
<1> HIDE DEF x, y, n, row
<1>9. DetectDDF(d) <=> /\ metadata = "ddf" /\ d.sector % 2 = 0 /\ x < n - 2 /\ (sec = NoSecondary \/ y < n - 2)
  <2>1. CASE metadata = "ddf"
    <3>1. metadata \in Anchored
      BY <2>1 DEF Anchored
    <3> QED BY <1>6, <1>7, <1>8, <2>1, <3>1
  <2>2. CASE metadata = "headless"
    BY <1>6, <1>7, <1>8, <2>2
  <2>3. CASE metadata \notin Anchored
    <3>1. metadata # "ddf"
      BY <2>3 DEF Anchored
    <3> QED BY <1>6, <2>3, <3>1
  <2> QED BY <2>1, <2>2, <2>3 DEF Anchored
<1>10. type = IF DetectIMSM(d) THEN "imsm" ELSE IF DetectDDF(d) THEN "ddf" ELSE "unknown"
  <2>1. type = IF AlignedRead(d, -8, 8) = Error THEN "skipped" ELSE IF DetectIMSM(d) THEN "imsm"
               ELSE IF DetectDDF(d) THEN "ddf" ELSE IF n > 0 THEN "unknown" ELSE "unset"
    BY DEF DetectRaidType, DetectSize, Failed, n
  <2>2. n > 0
    BY <1>1
  <2> QED BY <1>3, <2>1, <2>2, Zenon
<1> HIDE DEF type
<1>11. type = IF metadata = "imsm" THEN "imsm" ELSE IF DetectDDF(d) THEN "ddf" ELSE "unknown"
  BY <1>4, <1>10
<1>12. /\ type \in {"imsm", "ddf", "unknown"} /\ (type = "imsm" <=> metadata = "imsm")
       /\ type = "ddf" <=> DetectDDF(d) /\ metadata # "imsm"
  BY <1>11
<1>13. type = "ddf" <=> /\ metadata = "ddf" /\ d.sector % 2 = 0 /\ x < n - 2 /\ (sec = NoSecondary \/ y < n - 2)
  BY <1>9, <1>12
<1> QED BY <1>12, <1>13 DEF type, x, y, n

(* The record that saveDDF (ddf.go:111) and saveIMSM (imsm.go:30) take lies *)
(* on the disk, and begins with the first header.                           *)
LEMMA RecordPlaced ==
  ASSUME NEW d, NEW metadata, NEW pri, NEW sec, Holds(d, metadata, pri, sec),
         NEW type, type = DetectRaidType(d, 0), type \in {"imsm", "ddf"}
  PROVE  /\ RecordPlace(d, type) = IF type = "imsm" THEN DevSize(d) - 4 ELSE d.sector * Lesser(pri, sec)
         /\ RecordPlace(d, type) \in 0 .. DevSize(d) - 1
         /\ Backup(d, type) = AlignedRead(d, RecordPlace(d, type), DevSize(d) - RecordPlace(d, type))
            \/ (Backup(d, type) = AlignedRead(d, -4, 4) /\ type = "imsm")
<1> DEFINE n == DevSize(d)  row == d.cells  C == CellOf(pri, sec)
           x == d.sector * pri  y == d.sector * sec  start == RecordPlace(d, type)
<1>1. n \in Nat /\ n >= 8 /\ row \in Seq(C) /\ Len(row) = n /\ Plain(d) /\ pri \in 0 .. n /\ sec \in Lbas(n) /\ pri # sec
  BY DEF Holds, Marked
<1>2. /\ type = "imsm" <=> metadata = "imsm"
      /\ type = "ddf" <=> metadata = "ddf" /\ d.sector % 2 = 0 /\ x < n - 2 /\ (sec = NoSecondary \/ y < n - 2)
  BY Detected
<1>3. CASE type = "imsm"
  <2>1. start = n - 4
    BY <1>3 DEF RecordPlace, ImsmSize
  <2>2. Backup(d, type) = AlignedRead(d, -4, 4)
    BY <1>3 DEF Backup, SaveIMSM, ImsmSize
  <2> QED BY <1>1, <1>3, <2>1, <2>2
<1>4. CASE type = "ddf"
  <2> DEFINE anchor == AlignedRead(d, -2, 2)  m == n - 1  k == n - 2 + 2
  <2>a. Place(d, -2) = n - 2 /\ -2 \in Int /\ 2 \in Nat \ {0} /\ n - 2 \in 0 .. DevSize(d) - 2
    BY <1>1 DEF Place
  <2>1. /\ (n - 2) + 1 = m /\ m \in Nat /\ k \in Nat /\ 1 <= m /\ m <= k + 1 /\ k <= Len(row) /\ k - m + 1 = 2
        /\ m + 2 - 1 = n /\ 2 \in 1 .. k - m + 1
    <3> HIDE DEF n
    <3> QED BY <1>1
  <2>2. anchor # Error /\ anchor = [data |-> SubSeq(row, m, k)]
    <3> DEFINE at == -2  p == n - 2
    <3>1. at \in Int /\ p = Place(d, at) /\ p \in 0 .. DevSize(d) - 2 /\ 2 \in Nat \ {0}
      BY <2>a
    <3> HIDE DEF at, p
    <3>2. AlignedRead(d, at, 2) # Error /\ AlignedRead(d, at, 2) = [data |-> SubSeq(d.cells, p + 1, p + 2)]
      BY <1>1, <3>1, PlainRead
    <3>3. p + 1 = m /\ p + 2 = k
      BY <2>1 DEF p
    <3> QED BY <3>2, <3>3 DEF at
  <2>3. anchor.data = SubSeq(row, m, k)
    <3> HIDE DEF anchor, m, k, row
    <3> QED BY <2>2
  <2>4. row[n] = [pri |-> pri, sec |-> sec]
    BY <1>2, <1>4 DEF Holds, Marked, Anchored
  <2>5. FindOffsets(anchor.data) = [pri |-> pri, sec |-> sec]
    <3> HIDE DEF anchor, m, k, n, row
    <3>1. \A i \in 1 .. k - m + 1 : SubSeq(row, m, k)[i] = row[m + i - 1]
      BY <1>1, <2>1, PartOfRow
    <3>2. anchor.data[2] = row[n]
      <4>1. SubSeq(row, m, k)[2] = row[m + 2 - 1]
        BY <2>1, <3>1
      <4> QED BY <2>1, <2>3, <4>1
    <3> QED BY <2>4, <3>2 DEF FindOffsets
  <2>6. start = IF sec > pri THEN x ELSE y
    <3>1. start = RecordStart(d, FindOffsets(anchor.data))
      BY <1>4 DEF RecordPlace, AnchorSize
    <3>2. start = RecordStart(d, [pri |-> pri, sec |-> sec])
      BY <2>5, <3>1
    <3> QED BY <3>2 DEF RecordStart, Lba2byte
  <2>7. pri \in Nat /\ sec \in Nat /\ NoSecondary \in Nat /\ n < NoSecondary /\ x \in Nat /\ y \in Nat /\ (sec \in 0 .. n \/ sec = NoSecondary)
    <3>1. NoSecondary \in Nat /\ n < NoSecondary
      BY RaidAssumption DEF Holds, Marked
    <3>2. pri \in Nat /\ sec \in Nat /\ d.sector \in Nat
      BY <1>1, <3>1 DEF Holds, Marked, Lbas
    <3> QED BY <1>1, <3>1, <3>2 DEF Lbas
  <2>8. d.sector * Lesser(pri, sec) = IF sec > pri THEN x ELSE y
    BY <1>1, <2>7 DEF Lesser
  <2>9. start \in 0 .. n - 1
    <3> HIDE DEF x, y, n, start
    <3>1. sec = NoSecondary => sec > pri
      BY <1>1, <2>7
    <3>2. x < n - 2 /\ (sec = NoSecondary \/ y < n - 2)
      BY <1>2, <1>4
    <3> QED BY <1>1, <2>6, <2>7, <3>1, <3>2
  <2>10. Backup(d, type) = AlignedRead(d, start, n - start)
    <3> DEFINE tail == AlignedRead(d, start, n - start)  a == start + 1  b == start + (n - start)
    <3>1. Backup(d, type) = SaveDDF(d)
      BY <1>4 DEF Backup
    <3>2. SaveDDF(d) = SaveFrom(d, start)
      BY <1>4, <2>2, Zenon DEF SaveDDF, RecordPlace, AnchorSize, Failed
    <3>3. tail # Error /\ tail = [data |-> SubSeq(d.cells, a, b)]
      <4>1. start \in Int /\ n - start \in Nat \ {0} /\ Place(d, start) = start /\ start \in 0 .. n - (n - start)
        BY <1>1, <2>9 DEF Place
      <4> HIDE DEF start
      <4> DEFINE len == n - start
      <4>2. len \in Nat \ {0} /\ start \in 0 .. DevSize(d) - len /\ start = Place(d, start)
        BY <4>1
      <4> HIDE DEF len
      <4>3. AlignedRead(d, start, len) # Error /\ AlignedRead(d, start, len) = [data |-> SubSeq(d.cells, start + 1, start + len)]
        BY <1>1, <4>1, <4>2, PlainRead
      <4> QED BY <4>3 DEF len
    <3>4. Len(tail.data) = n - start
      <4>1. a \in Nat /\ b \in Nat /\ 1 <= a /\ a <= b + 1 /\ b <= Len(row) /\ b - a + 1 = n - start
        BY <1>1, <2>9
      <4>2. tail.data = SubSeq(row, a, b)
        BY <3>3
      <4> HIDE DEF tail, a, b, row
      <4>3. Len(SubSeq(row, a, b)) = b - a + 1
        BY <1>1, <4>1, PartOfRow
      <4> QED BY <4>1, <4>2, <4>3
    <3>5. SaveFrom(d, start) = IF tail = Error \/ Len(tail.data) < n - start THEN Error ELSE tail
      BY Zenon DEF SaveFrom, Failed
    <3>6. ~(Len(tail.data) < n - start)
      <4> HIDE DEF tail, start
      <4> QED BY <1>1, <2>9, <3>4
    <3> QED BY <3>1, <3>2, <3>3, <3>5, <3>6, Zenon
  <2>11. start = d.sector * Lesser(pri, sec) /\ type # "imsm"
    BY <1>4, <2>6, <2>8
  <2> HIDE DEF start
  <2>12. start = IF type = "imsm" THEN n - 4 ELSE d.sector * Lesser(pri, sec)
    BY <2>11
  <2> QED BY <2>9, <2>10, <2>12 DEF start, n
<1> QED BY <1>3, <1>4

(* Backup (device.go:232) of a disk whose metadata were found does not fail *)
(* and takes the record.                                                    *)
LEMMA RecordSaved ==
  ASSUME NEW d, NEW metadata, NEW pri, NEW sec, Holds(d, metadata, pri, sec),
         NEW type, type = DetectRaidType(d, 0), type \in {"imsm", "ddf"},
         NEW start, start = RecordPlace(d, type)
  PROVE  /\ Backup(d, type) # Error
         /\ Backup(d, type) = [data |-> SubSeq(d.cells, start + 1, DevSize(d))]
<1> DEFINE n == DevSize(d)  C == CellOf(pri, sec)
<1>1. n \in Nat /\ n >= 8 /\ d.cells \in Seq(C) /\ Plain(d) /\ start \in 0 .. n - 1
  BY RecordPlaced DEF Holds, Marked
<1>2. /\ start = IF type = "imsm" THEN n - 4 ELSE d.sector * Lesser(pri, sec)
      /\ Backup(d, type) = AlignedRead(d, start, n - start) \/ (Backup(d, type) = AlignedRead(d, -4, 4) /\ type = "imsm")
  BY RecordPlaced
<1>3. CASE Backup(d, type) = AlignedRead(d, start, n - start)
  <2> DEFINE len == n - start
  <2>1. len \in Nat \ {0} /\ start \in Int /\ start \in 0 .. DevSize(d) - len /\ start = Place(d, start) /\ start + len = n
    BY <1>1 DEF Place
  <2>2. Backup(d, type) = AlignedRead(d, start, len)
    BY <1>3
  <2> HIDE DEF len
  <2>3. AlignedRead(d, start, len) # Error /\ AlignedRead(d, start, len) = [data |-> SubSeq(d.cells, start + 1, start + len)]
    BY <1>1, <2>1, PlainRead
  <2> QED BY <2>1, <2>2, <2>3
<1>4. CASE Backup(d, type) = AlignedRead(d, -4, 4) /\ type = "imsm"
  <2>1. start = n - 4 /\ start + 4 = n
    BY <1>1, <1>2, <1>4
  <2>2. -4 \in Int /\ 4 \in Nat \ {0} /\ start = Place(d, -4) /\ start \in 0 .. DevSize(d) - 4
    BY <1>1, <2>1 DEF Place
  <2>3. AlignedRead(d, -4, 4) # Error /\ AlignedRead(d, -4, 4) = [data |-> SubSeq(d.cells, start + 1, start + 4)]
    BY <1>1, <2>2, PlainRead
  <2> QED BY <1>4, <2>1, <2>3
<1> QED BY <1>2, <1>3, <1>4

(* An erased disk has its size and its ways of transfer, and no data.       *)
LEMMA WipedDisk ==
  ASSUME NEW d, NEW metadata, NEW pri, NEW sec, Holds(d, metadata, pri, sec), NEW e, e = Wiped(d)
  PROVE  /\ e.cells = [i \in 1 .. DevSize(d) |-> "erased"] /\ e.cells \in Seq(CellOf(pri, sec))
         /\ DevSize(e) = DevSize(d) /\ Plain(e) /\ "cells" \in DOMAIN e /\ e.writeFails = d.writeFails
<1> DEFINE n == DevSize(d)  blank == [i \in 1 .. n |-> "erased"]
<1>1. n \in Nat /\ d.cells \in Seq(CellOf(pri, sec)) /\ Len(d.cells) = n /\ Plain(d) /\ "cells" \in DOMAIN d
  BY DEF Holds, Marked
<1>2. DOMAIN d.cells = 1 .. n
  BY <1>1
<1>3. e = [d EXCEPT !.cells = blank]
  BY <1>2, Zenon DEF Wiped
<1>4. e.cells = blank /\ e.required = d.required /\ e.alignment = d.alignment /\ e.writeFails = d.writeFails /\ "cells" \in DOMAIN e
  <2> HIDE DEF blank
  <2> QED BY <1>1, <1>3
<1>5. blank \in Seq(CellOf(pri, sec)) /\ Len(blank) = n
  <2> HIDE DEF n
  <2>1. "erased" \in CellOf(pri, sec)
    BY DEF CellOf
  <2> QED BY <1>1, <2>1
<1>6. DevSize(e) = n
  <2> HIDE DEF blank
  <2> QED BY <1>4, <1>5 DEF DevSize
<1> QED BY <1>1, <1>4, <1>5, <1>6 DEF Plain, Takes

\* The cells of a disk from a place on, all before them erased.
KeptFrom(d, start) == [i \in 1 .. DevSize(d) |-> IF i > start THEN d.cells[i] ELSE "erased"]

(* Restore (device.go:253) to the erased disk: the record is back and all   *)
(* else is erased, unless the write fails.                                  *)
LEMMA RecordBack ==
  ASSUME NEW d, NEW metadata, NEW pri, NEW sec, Holds(d, metadata, pri, sec), d.writeFails \in BOOLEAN,
         NEW type, type = DetectRaidType(d, 0), type \in {"imsm", "ddf"},
         NEW start, start = RecordPlace(d, type),
         NEW after, after = Restore(Wiped(d), type, Backup(d, type))
  PROVE  /\ d.writeFails = TRUE => after = Error
         /\ d.writeFails = FALSE => after.cells = KeptFrom(d, start)
<1> DEFINE n == DevSize(d)  row == d.cells  C == CellOf(pri, sec)  e == Wiped(d)  m == start + 1
           data == SubSeq(row, m, n)
<1>1. n \in Nat /\ row \in Seq(C) /\ Len(row) = n /\ start \in 0 .. n - 1
  BY RecordPlaced DEF Holds, Marked
<1>2. /\ e.cells = [i \in 1 .. n |-> "erased"] /\ e.cells \in Seq(C)
      /\ DevSize(e) = n /\ Plain(e) /\ "cells" \in DOMAIN e /\ e.writeFails = d.writeFails
  BY WipedDisk
<1>3. Backup(d, type) # Error /\ Backup(d, type) = [data |-> data]
  BY RecordSaved
<1>4. data \in Seq(C) /\ Len(data) = n - start
  <2>1. m \in Nat /\ 1 <= m /\ m <= n + 1 /\ n <= Len(row) /\ n - m + 1 = n - start
    BY <1>1
  <2> HIDE DEF m, n, row
  <2> QED BY <1>1, <2>1, PartOfRow
<1> HIDE DEF data, e
<1>5. data # << >> /\ Len(data) > 0 /\ Len(data) <= n
  BY <1>1, <1>4
<1>6. after = AlignedWrite(e, -Len(data), data)
  <2>1. [data |-> data].data = data /\ [data |-> data] # [data |-> << >>]
    BY <1>5
  <2> QED BY <1>3, <2>1, Zenon DEF Restore, Failed, e
<1>7. /\ d.writeFails = TRUE => after = Error
      /\ d.writeFails = FALSE => after # Error
  <2>1. e.cells \in Seq(C) /\ Plain(e) /\ "cells" \in DOMAIN e /\ data \in Seq(C) /\ Len(data) > 0 /\ Len(data) <= DevSize(e)
    BY <1>2, <1>4, <1>5
  <2> HIDE DEF n, C, row
  <2>2. /\ e.writeFails = TRUE => AlignedWrite(e, -Len(data), data) = Error
        /\ e.writeFails = FALSE => AlignedWrite(e, -Len(data), data) # Error
    BY <2>1, PlainWrite
  <2> QED BY <1>2, <1>6, <2>2, Zenon
<1>8. ASSUME d.writeFails = FALSE
      PROVE  after.cells = KeptFrom(d, start)
  <2>1. start \in Nat /\ DevSize(e) = DevSize(d) /\ Restore(e, type, Backup(d, type)) # Error
    BY <1>1, <1>2, <1>7, <1>8 DEF e
  <2>2. after = [e EXCEPT !.cells = [i \in 1 .. n |-> IF i > RecordPlace(d, type) THEN row[i] ELSE e.cells[i]]]
    <3> HIDE DEF C
    <3> QED BY <1>1, <1>2, <1>3, <2>1, RecordGoesBack DEF e
  <2>3. after.cells = [i \in 1 .. n |-> IF i > start THEN row[i] ELSE e.cells[i]]
    <3> DEFINE back == [i \in 1 .. n |-> IF i > start THEN row[i] ELSE e.cells[i]]
    <3>1. after = [e EXCEPT !.cells = back]
      BY <2>2, Zenon
    <3>2. "cells" \in DOMAIN e
      BY <1>2
    <3> HIDE DEF back
    <3>3. after.cells = back
      BY <3>1, <3>2
    <3> QED BY <3>3 DEF back
  <2>4. \A i \in 1 .. n : e.cells[i] = "erased"
    <3> HIDE DEF n
    <3> QED BY <1>2
  <2>5. after.cells = [i \in 1 .. n |-> IF i > start THEN row[i] ELSE "erased"]
    <3> HIDE DEF n, row
    <3> QED BY <2>3, <2>4
  <2> QED BY <2>5, Zenon DEF KeptFrom
<1> QED BY <1>7, <1>8

(* The same for the type that is found.                                     *)
LEMMA RecordIsBack ==
  ASSUME NEW d, NEW metadata, NEW pri, NEW sec, Holds(d, metadata, pri, sec), d.writeFails \in BOOLEAN,
         DetectRaidType(d, 0) \in {"imsm", "ddf"}
  PROVE  LET type  == DetectRaidType(d, 0)
             after == Restore(Wiped(d), type, Backup(d, type))
         IN /\ d.writeFails = TRUE => after = Error
            /\ d.writeFails = FALSE => after.cells = KeptFrom(d, RecordPlace(d, type))
<1> DEFINE type  == DetectRaidType(d, 0)
           start == RecordPlace(d, type)
           after == Restore(Wiped(d), type, Backup(d, type))
<1>1. type = DetectRaidType(d, 0) /\ type \in {"imsm", "ddf"}
  OBVIOUS
<1> HIDE DEF type
<1>2. start = RecordPlace(d, type) /\ after = Restore(Wiped(d), type, Backup(d, type))
  OBVIOUS
<1> HIDE DEF start, after
<1>3. /\ d.writeFails = TRUE => after = Error
      /\ d.writeFails = FALSE => after.cells = KeptFrom(d, start)
  BY <1>1, <1>2, RecordBack
<1> QED BY <1>3, Zenon DEF type, start, after

(* What is kept is the record: from the first header on for ddf             *)
(* (ddf.go:128), the last kilobyte for imsm.                                *)
LEMMA RecordOfDisk ==
  ASSUME NEW case, NEW d, d = case.disk, NEW metadata, metadata = case.metadata, NEW pri, pri = case.pri, NEW sec, sec = case.sec,
         Holds(d, metadata, pri, sec),
         NEW type, type = DetectRaidType(d, 0), type \in {"imsm", "ddf"}, NEW i \in 1 .. DevSize(d)
  PROVE  i \in RecordOf(case) <=> i > RecordPlace(d, type)
<1> DEFINE n == DevSize(d)  start == RecordPlace(d, type)
<1>1. n \in Nat /\ start \in 0 .. n - 1 /\ start = IF type = "imsm" THEN n - 4 ELSE d.sector * Lesser(pri, sec)
  <2>1. n \in Nat
    BY Zenon DEF Holds, Marked
  <2>2. start \in 0 .. n - 1 /\ start = IF type = "imsm" THEN n - 4 ELSE d.sector * Lesser(pri, sec)
    BY RecordPlaced, Zenon
  <2> QED BY <2>1, <2>2
<1>2. (type = "imsm" <=> metadata = "imsm") /\ (type = "ddf" => metadata = "ddf")
  BY Detected, Zenon
<1>3. /\ metadata = "imsm" => RecordOf(case) = n - 3 .. n
      /\ metadata = "ddf" => RecordOf(case) = d.sector * Min({pri, sec}) + 1 .. n
  <2> DEFINE first == case.disk.sector * Min({case.pri, case.sec}) + 1 .. DevSize(case.disk)
             end == DevSize(case.disk) - 3 .. DevSize(case.disk)
  <2>1. RecordOf(case) = CASE case.metadata = "imsm" -> end [] case.metadata = "ddf" -> first [] OTHER -> {}
    BY Zenon DEF RecordOf
  <2>2. first = d.sector * Min({pri, sec}) + 1 .. n /\ end = n - 3 .. n
    BY Zenon
  <2> HIDE DEF first, end
  <2>3. CASE metadata = "imsm"
    <3>1. RecordOf(case) = end
      BY <2>1, <2>3
    <3> QED BY <2>2, <2>3, <3>1
  <2>4. CASE metadata = "ddf"
    <3>1. RecordOf(case) = first
      BY <2>1, <2>4
    <3> QED BY <2>2, <2>4, <3>1
  <2> QED BY <2>3, <2>4
<1> HIDE DEF n, start
<1>4. CASE type = "imsm"
  <2>1. RecordOf(case) = n - 3 .. n
    BY <1>2, <1>3, <1>4
  <2> QED BY <1>1, <1>4, <2>1 DEF n, start
<1>5. CASE type = "ddf"
  <2>1. RecordOf(case) = d.sector * Min({pri, sec}) + 1 .. n
    BY <1>2, <1>3, <1>5
  <2>2. Min({pri, sec}) = Lesser(pri, sec)
    <3>1. pri \in 0 .. n /\ sec \in Lbas(n)
      BY Zenon DEF Holds, Marked, n
    <3>2. pri \in Int /\ sec \in Int
      BY <1>1, <3>1, RaidAssumption DEF Lbas
    <3> QED BY <3>2, MinIsLesser
  <2>3. RecordOf(case) = start + 1 .. n
    BY <1>1, <1>5, <2>1, <2>2
  <2> QED BY <1>1, <2>3 DEF n, start
<1> QED BY <1>4, <1>5

(* The disks with metadata that an erase comes across are such disks.       *)
LEMMA DiskHolds ==
  ASSUME NEW size \in DiskSizes, NEW metadata \in Kinds, NEW required \in Required, NEW sector \in Sectors, NEW writeFails \in BOOLEAN,
         NEW pri \in 0 .. size, NEW sec \in Lbas(size), size % required = 0, required <= MaxAlign, pri # sec,
         NEW d, d = Disk(DataDisk(size, metadata, sector, pri, sec), required, sector, 0, writeFails)
  PROVE  Holds(d, metadata, pri, sec) /\ DevSize(d) = size /\ d.writeFails = writeFails /\ d.sector = sector
<1> DEFINE row == DataDisk(size, metadata, sector, pri, sec)
<1>0. row = DataDisk(size, metadata, sector, pri, sec)
  OBVIOUS
<1> HIDE DEF row
<1>1. /\ size \in Nat /\ size % 2 = 0 /\ size >= 8 /\ size < NoSecondary
      /\ required \in {1, 2, 4, 8} /\ sector \in Nat \ {0}
  BY RaidAssumption DEF MinAlign, DetectSize, MaxAlign
<1>2. Marked(row, size, metadata, sector, pri, sec) /\ Len(row) = size
  <2>1. Marked(row, size, metadata, sector, pri, sec)
    BY <1>0, <1>1, DataDiskCells
  <2> QED BY <2>1, Zenon DEF Marked
<1>3. /\ d.cells = row /\ d.required = required /\ d.sector = sector /\ d.alignment = 0 /\ d.writeFails = writeFails
      /\ "cells" \in DOMAIN d
  BY DEF Disk, row
<1>4. DevSize(d) = size
  BY <1>2, <1>3 DEF DevSize
<1>5. Plain(d)
  BY <1>1, <1>3, <1>4 DEF Plain, Takes
<1>6. Holds(d, metadata, pri, sec)
  BY <1>1, <1>2, <1>3, <1>4, <1>5, Zenon DEF Holds
<1> QED BY <1>3, <1>4, <1>6

\* A disk with metadata that is erased.
IsRaidDisk(case) ==
  \E size \in DiskSizes, metadata \in Kinds, required \in Required, sector \in Sectors, writeFails \in BOOLEAN :
  \E pri \in 0 .. size, sec \in Lbas(size) :
    /\ size % required = 0 /\ required <= MaxAlign /\ pri # sec
    /\ case = [kind |-> "raid", metadata |-> metadata, pri |-> pri, sec |-> sec,
               disk |-> Disk(DataDisk(size, metadata, sector, pri, sec), required, sector, 0, writeFails)]

(* An erase leaves a disk its record and nothing else.                      *)
LEMMA DiskIsKept ==
  ASSUME NEW case, IsRaidDisk(case), NEW type, type = DetectRaidType(case.disk, 0),
         NEW saved, saved = Backup(case.disk, type)
  PROVE  RecordIsKept(case, type, saved, Restore(Wiped(case.disk), type, saved))
<1>a. PICK size \in DiskSizes, metadata \in Kinds, required \in Required, sector \in Sectors, writeFails \in BOOLEAN :
        \E pri \in 0 .. size, sec \in Lbas(size) :
          /\ size % required = 0 /\ required <= MaxAlign /\ pri # sec
          /\ case = [kind |-> "raid", metadata |-> metadata, pri |-> pri, sec |-> sec,
                     disk |-> Disk(DataDisk(size, metadata, sector, pri, sec), required, sector, 0, writeFails)]
  BY Zenon DEF IsRaidDisk
<1>b. PICK pri \in 0 .. size, sec \in Lbas(size) :
          /\ size % required = 0 /\ required <= MaxAlign /\ pri # sec
          /\ case = [kind |-> "raid", metadata |-> metadata, pri |-> pri, sec |-> sec,
                     disk |-> Disk(DataDisk(size, metadata, sector, pri, sec), required, sector, 0, writeFails)]
  BY <1>a
<1> DEFINE d == Disk(DataDisk(size, metadata, sector, pri, sec), required, sector, 0, writeFails)
           after == Restore(Wiped(d), type, saved)
           start == RecordPlace(d, type)
           n == DevSize(d)
<1> HIDE DEF d
<1>1. case.disk = d /\ case.metadata = metadata /\ case.pri = pri /\ case.sec = sec
  BY <1>b DEF d
<1>2. Holds(d, metadata, pri, sec) /\ n = size /\ d.writeFails = writeFails /\ d.sector = sector
  BY <1>b, DiskHolds DEF d
<1>3. type = DetectRaidType(d, 0) /\ saved = Backup(d, type)
  BY <1>1, Zenon
<1>4. /\ type \in {"imsm", "ddf", "unknown"} /\ (type = "imsm" <=> metadata = "imsm")
      /\ type = "ddf" <=> /\ metadata = "ddf" /\ sector % 2 = 0
                          /\ sector * pri < n - 2 /\ (sec = NoSecondary \/ sector * sec < n - 2)
  BY <1>2, <1>3, Detected
<1>5. type \in {"imsm", "ddf"} => type = metadata /\ ~Failed(saved)
  <2>1. type \in {"imsm", "ddf"} => saved # Error
    BY <1>2, <1>3, RecordSaved
  <2> QED BY <1>4, <2>1 DEF Failed
<1>6. metadata = "ddf" /\ type # "ddf" =>
        sector % MinAlign # 0 \/ \E lba \in {pri, sec} \ {NoSecondary} : sector * lba >= n - AnchorSize
  <2>1. SUFFICES ASSUME metadata = "ddf", type # "ddf", sector % 2 = 0
                 PROVE  \E lba \in {pri, sec} \ {NoSecondary} : sector * lba >= n - 2
    BY DEF MinAlign, AnchorSize
  <2>2. pri \in Nat /\ sec \in Nat /\ sector \in Nat /\ n \in Nat /\ pri # NoSecondary
    BY <1>2, <1>b, RaidAssumption DEF Lbas
  <2> DEFINE x == sector * pri  y == sector * sec
  <2>3. x \in Nat /\ y \in Nat
    BY <2>2
  <2>4. ~(x < n - 2) \/ (sec # NoSecondary /\ ~(y < n - 2))
    BY <1>4, <2>1
  <2>5. x >= n - 2 \/ (sec # NoSecondary /\ y >= n - 2)
    <3> HIDE DEF x, y, n
    <3> QED BY <2>2, <2>3, <2>4
  <2> QED BY <2>2, <2>5
<1>7. type \notin {"imsm", "ddf"} => after = Error
  <2>1. SUFFICES ASSUME type = "unknown" PROVE after = Error
    BY <1>4
  <2>2. saved = [data |-> << >>]
    BY <1>3, <2>1 DEF Backup
  <2> QED BY <2>2, Zenon DEF Restore
<1>8. ASSUME type \in {"imsm", "ddf"}
      PROVE  /\ writeFails = TRUE => after = Error
             /\ writeFails = FALSE => after.cells = KeptFrom(d, start)
  <2>1. d.writeFails \in BOOLEAN /\ after = Restore(Wiped(d), type, Backup(d, type))
    BY <1>2, <1>3
  <2> HIDE DEF after
  <2>2. /\ d.writeFails = TRUE => after = Error
        /\ d.writeFails = FALSE => after.cells = KeptFrom(d, start)
    <3> HIDE DEF n
    <3>1. type = DetectRaidType(d, 0) /\ DetectRaidType(d, 0) \in {"imsm", "ddf"} /\ d.writeFails \in BOOLEAN
      BY <1>3, <1>8, <2>1, Zenon
    <3>2. LET t == DetectRaidType(d, 0)
              a == Restore(Wiped(d), t, Backup(d, t))
          IN /\ d.writeFails = TRUE => a = Error
             /\ d.writeFails = FALSE => a.cells = KeptFrom(d, RecordPlace(d, t))
      BY <1>2, <3>1, RecordIsBack, Zenon
    <3> QED BY <2>1, <3>1, <3>2, Zenon DEF n
  <2> QED BY <1>2, <2>2
<1>9. ASSUME type \in {"imsm", "ddf"}, writeFails = FALSE
      PROVE  after.cells = [i \in DOMAIN d.cells |-> IF i \in RecordOf(case) THEN d.cells[i] ELSE "erased"]
  <2>1. DOMAIN d.cells = 1 .. n
    <3>1. n \in Nat /\ Len(d.cells) = n /\ d.cells \in Seq(CellOf(pri, sec))
      BY <1>2 DEF Holds, Marked
    <3> QED BY <3>1
  <2>2. \A i \in 1 .. n : i \in RecordOf(case) <=> i > start
    BY <1>1, <1>2, <1>3, <1>9, RecordOfDisk
  <2>3. after.cells = [i \in 1 .. n |-> IF i > start THEN d.cells[i] ELSE "erased"]
    BY <1>8, <1>9, Zenon DEF KeptFrom
  <2> HIDE DEF after, n, start
  <2> QED BY <2>1, <2>2, <2>3
<1>10. IF type \notin {"imsm", "ddf"} \/ writeFails THEN after = Error
       ELSE after.cells = [i \in DOMAIN d.cells |-> IF i \in RecordOf(case) THEN d.cells[i] ELSE "erased"]
  <2> HIDE DEF after
  <2> QED BY <1>7, <1>8, <1>9
<1> HIDE DEF after
<1>11. /\ type \in {"imsm", "ddf"} => type = case.metadata /\ ~Failed(saved)
       /\ case.metadata = "imsm" => type = "imsm"
       /\ case.metadata = "ddf" /\ type # "ddf" =>
            \/ case.disk.sector % MinAlign # 0
            \/ \E lba \in {case.pri, case.sec} \ {NoSecondary} : case.disk.sector * lba >= DevSize(case.disk) - AnchorSize
       /\ IF type \notin {"imsm", "ddf"} \/ case.disk.writeFails THEN after = Error
          ELSE after.cells = [i \in DOMAIN case.disk.cells |-> IF i \in RecordOf(case) THEN case.disk.cells[i] ELSE "erased"]
  <2>1. case.disk.sector = sector /\ case.disk.writeFails = writeFails /\ DevSize(case.disk) = n
    BY <1>1, <1>2, Zenon
  <2>2. type \in {"imsm", "ddf"} => type = case.metadata /\ ~Failed(saved)
    BY <1>1, <1>5, Zenon
  <2>3. case.metadata = "imsm" => type = "imsm"
    BY <1>1, <1>4
  <2>4. case.metadata = "ddf" /\ type # "ddf" =>
            \/ case.disk.sector % MinAlign # 0
            \/ \E lba \in {case.pri, case.sec} \ {NoSecondary} : case.disk.sector * lba >= DevSize(case.disk) - AnchorSize
    BY <1>1, <1>6, <2>1, Zenon
  <2>5. IF type \notin {"imsm", "ddf"} \/ case.disk.writeFails THEN after = Error
        ELSE after.cells = [i \in DOMAIN case.disk.cells |-> IF i \in RecordOf(case) THEN case.disk.cells[i] ELSE "erased"]
    BY <1>1, <1>10, <2>1, Zenon
  <2> QED BY <2>2, <2>3, <2>4, <2>5
<1>12. RecordIsKept(case, type, saved, after)
  BY <1>11, Zenon DEF RecordIsKept
<1> QED BY <1>1, <1>12, Zenon DEF after

-----------------------------------------------------------------------------
LookedAt(devices) == {d \in Device : d.name \notin {"loop", "recovery"} /\ d.type # "skipped" /\ d \in ToSet(devices)}

(* FindDevices (device.go:116) finds only disks that may be erased; the     *)
(* induction over its loop.                                                 *)
LEMMA DevicesFound ==
  ASSUME NEW devices \in Seq(Device)
  PROVE  FindDevices(devices) \in Seq(LookedAt(devices))
<1> DEFINE N == Len(devices)  G == LookedAt(devices)
<1>0. N \in Nat /\ << >> \in Seq(G)
  OBVIOUS
<1>1. PICK f : Keep!Rounds(f, << >>, devices) /\ FoldLeft(AddDevice, << >>, devices) = f[N]
  BY Keep!FoldsByRounds DEF Keep!FoldLeft, FoldLeft, Keep!Max, Max, Keep!MapThenFoldSet, MapThenFoldSet
<1>2. f[0] = << >> /\ \A n \in 1 .. N : f[n] = AddDevice(f[n - 1], devices[n])
  BY <1>1 DEF Keep!Rounds
<1> DEFINE K == {n \in Nat : n <= N => f[n] \in Seq(G)}
<1>3. 0 \in K
  <2> HIDE DEF G, N
  <2> QED BY <1>0, <1>2
<1>4. ASSUME NEW n \in K PROVE n + 1 \in K
  <2>1. SUFFICES ASSUME n + 1 <= N PROVE f[n + 1] \in Seq(G)
    <3> HIDE DEF G, N
    <3> QED OBVIOUS
  <2> DEFINE d == devices[n + 1]  found == f[n]
  <2>2. n \in Nat /\ found \in Seq(G) /\ n + 1 \in 1 .. N /\ (n + 1) - 1 = n
    <3> HIDE DEF G, N
    <3> QED BY <1>0, <2>1
  <2>3. f[n + 1] = AddDevice(found, d)
    BY <1>2, <2>2
  <2>4. d \in Device /\ d \in ToSet(devices)
    BY <2>2 DEF ToSet
  <2>5. d.name \notin {"loop", "recovery"} /\ d.type # "skipped" => d \in G
    BY <2>4 DEF LookedAt
  <2> HIDE DEF d, found, G
  <2> QED BY <2>2, <2>3, <2>5 DEF AddDevice
<1>5. K = Nat
  <2>1. K \in SUBSET Nat
    OBVIOUS
  <2> HIDE DEF K
  <2> QED BY <1>3, <1>4, <2>1, Keep!Induct
<1> QED BY <1>0, <1>1, <1>5 DEF FindDevices

(* sizeMatch (device.go:280) takes a disk to match itself.                  *)
LEMMA SameSizeMatches ==
  ASSUME NEW a, a.size \in Nat
  PROVE  SizeMatch(a, a)
<1> DEFINE x == a.size
<1>1. x \in Nat
  OBVIOUS
<1> HIDE DEF x
<1>2. Max({x, x}) = x
  <2>1. Max({x, x}) = CHOOSE m \in {x, x} : \A k \in {x, x} : m >= k
    BY DEF Max
  <2>2. x \in {x, x} /\ (\A k \in {x, x} : x >= k) /\ \A m \in {x, x} : m = x
    BY <1>1
  <2> QED BY <2>1, <2>2
<1>3. Min({x, x}) = x
  <2>1. Min({x, x}) = CHOOSE m \in {x, x} : \A k \in {x, x} : m <= k
    BY DEF Min
  <2>2. x \in {x, x} /\ (\A k \in {x, x} : x <= k) /\ \A m \in {x, x} : m = x
    BY <1>1
  <2> QED BY <2>1, <2>2
<1>4. x * 100 <= x * 105
  BY <1>1
<1> QED BY <1>2, <1>3, <1>4, Zenon DEF SizeMatch, x

DataOf(found) == {i \in 1 .. Len(found) : found[i].type # "unset"}
Alike(found) == \A i, j \in DataOf(found) : found[i].type = found[j].type /\ SizeMatch(found[i], found[j])

\* What the first n disks have been put into.
Grouped(found, arrays, n) ==
  LET taken == UNION ToSet(arrays)
  IN /\ arrays \in Seq(SUBSET (1 .. Len(found))) /\ taken \subseteq DataOf(found)
     /\ \A i \in 1 .. n : i \in DataOf(found) => i \in taken
     /\ \A a \in ToSet(arrays) : \A i, j \in a : found[i].type = found[j].type
     /\ Alike(found) => IF \E i \in 1 .. n : i \in DataOf(found) THEN arrays = <<DataOf(found)>> ELSE arrays = << >>

(* One more array in a list of arrays.                                      *)
LEMMA OneMore ==
  ASSUME NEW S, NEW s \in Seq(S), NEW x \in S
  PROVE  /\ Append(s, x) \in Seq(S) /\ ToSet(Append(s, x)) = ToSet(s) \cup {x}
         /\ UNION ToSet(Append(s, x)) = (UNION ToSet(s)) \cup x
<1> DEFINE t == Append(s, x)
<1>1. t \in Seq(S) /\ Len(t) = Len(s) + 1 /\ Len(s) \in Nat /\ t[Len(s) + 1] = x /\ \A i \in 1 .. Len(s) : t[i] = s[i]
  OBVIOUS
<1> HIDE DEF t
<1>2. ToSet(t) = ToSet(s) \cup {x}
  <2>1. DOMAIN t = 1 .. Len(s) + 1 /\ DOMAIN s = 1 .. Len(s)
    BY <1>1
  <2>2. ASSUME NEW y \in ToSet(t) PROVE y \in ToSet(s) \cup {x}
    BY <1>1, <2>1 DEF ToSet
  <2>3. ASSUME NEW y \in ToSet(s) PROVE y \in ToSet(t)
    BY <1>1, <2>1 DEF ToSet
  <2>4. x \in ToSet(t)
    BY <1>1, <2>1 DEF ToSet
  <2> QED BY <2>2, <2>3, <2>4
<1>3. UNION ToSet(t) = (UNION ToSet(s)) \cup x
  BY <1>2
<1> QED BY <1>1, <1>2, <1>3 DEF t

(* One round of the loop of FindArrays (array.go:26) keeps what Grouped     *)
(* says: each data disk so far is in an array, arrays are of one type, and  *)
(* disks that are alike are in one.                                         *)
LEMMA OneGrouped ==
  ASSUME NEW found \in Seq(Device), NEW arrays, NEW n \in Nat, n + 1 <= Len(found), Grouped(found, arrays, n),
         NEW r, r = AddArray([devices |-> found, arrays |-> arrays], n + 1)
  PROVE  r = [devices |-> found, arrays |-> r.arrays] /\ Grouped(found, r.arrays, n + 1)
<1> DEFINE N == Len(found)  i == n + 1  data == DataOf(found)
           taken == UNION ToSet(arrays)
           before == [devices |-> found, arrays |-> arrays]
           new == {j \in i .. N : j \notin taken /\ found[j].type = found[i].type /\ SizeMatch(found[i], found[j])}
<1>1. N \in Nat /\ i \in 1 .. N /\ (\A j \in 1 .. N : found[j] \in Device) /\ 1 .. i = (1 .. n) \cup {i}
  OBVIOUS
<1>2. /\ arrays \in Seq(SUBSET (1 .. N)) /\ taken \subseteq data /\ (\A j \in 1 .. n : j \in data => j \in taken)
      /\ \A a \in ToSet(arrays) : \A k, j \in a : found[k].type = found[j].type
      /\ Alike(found) => IF \E k \in 1 .. n : k \in data THEN arrays = <<data>> ELSE arrays = << >>
  BY Zenon DEF Grouped
<1>3. r = IF i \in taken \/ found[i].type = "unset" THEN before ELSE [devices |-> found, arrays |-> Append(arrays, new)]
  <2> DEFINE news == {j \in i .. Len(before.devices) : /\ j \notin UNION ToSet(before.arrays)
                                                       /\ before.devices[j].type = before.devices[i].type
                                                       /\ SizeMatch(before.devices[i], before.devices[j])}
  <2>1. before.devices = found /\ before.arrays = arrays
    OBVIOUS
  <2>2. r = IF i \in UNION ToSet(before.arrays) \/ before.devices[i].type = "unset" THEN before
            ELSE [before EXCEPT !.arrays = Append(before.arrays, news)]
    BY Zenon DEF AddArray
  <2>3. news = new
    BY <2>1, Zenon
  <2> HIDE DEF news, new
  <2>4. [before EXCEPT !.arrays = Append(arrays, new)] = [devices |-> found, arrays |-> Append(arrays, new)]
    <3> DEFINE all == Append(arrays, new)
    <3> HIDE DEF all
    <3>1. [before EXCEPT !.arrays = all] = [devices |-> found, arrays |-> all]
      OBVIOUS
    <3> QED BY <3>1, Zenon DEF all
  <2> HIDE DEF before
  <2> QED BY <2>1, <2>2, <2>3, <2>4, Zenon
<1>4. data = {j \in 1 .. N : found[j].type # "unset"}
  BY DEF DataOf
<1> HIDE DEF data, taken, new, N, i
<1>5. CASE i \in taken \/ found[i].type = "unset"
  <2>1. r = before /\ r.arrays = arrays
    BY <1>3, <1>5
  <2>2. i \in data => i \in taken
    BY <1>4, <1>5
  <2>3. \A j \in 1 .. i : j \in data => j \in taken
    BY <1>1, <1>2, <2>2
  <2>4. Alike(found) => IF \E k \in 1 .. i : k \in data THEN arrays = <<data>> ELSE arrays = << >>
    <3>1. CASE \E k \in 1 .. n : k \in data
      BY <1>1, <1>2, <3>1
    <3>2. CASE ~\E k \in 1 .. n : k \in data
      <4>1. ASSUME Alike(found) PROVE i \notin data
        <5>1. arrays = << >>
          BY <1>2, <3>2, <4>1
        <5>2. taken = {}
          BY <5>1 DEF taken, ToSet
        <5> QED BY <2>2, <5>2
      <4> QED BY <1>1, <1>2, <3>2, <4>1
    <3> QED BY <3>1, <3>2
  <2>5. Grouped(found, arrays, i)
    BY <1>2, <2>3, <2>4, Zenon DEF Grouped, N, data, taken
  <2> QED BY <2>1, <2>5 DEF i
<1>6. CASE ~(i \in taken \/ found[i].type = "unset")
  <2> DEFINE all == Append(arrays, new)
  <2>1. r = [devices |-> found, arrays |-> all] /\ r.arrays = all
    <3>1. r = [devices |-> found, arrays |-> all]
      BY <1>3, <1>6, Zenon
    <3> HIDE DEF all
    <3> QED BY <3>1
  <2>2. i \in data /\ i \notin taken
    BY <1>1, <1>4, <1>6
  <2>3. new \in SUBSET (1 .. N) /\ new \subseteq data /\ i \in new
    <3>1. SizeMatch(found[i], found[i])
      <4>1. found[i].size \in Nat
        BY <1>1 DEF Device
      <4> QED BY <4>1, SameSizeMatches
    <3> QED BY <1>1, <1>4, <1>6, <3>1 DEF new
  <2>4. /\ all \in Seq(SUBSET (1 .. N)) /\ ToSet(all) = ToSet(arrays) \cup {new}
        /\ UNION ToSet(all) = taken \cup new
    <3> DEFINE S == SUBSET (1 .. N)
    <3>1. arrays \in Seq(S) /\ new \in S
      BY <1>2, <2>3
    <3> HIDE DEF S, all
    <3>2. /\ Append(arrays, new) \in Seq(S) /\ ToSet(Append(arrays, new)) = ToSet(arrays) \cup {new}
          /\ UNION ToSet(Append(arrays, new)) = (UNION ToSet(arrays)) \cup new
      BY <3>1, OneMore
    <3> QED BY <3>2, Zenon DEF S, all, taken
  <2>5. \A a \in ToSet(all) : \A k, j \in a : found[k].type = found[j].type
    <3>1. \A k, j \in new : found[k].type = found[j].type
      BY DEF new
    <3> HIDE DEF all
    <3> QED BY <1>2, <2>4, <3>1
  <2>6. \A j \in 1 .. i : j \in data => j \in taken \cup new
    BY <1>1, <1>2, <2>3
  <2>7. ASSUME Alike(found) PROVE all = <<data>>
    <3>1. ~\E k \in 1 .. n : k \in data
      <4>1. SUFFICES ASSUME NEW k \in 1 .. n, k \in data PROVE FALSE
        OBVIOUS
      <4>2. arrays = <<data>>
        BY <1>2, <2>7, <4>1
      <4>3. taken = data
        BY <4>2 DEF taken, ToSet
      <4> QED BY <2>2, <4>3
    <3>2. arrays = << >>
      BY <1>2, <2>7, <3>1
    <3>3. taken = {}
      BY <3>2 DEF taken, ToSet
    <3>4. \A j \in data : j \in i .. N /\ found[j].type = found[i].type /\ SizeMatch(found[i], found[j])
      <4>1. \A j \in data : found[j].type = found[i].type /\ SizeMatch(found[i], found[j])
        BY <2>2, <2>7 DEF Alike, data
      <4>2. \A j \in data : j \in 1 .. N /\ j \notin 1 .. n
        BY <1>4, <3>1
      <4> QED BY <1>1, <4>1, <4>2 DEF i
    <3>5. new = data
      BY <2>3, <3>3, <3>4 DEF new
    <3> QED BY <3>2, <3>5
  <2> HIDE DEF all
  <2>8. \E k \in 1 .. i : k \in data
    BY <1>1, <2>2
  <2>9. UNION ToSet(all) \subseteq data /\ \A j \in 1 .. i : j \in data => j \in UNION ToSet(all)
    BY <1>2, <2>3, <2>4, <2>6
  <2>10. Alike(found) => IF \E k \in 1 .. i : k \in data THEN all = <<data>> ELSE all = << >>
    BY <2>7, <2>8
  <2>11. Grouped(found, all, i)
    BY <2>4, <2>5, <2>9, <2>10, Zenon DEF Grouped, N, data
  <2> QED BY <2>1, <2>11 DEF i, all
<1> QED BY <1>5, <1>6

(* So it holds of all of them; the induction over the loop.                 *)
LEMMA AllGrouped ==
  ASSUME NEW found \in Seq(Device)
  PROVE  Grouped(found, FindArrays(found), Len(found))
<1> DEFINE N == Len(found)  places == [i \in 1 .. N |-> i]  base == [devices |-> found, arrays |-> << >>]
<1>0. N \in Nat /\ places \in Seq(Nat) /\ Len(places) = N /\ \A n \in 1 .. N : places[n] = n
  OBVIOUS
<1> HIDE DEF places, base
<1>1. PICK f : Group!Rounds(f, base, places) /\ FoldLeft(AddArray, base, places) = f[Len(places)]
  BY <1>0, Group!FoldsByRounds DEF Group!FoldLeft, FoldLeft, Group!Max, Max, Group!MapThenFoldSet, MapThenFoldSet
<1>2. f[0] = base /\ \A n \in 1 .. N : f[n] = AddArray(f[n - 1], n)
  BY <1>0, <1>1 DEF Group!Rounds
<1> DEFINE Inv(n) == f[n] = [devices |-> found, arrays |-> f[n].arrays] /\ Grouped(found, f[n].arrays, n)
           K == {n \in Nat : n <= N => Inv(n)}
<1>3. 0 \in K
  <2>1. f[0] = [devices |-> found, arrays |-> << >>] /\ f[0].arrays = << >>
    BY <1>2 DEF base
  <2>2. Grouped(found, << >>, 0)
    BY DEF Grouped, ToSet
  <2>3. Inv(0)
    BY <2>1, <2>2
  <2> HIDE DEF Inv
  <2> QED BY <2>3
<1>4. ASSUME NEW n \in K PROVE n + 1 \in K
  <2>1. SUFFICES ASSUME n + 1 <= N PROVE Inv(n + 1)
    <3> HIDE DEF Inv
    <3> QED BY <1>0
  <2>2. n \in Nat /\ Inv(n) /\ n + 1 \in 1 .. N /\ (n + 1) - 1 = n
    <3> HIDE DEF Inv
    <3> QED BY <1>0, <2>1
  <2> DEFINE arrays == f[n].arrays
  <2>3. f[n + 1] = AddArray(f[n], n + 1)
    BY <1>2, <2>2
  <2>4. f[n + 1] = AddArray([devices |-> found, arrays |-> arrays], n + 1) /\ Grouped(found, arrays, n)
    BY <2>2, <2>3, Zenon
  <2> HIDE DEF arrays
  <2>5. n + 1 <= Len(found) /\ n \in Nat
    BY <2>1, <2>2
  <2> DEFINE r == f[n + 1]
  <2>6. r = AddArray([devices |-> found, arrays |-> arrays], n + 1)
    BY <2>4
  <2> HIDE DEF r
  <2>7. r = [devices |-> found, arrays |-> r.arrays] /\ Grouped(found, r.arrays, n + 1)
    BY <2>4, <2>5, <2>6, OneGrouped
  <2> QED BY <2>7 DEF r
<1>5. K = Nat
  <2>1. K \in SUBSET Nat
    OBVIOUS
  <2> HIDE DEF K
  <2> QED BY <1>3, <1>4, <2>1, Group!Induct
<1>6. Inv(N)
  <2> HIDE DEF Inv
  <2> QED BY <1>0, <1>5
<1>7. FindArrays(found) = f[N].arrays
  BY <1>0, <1>1 DEF FindArrays, base, places
<1> QED BY <1>6, <1>7

(* The erase goes on (erase.go:120) exactly with one array of all data      *)
(* disks.                                                                   *)
LEMMA ArraysAreWhole ==
  ASSUME NEW devices \in Seq(Device), NEW dataDisks \in Nat \ {0}
  PROVE  ArrayIsWhole(devices, dataDisks)
<1> DEFINE found == FindDevices(devices)  arrays == FindArrays(found)  data == DataOf(found)
<1>1. found \in Seq(LookedAt(devices)) /\ found \in Seq(Device)
  <2>1. LookedAt(devices) \subseteq Device
    BY DEF LookedAt
  <2> QED BY <2>1, DevicesFound
<1> HIDE DEF found
<1>2. Grouped(found, arrays, Len(found))
  BY <1>1, AllGrouped
<1> HIDE DEF arrays
<1>3. /\ arrays \in Seq(SUBSET (1 .. Len(found))) /\ UNION ToSet(arrays) \subseteq data
      /\ \A i \in 1 .. Len(found) : i \in data => i \in UNION ToSet(arrays)
      /\ \A a \in ToSet(arrays) : \A i, j \in a : found[i].type = found[j].type
      /\ Alike(found) => IF \E i \in 1 .. Len(found) : i \in data THEN arrays = <<data>> ELSE arrays = << >>
  BY <1>2, Zenon DEF Grouped
<1>4. data = {i \in 1 .. Len(found) : found[i].type # "unset"}
  BY DEF DataOf
<1>5. UNION ToSet(arrays) = data
  BY <1>3, <1>4
<1>6. \A d \in ToSet(found) : d.name \notin {"loop", "recovery"} /\ d.type # "skipped" /\ d \in ToSet(devices)
  <2>1. \A d \in ToSet(found) : d \in LookedAt(devices)
    BY <1>1 DEF ToSet
  <2> QED BY <2>1 DEF LookedAt
<1> HIDE DEF data
<1>7. OneArray(found, dataDisks) <=> Len(arrays) = 1 /\ Cardinality(arrays[1]) = dataDisks
  BY DEF OneArray, arrays
<1>8. ASSUME Len(arrays) = 1, Cardinality(arrays[1]) = dataDisks
      PROVE  Cardinality(data) = dataDisks /\ \A i, j \in data : found[i].type = found[j].type
  <2>1. DOMAIN arrays = {1}
    BY <1>3, <1>8
  <2>2. ToSet(arrays) = {arrays[1]}
    BY <2>1 DEF ToSet
  <2>3. data = arrays[1]
    BY <1>5, <2>2
  <2> QED BY <1>3, <1>8, <2>2, <2>3
<1>9. ASSUME Cardinality(data) = dataDisks, Alike(found)
      PROVE  Len(arrays) = 1 /\ Cardinality(arrays[1]) = dataDisks
  <2>1. data # {}
    BY <1>9, FS_EmptySet
  <2>2. \E i \in 1 .. Len(found) : i \in data
    BY <1>4, <2>1
  <2>3. arrays = <<data>>
    BY <1>3, <1>9, <2>2
  <2> QED BY <1>9, <2>3
<1>10. Alike(found) <=> \A i, j \in data : found[i].type = found[j].type /\ SizeMatch(found[i], found[j])
  BY Zenon DEF Alike, data
<1>11. /\ UNION ToSet(arrays) = data
       /\ \A d \in ToSet(found) : d.name \notin {"loop", "recovery"} /\ d.type # "skipped" /\ d \in ToSet(devices)
       /\ OneArray(found, dataDisks) =>
            Cardinality(data) = dataDisks /\ \A i, j \in data : found[i].type = found[j].type
       /\ /\ Cardinality(data) = dataDisks
          /\ \A i, j \in data : found[i].type = found[j].type /\ SizeMatch(found[i], found[j])
          => OneArray(found, dataDisks)
  BY <1>5, <1>6, <1>7, <1>8, <1>9, <1>10, Zenon
<1> QED BY <1>11, Zenon DEF ArrayIsWhole, found, arrays, data, DataOf

-----------------------------------------------------------------------------
\* What the first n devices have been counted to: one entry for each kind.
Counted == [kind : STRING \ {Unreadable}, qty : Nat]
CountedUpTo(list, devs, n) ==
  /\ list \in Seq(Counted)
  /\ \A i, j \in 1 .. Len(list) : list[i].kind = list[j].kind => i = j
  /\ \A i \in 1 .. Len(list) : list[i].qty = TimesUpTo(devs, n, list[i].kind)
  /\ \A k \in STRING \ {Unreadable} : (\A i \in 1 .. Len(list) : list[i].kind # k) => TimesUpTo(devs, n, k) = 0

(* One round of Populate (devices.go:256).                                  *)
LEMMA OneCounted ==
  ASSUME NEW devs \in Seq(STRING), NEW list, NEW n \in Nat, n + 1 <= Len(devs), CountedUpTo(list, devs, n)
  PROVE  CountedUpTo(TakeDevice(list, devs[n + 1]), devs, n + 1)
<1> DEFINE m == n + 1  k == devs[m]  next == TakeDevice(list, k)  N == Len(list)
           at == {i \in 1 .. N : list[i].kind = k}
<1> SUFFICES CountedUpTo(next, devs, m)
  OBVIOUS
<1>1. /\ list \in Seq(Counted) /\ N \in Nat
      /\ \A i, j \in 1 .. N : list[i].kind = list[j].kind => i = j
      /\ \A i \in 1 .. N : list[i].qty = TimesUpTo(devs, n, list[i].kind)
      /\ \A c \in STRING \ {Unreadable} : (\A i \in 1 .. N : list[i].kind # c) => TimesUpTo(devs, n, c) = 0
  BY DEF CountedUpTo
<1>2. m \in 1 .. Len(devs) /\ m - 1 = n /\ n \in 0 .. Len(devs) /\ k \in STRING
  <2>1. Len(devs) \in Nat
    OBVIOUS
  <2> QED BY <2>1
<1>3. \A i \in 1 .. N : list[i] \in Counted /\ list[i].kind \in STRING \ {Unreadable} /\ list[i].qty \in Nat
  <2>1. \A i \in 1 .. N : list[i] \in Counted
    BY <1>1
  <2>2. \A e \in Counted : e.kind \in STRING \ {Unreadable} /\ e.qty \in Nat
    BY DEF Counted
  <2> HIDE DEF N
  <2> QED BY <2>1, <2>2
<1>4. ASSUME NEW c
      PROVE  /\ TimesUpTo(devs, n, c) \in Nat
             /\ TimesUpTo(devs, m, c) = IF k = c THEN TimesUpTo(devs, n, c) + 1 ELSE TimesUpTo(devs, n, c)
  <2>1. Grows(devs, c)
    BY TimesGrow
  <2> HIDE DEF m
  <2> QED BY <1>2, <2>1 DEF Grows
<1> HIDE DEF m
<1>5. CASE k = Unreadable
  <2>1. next = list
    BY <1>5 DEF TakeDevice
  <2>2. \A c \in STRING \ {Unreadable} : TimesUpTo(devs, m, c) = TimesUpTo(devs, n, c)
    BY <1>4, <1>5
  <2> HIDE DEF next, k
  <2> QED BY <1>1, <1>3, <2>1, <2>2 DEF CountedUpTo
<1>6. CASE k # Unreadable /\ at = {}
  <2> DEFINE new == [kind |-> k, qty |-> 1]
  <2>1. next = Append(list, new)
    <3> HIDE DEF N
    <3> QED BY <1>6 DEF TakeDevice, CountIn, Indices, N
  <2>2. new \in Counted /\ new.kind = k /\ new.qty = 1
    BY <1>2, <1>6 DEF Counted
  <2> HIDE DEF new
  <2>3. /\ next \in Seq(Counted) /\ Len(next) = N + 1 /\ next[N + 1] = new
        /\ \A i \in 1 .. N : next[i] = list[i]
    BY <1>1, <2>1, <2>2
  <2>4. \A i \in 1 .. N : list[i].kind # k
    BY <1>6
  <2>5. TimesUpTo(devs, m, k) = 1
    <3>1. TimesUpTo(devs, n, k) = 0
      BY <1>1, <1>2, <1>6, <2>4
    <3> QED BY <1>4, <3>1
  <2> HIDE DEF next, k, N, at
  <2>6. \A i \in 1 .. N + 1 : i \in 1 .. N \/ i = N + 1
    BY <1>1
  <2>7. \A i, j \in 1 .. N + 1 : next[i].kind = next[j].kind => i = j
    BY <1>1, <2>2, <2>3, <2>4, <2>6
  <2>8. \A i \in 1 .. N + 1 : next[i].qty = TimesUpTo(devs, m, next[i].kind)
    <3> SUFFICES ASSUME NEW i \in 1 .. N + 1 PROVE next[i].qty = TimesUpTo(devs, m, next[i].kind)
      OBVIOUS
    <3>1. CASE i \in 1 .. N
      <4>1. next[i] = list[i] /\ list[i].kind # k /\ list[i].qty = TimesUpTo(devs, n, list[i].kind)
        BY <1>1, <2>3, <2>4, <3>1
      <4>2. TimesUpTo(devs, m, list[i].kind) = TimesUpTo(devs, n, list[i].kind)
        BY <1>4, <4>1
      <4> QED BY <4>1, <4>2
    <3>2. CASE i = N + 1
      BY <2>2, <2>3, <2>5, <3>2
    <3> QED BY <2>6, <3>1, <3>2
  <2>9. \A c \in STRING \ {Unreadable} : (\A i \in 1 .. N + 1 : next[i].kind # c) => TimesUpTo(devs, m, c) = 0
    <3> SUFFICES ASSUME NEW c \in STRING \ {Unreadable}, \A i \in 1 .. N + 1 : next[i].kind # c
                 PROVE  TimesUpTo(devs, m, c) = 0
      OBVIOUS
    <3>1. c # k /\ \A i \in 1 .. N : list[i].kind # c
      BY <1>1, <2>2, <2>3
    <3> QED BY <1>1, <1>4, <3>1
  <2> QED BY <2>3, <2>7, <2>8, <2>9, Zenon DEF CountedUpTo
<1>7. CASE k # Unreadable /\ at # {}
  <2> DEFINE a == Min(at)
  <2>1. a \in 1 .. N /\ list[a].kind = k
    <3>1. at \in SUBSET (1 .. N)
      OBVIOUS
    <3>2. Min(at) \in at
      <4> HIDE DEF at, N
      <4> QED BY <1>1, <1>7, <3>1, FirstOf
    <3> QED BY <3>2
  <2>2. next = [list EXCEPT ![a].qty = list[a].qty + 1]
    <3> HIDE DEF N
    <3> QED BY <1>7 DEF TakeDevice, CountIn, Indices, N
  <2> HIDE DEF a
  <2>3. /\ next \in Seq(Counted) /\ Len(next) = N /\ next[a].kind = k /\ next[a].qty = list[a].qty + 1
        /\ \A i \in 1 .. N : i # a => next[i] = list[i]
    <3> DEFINE e == [list[a] EXCEPT !.qty = list[a].qty + 1]
    <3>1. next = [list EXCEPT ![a] = e]
      BY <2>2
    <3>2. list[a] \in Counted /\ list[a].qty \in Nat
      BY <1>3, <2>1
    <3>3. e \in Counted /\ e.kind = list[a].kind /\ e.qty = list[a].qty + 1
      <4> HIDE DEF k
      <4> QED BY <3>2 DEF Counted
    <3> HIDE DEF next, k, e
    <3> QED BY <1>1, <2>1, <3>1, <3>3
  <2>4. \A i \in 1 .. N : next[i].kind = list[i].kind
    BY <2>1, <2>3
  <2>5. \A i \in 1 .. N : list[i].kind = k => i = a
    BY <1>1, <2>1
  <2> HIDE DEF next, k, N, at
  <2>6. \A i \in 1 .. N : next[i].qty = TimesUpTo(devs, m, next[i].kind)
    <3> SUFFICES ASSUME NEW i \in 1 .. N PROVE next[i].qty = TimesUpTo(devs, m, next[i].kind)
      OBVIOUS
    <3>1. CASE i = a
      <4>1. list[a].qty = TimesUpTo(devs, n, k)
        BY <1>1, <2>1
      <4>2. TimesUpTo(devs, m, k) = TimesUpTo(devs, n, k) + 1
        BY <1>4
      <4> QED BY <2>3, <3>1, <4>1, <4>2
    <3>2. CASE i # a
      <4>1. next[i] = list[i] /\ list[i].kind # k /\ list[i].qty = TimesUpTo(devs, n, list[i].kind)
        BY <1>1, <2>3, <2>5, <3>2
      <4>2. TimesUpTo(devs, m, list[i].kind) = TimesUpTo(devs, n, list[i].kind)
        BY <1>4, <4>1
      <4> QED BY <4>1, <4>2
    <3> QED BY <3>1, <3>2
  <2>7. \A i, j \in 1 .. N : next[i].kind = next[j].kind => i = j
    BY <1>1, <2>4
  <2>8. \A c \in STRING \ {Unreadable} : (\A i \in 1 .. N : next[i].kind # c) => TimesUpTo(devs, m, c) = 0
    <3> SUFFICES ASSUME NEW c \in STRING \ {Unreadable}, \A i \in 1 .. N : next[i].kind # c
                 PROVE  TimesUpTo(devs, m, c) = 0
      OBVIOUS
    <3>1. c # k /\ \A i \in 1 .. N : list[i].kind # c
      BY <2>1, <2>3, <2>4
    <3> QED BY <1>1, <1>4, <3>1
  <2> QED BY <2>3, <2>6, <2>7, <2>8, Zenon DEF CountedUpTo
<1> QED BY <1>5, <1>6, <1>7

(* So Populate counts each kind; the induction over its loop.               *)
LEMMA AllCounted ==
  ASSUME NEW devs \in Seq(STRING)
  PROVE  CountedUpTo(Populate(devs), devs, Len(devs))
<1> DEFINE N == Len(devs)
<1>0. N \in Nat
  OBVIOUS
<1>1. PICK f : Count!Rounds(f, << >>, devs) /\ FoldLeft(TakeDevice, << >>, devs) = f[Len(devs)]
  BY Count!FoldsByRounds DEF Count!FoldLeft, FoldLeft, Count!Max, Max, Count!MapThenFoldSet, MapThenFoldSet
<1>2. f[0] = << >> /\ \A n \in 1 .. N : f[n] = TakeDevice(f[n - 1], devs[n])
  BY <1>1 DEF Count!Rounds
<1> DEFINE K == {n \in Nat : n <= N => CountedUpTo(f[n], devs, n)}
<1>3. 0 \in K
  <2>1. CountedUpTo(<< >>, devs, 0)
    <3>1. \A c : TimesUpTo(devs, 0, c) = 0
      BY TimesGrow DEF Grows
    <3>2. << >> \in Seq(Counted) /\ Len(<< >>) = 0 /\ 1 .. 0 = {}
      OBVIOUS
    <3> QED BY <3>1, <3>2 DEF CountedUpTo
  <2> QED BY <1>2, <2>1
<1>4. ASSUME NEW n \in K PROVE n + 1 \in K
  <2> HIDE DEF N
  <2>1. SUFFICES ASSUME n + 1 <= N PROVE CountedUpTo(f[n + 1], devs, n + 1)
    OBVIOUS
  <2>2. n \in Nat /\ CountedUpTo(f[n], devs, n) /\ n + 1 \in 1 .. N /\ (n + 1) - 1 = n
    BY <1>0, <2>1
  <2>3. f[n + 1] = TakeDevice(f[n], devs[n + 1])
    BY <1>2, <2>2
  <2> QED BY <2>1, <2>2, <2>3, OneCounted DEF N
<1>5. K = Nat
  <2>1. K \in SUBSET Nat
    OBVIOUS
  <2> HIDE DEF K
  <2> QED BY <1>3, <1>4, <2>1, Loop!Induct
<1>6. CountedUpTo(f[N], devs, N)
  <2> HIDE DEF N
  <2> QED BY <1>0, <1>5
<1> QED BY <1>1, <1>6 DEF Populate

(* A unit passes the comparison of its bus devices (bdcompare,              *)
(* devices.go:311) exactly if it has each as often as it is to.             *)
LEMMA DevicesCompared ==
  ASSUME NEW devs \in Seq(STRING), NEW required \in Seq(BusDevice)
  PROVE  DevicesAreJudged(required, devs)
<1> DEFINE list == Populate(devs)  M == Len(required)
           wrong == {i \in 1 .. M : DeviceWrong(required[i], list)}
<1>1. CompareDevices(required, list) = 0 <=> wrong = {}
  <2>1. IsFiniteSet(wrong) /\ CompareDevices(required, list) = Cardinality(wrong)
    <3>1. IsFiniteSet(1 .. M) /\ wrong \in SUBSET (1 .. M)
      BY FS_Interval
    <3>2. CompareDevices(required, list) = Cardinality(wrong)
      BY Zenon DEF CompareDevices, Indices
    <3> HIDE DEF wrong
    <3> QED BY <3>1, <3>2, FS_Subset
  <2> HIDE DEF wrong, list
  <2> QED BY <2>1, FS_EmptySet
<1>2. ASSUME NEW i \in 1 .. M
      PROVE  ~DeviceWrong(required[i], list) <=> Times(devs, required[i].kind) = required[i].qty
  <2> DEFINE c == required[i].kind  q == required[i].qty  at == {j \in 1 .. Len(list) : list[j].kind = c}
             t == Times(devs, c)
  <2>1. c \in STRING \ {Unreadable} /\ q \in Nat
    <3>1. required[i] \in BusDevice
      OBVIOUS
    <3>2. \A e \in BusDevice : e.kind \in STRING \ {Unreadable} /\ e.qty \in Nat
      BY DEF BusDevice
    <3> QED BY <3>1, <3>2
  <2>2. t = TimesUpTo(devs, Len(devs), c)
    BY TimesGrow DEF Grows
  <2>3. /\ list \in Seq(Counted) /\ Len(list) \in Nat
        /\ \A j \in 1 .. Len(list) : list[j].qty = TimesUpTo(devs, Len(devs), list[j].kind)
        /\ (\A j \in 1 .. Len(list) : list[j].kind # c) => TimesUpTo(devs, Len(devs), c) = 0
    <3>1. CountedUpTo(list, devs, Len(devs))
      BY AllCounted
    <3> HIDE DEF list, c
    <3> QED BY <2>1, <3>1 DEF CountedUpTo
  <2>4. DeviceWrong(required[i], list) <=> (IF at = {} THEN q # 0 ELSE list[Min(at)].qty # q)
    BY Zenon DEF DeviceWrong, Indices
  <2>5. CASE at = {}
    <3>1. t = 0
      BY <2>2, <2>3, <2>5
    <3> HIDE DEF at, list
    <3> QED BY <2>4, <2>5, <3>1
  <2>6. CASE at # {}
    <3> DEFINE a == Min(at)
    <3>1. at \in SUBSET (1 .. Len(list))
      OBVIOUS
    <3>2. a \in at
      <4> HIDE DEF at, list
      <4> QED BY <2>3, <2>6, <3>1, FirstOf
    <3>3. list[a].qty = t
      <4> HIDE DEF a, list
      <4> QED BY <2>2, <2>3, <3>2
    <3> HIDE DEF a, list, t, q, at
    <3> QED BY <2>4, <2>6, <3>3 DEF a, t, q
  <2> HIDE DEF list, at
  <2> QED BY <2>5, <2>6
<1>3. wrong = {} <=> \A i \in 1 .. M : Times(devs, required[i].kind) = required[i].qty
  <2>1. wrong = {} <=> \A i \in 1 .. M : ~DeviceWrong(required[i], list)
    OBVIOUS
  <2> HIDE DEF wrong, list, M
  <2> QED BY <1>2, <2>1
<1> HIDE DEF wrong
<1> QED BY <1>1, <1>3, Zenon DEF DevicesAreJudged, list, M

-----------------------------------------------------------------------------
(* getKBuild (misc.go:157) reads a number, and none from a file that a      *)
(* failed copy has left.                                                    *)
LEMMA BuildsRead ==
  ASSUME NEW image \in KernelFile, NEW recovery \in KernelFile, NEW fault
  PROVE  /\ GetKBuild(image) \in Nat
         /\ GetKBuild(image) # NoBuild => CopyFile(image, recovery, fault) \in {image, recovery, Missing, Emptied}
         /\ GetKBuild(image) # NoBuild /\ fault = "none" => CopyFile(image, recovery, fault) = image
         /\ GetKBuild(Missing) = NoBuild /\ GetKBuild(Emptied) = NoBuild
<1>1. GetKBuild(image) \in Nat
  BY DEF KernelFile, GetKBuild, KBuildNum, NoBuild
<1>2. GetKBuild(image) # NoBuild => image.exists
  BY DEF GetKBuild
<1>3. GetKBuild(Missing) = NoBuild /\ GetKBuild(Emptied) = NoBuild
  <2>1. Emptied.exists = TRUE /\ Emptied.kernel = FALSE
    BY DEF Emptied, Missing
  <2> QED BY <2>1 DEF GetKBuild, KBuildNum, Missing, NoBuild
<1> QED BY <1>1, <1>2, <1>3 DEF CopyFile

(* The greater of two builds.                                               *)
LEMMA GreaterBuild ==
  ASSUME NEW a \in Nat, NEW b \in Nat
  PROVE  /\ Max({a}) = a
         /\ a >= b => Max({a, b}) = a /\ Max({b, a}) = a
<1> DEFINE Greatest(s, x) == x \in s /\ \A y \in s : x >= y
<1>1. ASSUME NEW s \in {{a}, {a, b}, {b, a}}, a >= b \/ s = {a} PROVE Max(s) = a
  <2>1. Max(s) = CHOOSE x \in s : \A y \in s : x >= y
    BY DEF Max
  <2>2. a \in s /\ \A y \in s : a >= y
    BY <1>1
  <2>3. \A x \in s : (\A y \in s : x >= y) => x = a
    BY <1>1, <2>2
  <2> QED BY <2>1, <2>2, <2>3
<1> QED BY <1>1

(* The builds that can be read of two files.                                *)
LEMMA TwoBuilds ==
  ASSUME NEW f, NEW g
  PROVE  ReadableBuilds({f, g}) = {GetKBuild(f), GetKBuild(g)} \ {NoBuild}
BY DEF ReadableBuilds

(* useLatestKernel (misc.go:106) leaves a readable kernel if there was one, *)
(* whatever fails, and otherwise the newest on both volumes.                *)
LEMMA KernelsAreNewest ==
  ASSUME NEW image \in KernelFile, NEW recovery \in KernelFile, NEW fault
  PROVE  NewestIsLeft(image, recovery, UseLatestKernel(image, recovery, FALSE, fault), fault)
<1> DEFINE i == GetKBuild(image)  r == GetKBuild(recovery)
           after == UseLatestKernel(image, recovery, FALSE, fault)
           before == {i, r} \ {NoBuild}
           left == {GetKBuild(after.image), GetKBuild(after.recovery)} \ {NoBuild}
<1>1. i \in Nat /\ r \in Nat /\ NoBuild = 0
  BY BuildsRead DEF NoBuild
<1>2. CASE i # NoBuild /\ (r = NoBuild \/ i > r)
  <2>1. CompareKernelVersions(image, recovery) = "image"
    BY <1>1, <1>2 DEF CompareKernelVersions
  <2>2. after.image = image /\ after.recovery = CopyFile(image, recovery, fault)
    BY <2>1 DEF UseLatestKernel
  <2>3. i \in left /\ (fault = "none" => left = {i})
    <3>1. fault = "none" => after.recovery = image
      BY <2>2, <1>2, BuildsRead
    <3> HIDE DEF after
    <3> QED BY <1>2, <2>2, <3>1
  <2>4. Max(before) = i
    <3>1. before \in {{i}, {i, r}}
      BY <1>2
    <3> HIDE DEF i, r, before
    <3>2. Max({i}) = i /\ Max({i, r}) = i
      BY <1>1, <1>2, GreaterBuild
    <3> QED BY <3>1, <3>2
  <2>5. i \in left /\ left # {} /\ (fault = "none" => left = {Max(before)})
    <3> HIDE DEF left, before, i
    <3> QED BY <2>3, <2>4
  <2> QED BY <2>5, TwoBuilds, Zenon DEF NewestIsLeft, before, left, after
<1>3. CASE r # NoBuild /\ (i = NoBuild \/ r > i)
  <2>1. CompareKernelVersions(image, recovery) = "recovery"
    BY <1>1, <1>3 DEF CompareKernelVersions
  <2>2. after.image = CopyFile(recovery, image, fault) /\ after.recovery = recovery
    BY <2>1 DEF UseLatestKernel
  <2>3. r \in left /\ (fault = "none" => left = {r})
    <3>1. fault = "none" => after.image = recovery
      BY <2>2, <1>3, BuildsRead
    <3> HIDE DEF after
    <3> QED BY <1>3, <2>2, <3>1
  <2>4. Max(before) = r
    <3>1. before \in {{r}, {i, r}}
      BY <1>3
    <3> HIDE DEF i, r, before
    <3>2. Max({r}) = r /\ Max({i, r}) = r
      BY <1>1, <1>3, GreaterBuild
    <3> QED BY <3>1, <3>2
  <2>5. left # {} /\ (fault = "none" => left = {Max(before)})
    <3> HIDE DEF left, before, r
    <3> QED BY <2>3, <2>4
  <2> QED BY <2>5, TwoBuilds, Zenon DEF NewestIsLeft, before, left, after
<1>4. CASE i = r /\ i # NoBuild
  <2>1. CompareKernelVersions(image, recovery) = "same"
    BY <1>4 DEF CompareKernelVersions
  <2>2. after.image = image /\ after.recovery = recovery
    BY <2>1 DEF UseLatestKernel
  <2>3. left = {i} /\ before = {i}
    <3> HIDE DEF after
    <3> QED BY <1>4, <2>2
  <2>4. left # {} /\ (fault = "none" => left = {Max(before)})
    <3> HIDE DEF left, before, i
    <3> QED BY <1>1, <2>3, GreaterBuild
  <2> QED BY <2>4, TwoBuilds, Zenon DEF NewestIsLeft, before, left, after
<1>5. CASE before = {}
  BY <1>5, TwoBuilds, Zenon DEF NewestIsLeft, before
<1>6. before = {} \/ (i = r /\ i # NoBuild) \/ (r # NoBuild /\ (i = NoBuild \/ r > i)) \/ (i # NoBuild /\ (r = NoBuild \/ i > r))
  <2> HIDE DEF i, r
  <2> QED BY <1>1
<1> QED BY <1>2, <1>3, <1>4, <1>5, <1>6

\* What is known of an image that has been checked, of memory and buffer.
CheckedIs(images, i, fault, low, checked) ==
  /\ checked.ok \in BOOLEAN /\ checked.state.low \in BOOLEAN
  /\ low => checked.state.low
  /\ checked.ok => images[i].sha256 /\ images[i].sound /\ (checked.state.low \/ checked.state.buf = i)
  /\ images[i].sha256 /\ images[i].sound /\ (low \/ fault = "none") => checked.ok

\* What a check gives, with what it leaves of memory and buffer.
Result(ok, state) == [ok |-> ok, state |-> state]

(* The fields of these records.                                             *)
LEMMA ResultFields ==
  ASSUME NEW ok, NEW state
  PROVE  Result(ok, state).ok = ok /\ Result(ok, state).state = state
BY DEF Result

(* What is in memory after a file was written or removed.                   *)
LEMMA MemoryFields ==
  ASSUME NEW state, NEW image, NEW buf
  PROVE  /\ Written(state, buf).low = state.low /\ (~state.low => Written(state, buf).buf = buf)
         /\ RemoveBuf(image, state).low = (state.low \/ RunsOut(image, state))
BY DEF Written, RemoveBuf

(* validateExtractUpd (ar.go:38) accepts good images only, whether there is *)
(* enough memory or not, and leaves in the buffer what will be extracted.   *)
LEMMA ImageIsChecked ==
  ASSUME NEW images, NEW i, NEW state, state.low \in BOOLEAN, NEW fault, images[i] \in Image
  PROVE  CheckedIs(images, i, fault, state.low, ValidateExtractUpd(images, i, state, fault))
<1> DEFINE image == images[i]  low == state.low
           checked == ValidateExtractUpd(images, i, state, fault)
           failed == Written(state, Truncated)  removed == RemoveBuf(image, state)  written == Written(state, i)
<1> SUFFICES CheckedIs(images, i, fault, low, checked)
  OBVIOUS
<1>1. image.sha256 \in BOOLEAN /\ image.sound \in BOOLEAN /\ image.fits \in BOOLEAN
  BY DEF Image
<1>2. CanBuffer(state, fault) \in BOOLEAN /\ RunsOut(image, state) \in BOOLEAN
      /\ (low \/ fault = "none" => CanBuffer(state, fault))
  BY DEF CanBuffer, RunsOut
<1>3. checked = IF ~CanBuffer(state, fault) THEN Result(FALSE, state)
                ELSE IF ~image.sha256 THEN Result(FALSE, failed)
                ELSE IF ~image.sound THEN Result(FALSE, removed)
                ELSE IF RunsOut(image, state) THEN Result(TRUE, removed)
                ELSE Result(TRUE, written)
  BY Zenon DEF ValidateExtractUpd, Result
<1>4. /\ failed.low = low /\ written.low = low /\ (low \/ written.buf = i)
      /\ removed.low = (low \/ RunsOut(image, state))
  BY MemoryFields, Zenon
<1> HIDE DEF failed, removed, written, checked, low
<1>7. CASE ~CanBuffer(state, fault)
  <2>1. checked = Result(FALSE, state)
    BY <1>3, <1>7, Zenon
  <2>2. checked.ok = FALSE /\ checked.state = state
    BY <2>1, ResultFields, Zenon
  <2> QED BY <1>2, <1>7, <2>2, Zenon DEF CheckedIs, low
<1>8. CASE CanBuffer(state, fault) /\ ~image.sha256
  <2>1. checked = Result(FALSE, failed)
    BY <1>3, <1>8, Zenon
  <2>2. checked.ok = FALSE /\ checked.state = failed
    BY <2>1, ResultFields, Zenon
  <2> QED BY <1>4, <1>8, <2>2, Zenon DEF CheckedIs, low
<1>9. CASE CanBuffer(state, fault) /\ image.sha256 /\ ~image.sound
  <2>1. checked = Result(FALSE, removed)
    BY <1>3, <1>9, Zenon
  <2>2. checked.ok = FALSE /\ checked.state = removed
    BY <2>1, ResultFields, Zenon
  <2>3. removed.low \in BOOLEAN /\ (low => removed.low)
    BY <1>4, Zenon
  <2> QED BY <1>9, <2>2, <2>3, Zenon DEF CheckedIs
<1>10. CASE CanBuffer(state, fault) /\ image.sha256 /\ image.sound /\ RunsOut(image, state)
  <2>1. checked = Result(TRUE, removed)
    BY <1>3, <1>10, Zenon
  <2>2. checked.ok = TRUE /\ checked.state = removed
    BY <2>1, ResultFields, Zenon
  <2>3. removed.low = TRUE
    BY <1>4, <1>10, Zenon
  <2> QED BY <1>10, <2>2, <2>3, Zenon DEF CheckedIs
<1>11. CASE CanBuffer(state, fault) /\ image.sha256 /\ image.sound /\ ~RunsOut(image, state)
  <2>1. checked = Result(TRUE, written)
    BY <1>3, <1>11, Zenon
  <2>2. checked.ok = TRUE /\ checked.state = written
    BY <2>1, ResultFields, Zenon
  <2> QED BY <1>4, <1>11, <2>2, Zenon DEF CheckedIs, low
<1> QED BY <1>7, <1>8, <1>9, <1>10, <1>11, Zenon

\* What the first n images have come to.
TriedUpTo(found, images, fault, low, n) ==
  /\ found.images = images /\ found.fault = fault /\ found.state.low \in BOOLEAN
  /\ low => found.state.low
  /\ found.chosen = 0 \/ (/\ found.chosen \in 1 .. n /\ IsGood(images, found.chosen)
                          /\ found.state.low \/ found.state.buf = found.chosen)
  /\ low \/ fault = "none" => \A i \in 1 .. n : IsGood(images, i) => found.chosen # 0 /\ found.chosen <= i

(* One round of the loop of findValidUpd (ar.go:327).                       *)
LEMMA OneTried ==
  ASSUME NEW images \in Seq(Image), NEW fault, NEW low \in BOOLEAN, NEW found, NEW n \in Nat, n + 1 <= Len(images),
         TriedUpTo(found, images, fault, low, n)
  PROVE  TriedUpTo(TryUpd(found, n + 1), images, fault, low, n + 1)
<1> DEFINE i == n + 1  L == found.state.low  c == found.chosen
           checked == ValidateExtractUpd(images, i, found.state, fault)
           next == TryUpd(found, i)
<1> SUFFICES TriedUpTo(next, images, fault, low, i)
  OBVIOUS
<1>1. /\ found.images = images /\ found.fault = fault /\ L \in BOOLEAN /\ (low => L)
      /\ c = 0 \/ (c \in 1 .. n /\ IsGood(images, c) /\ (L \/ found.state.buf = c))
      /\ low \/ fault = "none" => \A k \in 1 .. n : IsGood(images, k) => c # 0 /\ c <= k
  BY Zenon DEF TriedUpTo
<1>2. i \in 1 .. Len(images) /\ i \in Nat /\ i # 0 /\ images[i] \in Image /\ \A k \in 1 .. i : k = i \/ k \in 1 .. n
  <2>1. Len(images) \in Nat
    OBVIOUS
  <2> QED BY <2>1
<1>3. CASE c # 0 \/ (~images[i].history /\ i # Len(images))
  <2>1. next = found
    <3> HIDE DEF i, c
    <3> QED BY <1>1, <1>3, Zenon DEF TryUpd, next, c
  <2>2. c = 0 => ~IsGood(images, i)
    BY <1>3 DEF IsGood
  <2>3. c = 0 \/ (c \in 1 .. i /\ IsGood(images, c) /\ (L \/ found.state.buf = c))
    BY <1>1
  <2>4. low \/ fault = "none" => \A k \in 1 .. i : IsGood(images, k) => c # 0 /\ c <= k
    <3> SUFFICES ASSUME low \/ fault = "none", NEW k \in 1 .. i, IsGood(images, k) PROVE c # 0 /\ c <= k
      OBVIOUS
    <3>1. CASE k = i
      BY <2>2, <2>3, <3>1
    <3>2. CASE k \in 1 .. n
      BY <1>1, <3>2
    <3> QED BY <1>2, <3>1, <3>2
  <2> HIDE DEF next, i
  <2> QED BY <1>1, <2>1, <2>3, <2>4, Zenon DEF TriedUpTo
<1>4. CASE c = 0 /\ (images[i].history \/ i = Len(images))
  <2> DEFINE chosen == IF checked.ok THEN i ELSE 0
  <2>1. CheckedIs(images, i, fault, L, checked)
    <3> HIDE DEF i
    <3> QED BY <1>1, <1>2, ImageIsChecked
  <2>2. next = [images |-> images, fault |-> fault, chosen |-> chosen, state |-> checked.state]
    <3> HIDE DEF i
    <3> QED BY <1>1, <1>4, Zenon DEF TryUpd, next, checked, chosen
  <2>3. checked.ok => IsGood(images, i)
    <3> HIDE DEF i, checked, L
    <3> QED BY <1>4, <2>1, Zenon DEF CheckedIs, IsGood
  <2>4. low \/ fault = "none" => (IsGood(images, i) => checked.ok)
    <3> HIDE DEF i, checked
    <3> QED BY <1>1, <2>1, Zenon DEF CheckedIs, IsGood
  <2>5. low \/ fault = "none" => \A k \in 1 .. i : IsGood(images, k) => chosen # 0 /\ chosen <= k
    <3> SUFFICES ASSUME low \/ fault = "none", NEW k \in 1 .. i, IsGood(images, k) PROVE chosen # 0 /\ chosen <= k
      OBVIOUS
    <3>1. k = i
      BY <1>1, <1>2, <1>4
    <3>2. checked.ok
      BY <2>4, <3>1
    <3> HIDE DEF checked
    <3> QED BY <1>2, <3>1, <3>2
  <2>6. checked.ok \in BOOLEAN /\ checked.state.low \in BOOLEAN /\ (low => checked.state.low)
        /\ (checked.ok => checked.state.low \/ checked.state.buf = i)
    <3> HIDE DEF checked, i
    <3> QED BY <1>1, <2>1, Zenon DEF CheckedIs
  <2>7. next.images = images /\ next.fault = fault /\ next.chosen = chosen /\ next.state = checked.state
    <3> HIDE DEF checked, chosen, next
    <3> QED BY <2>2
  <2>8. i \in 1 .. i
    BY <1>2
  <2>9. chosen = 0 \/ (chosen \in 1 .. i /\ IsGood(images, chosen) /\ (checked.state.low \/ checked.state.buf = chosen))
    <3> HIDE DEF checked, i
    <3> QED BY <2>3, <2>6, <2>8, Zenon DEF chosen
  <2> HIDE DEF next, checked, chosen, i
  <2> QED BY <2>5, <2>6, <2>7, <2>9, Zenon DEF TriedUpTo
<1> QED BY <1>3, <1>4

(* findValidUpd (ar.go:327) takes the first good image, for lists of images *)
(* of any length; the induction over its loop.                              *)
LEMMA FirstGoodIsTaken ==
  ASSUME NEW images \in Seq(Image), NEW low \in BOOLEAN, NEW fault
  PROVE  FirstGoodTaken(images, low, fault)
<1> DEFINE N == Len(images)
           base == [images |-> images, fault |-> fault, chosen |-> 0, state |-> [low |-> low, buf |-> 0]]
           places == [i \in 1 .. N |-> i]
           found == FindValidUpd(images, [low |-> low, buf |-> 0], fault)
           good == {i \in 1 .. N : IsGood(images, i)}
<1>0. N \in Nat /\ places \in Seq(Nat) /\ Len(places) = N /\ \A n \in 1 .. N : places[n] = n
  OBVIOUS
<1> HIDE DEF places, base
<1>1. PICK f : Try!Rounds(f, base, places) /\ FoldLeft(TryUpd, base, places) = f[Len(places)]
  BY <1>0, Try!FoldsByRounds DEF Try!FoldLeft, FoldLeft, Try!Max, Max, Try!MapThenFoldSet, MapThenFoldSet
<1>2. f[0] = base /\ \A n \in 1 .. N : f[n] = TryUpd(f[n - 1], n)
  BY <1>0, <1>1 DEF Try!Rounds
<1> DEFINE K == {n \in Nat : n <= N => TriedUpTo(f[n], images, fault, low, n)}
<1>3. 0 \in K
  <2>1. TriedUpTo(base, images, fault, low, 0)
    BY DEF TriedUpTo, base
  <2> HIDE DEF N
  <2> QED BY <1>2, <2>1
<1>4. ASSUME NEW n \in K PROVE n + 1 \in K
  <2>1. SUFFICES ASSUME n + 1 <= N PROVE TriedUpTo(f[n + 1], images, fault, low, n + 1)
    <3> HIDE DEF N
    <3> QED OBVIOUS
  <2>2. n \in Nat /\ TriedUpTo(f[n], images, fault, low, n) /\ n + 1 \in 1 .. N /\ (n + 1) - 1 = n
    <3> HIDE DEF N
    <3> QED BY <1>0, <2>1
  <2>3. f[n + 1] = TryUpd(f[n], n + 1)
    <3> HIDE DEF N
    <3> QED BY <1>2, <2>2
  <2> QED BY <2>1, <2>2, <2>3, OneTried
<1>5. K = Nat
  <2>1. K \in SUBSET Nat
    OBVIOUS
  <2> HIDE DEF K
  <2> QED BY <1>3, <1>4, <2>1, Loop!Induct
<1>6. found = f[N] /\ TriedUpTo(f[N], images, fault, low, N)
  <2>1. found = FoldLeft(TryUpd, base, places)
    BY Zenon DEF FindValidUpd, base, places
  <2> HIDE DEF N, found
  <2> QED BY <1>0, <1>1, <1>5, <2>1
<1> HIDE DEF found, N
<1>7. /\ found.chosen = 0 \/ (/\ found.chosen \in 1 .. N /\ IsGood(images, found.chosen)
                              /\ found.state.low \/ found.state.buf = found.chosen)
      /\ low \/ fault = "none" => \A i \in 1 .. N : IsGood(images, i) => found.chosen # 0 /\ found.chosen <= i
  BY <1>6, Zenon DEF TriedUpTo
<1>8. found.chosen # 0 => found.chosen \in good /\ ApplyUpd(found) = found.chosen
  BY <1>7 DEF ApplyUpd
<1>9. good # {} /\ (low \/ fault = "none") => found.chosen = Min(good)
  <2> SUFFICES ASSUME good # {}, low \/ fault = "none" PROVE found.chosen = Min(good)
    OBVIOUS
  <2> DEFINE c == found.chosen  m == Min(good)
  <2>1. good \in SUBSET (1 .. N) /\ \A i \in good : i \in Nat
    BY <1>0
  <2>2. c \in good /\ \A i \in good : c <= i
    BY <1>7
  <2> HIDE DEF good
  <2>3. m \in good /\ \A i \in good : m <= i
    BY <1>0, <2>1, FirstOf
  <2> HIDE DEF c, m
  <2>4. c = m
    BY <2>1, <2>2, <2>3
  <2> QED BY <2>4 DEF c, m
<1> QED BY <1>8, <1>9, Zenon DEF FirstGoodTaken, found, good, N

(* One more at the end of a list, and one less at its beginning.            *)
LEMMA TimesAtEnds ==
  ASSUME NEW C, NEW list \in Seq(C), NEW x \in C, NEW c
  PROVE  /\ Times(Append(list, x), c) = IF x = c THEN Times(list, c) + 1 ELSE Times(list, c)
         /\ list # << >> => Times(Tail(list), c) = IF list[1] = c THEN Times(list, c) - 1 ELSE Times(list, c)
<1> DEFINE longer == Append(list, x)  n == Len(list) + 1
<1>1. longer \in Seq(C) /\ n \in 1 .. Len(longer) /\ longer[n] = x
  OBVIOUS
<1>2. RemoveAt(longer, n) = list
  <2>1. /\ RemoveAt(longer, n) \in Seq(C) /\ Len(RemoveAt(longer, n)) = Len(list)
        /\ \A i \in 1 .. Len(list) : RemoveAt(longer, n)[i] = longer[IF i < n THEN i ELSE i + 1]
    <3>1. Len(longer) - 1 = Len(list)
      OBVIOUS
    <3> HIDE DEF longer, n
    <3> QED BY <1>1, <3>1, LeftOver
  <2>2. \A i \in 1 .. Len(list) : RemoveAt(longer, n)[i] = list[i]
    <3>1. \A i \in 1 .. Len(list) : i < n /\ longer[i] = list[i]
      OBVIOUS
    <3> HIDE DEF longer, n
    <3> QED BY <2>1, <3>1
  <2> HIDE DEF longer, n
  <2> QED BY <2>1, <2>2
<1>3. \A d : Times(list, d) = IF d = x THEN Times(longer, d) - 1 ELSE Times(longer, d)
  <2> HIDE DEF longer, n
  <2> QED BY <1>1, <1>2, OneTaken
<1>4. Times(longer, c) \in Nat /\ Times(list, c) \in Nat
  <2> HIDE DEF longer
  <2> QED BY <1>1, TimesType
<1>5. ASSUME list # << >> PROVE Times(Tail(list), c) = IF list[1] = c THEN Times(list, c) - 1 ELSE Times(list, c)
  <2>1. 1 \in 1 .. Len(list)
    BY <1>5
  <2>2. RemoveAt(list, 1) = Tail(list)
    <3>1. /\ RemoveAt(list, 1) \in Seq(C) /\ Len(RemoveAt(list, 1)) = Len(list) - 1
          /\ \A i \in 1 .. Len(list) - 1 : RemoveAt(list, 1)[i] = list[IF i < 1 THEN i ELSE i + 1]
      BY <2>1, LeftOver
    <3>2. /\ Tail(list) \in Seq(C) /\ Len(Tail(list)) = Len(list) - 1
          /\ \A i \in 1 .. Len(list) - 1 : Tail(list)[i] = list[i + 1]
      BY <1>5
    <3>3. \A i \in 1 .. Len(list) - 1 : RemoveAt(list, 1)[i] = Tail(list)[i]
      BY <3>1, <3>2
    <3> DEFINE r == RemoveAt(list, 1)  t == Tail(list)
    <3> HIDE DEF r, t
    <3>4. r = t
      BY <3>1, <3>2, <3>3 DEF r, t
    <3> QED BY <3>4 DEF r, t
  <2>3. \A d : Times(RemoveAt(list, 1), d) = IF d = list[1] THEN Times(list, d) - 1 ELSE Times(list, d)
    BY <2>1, OneTaken
  <2> QED BY <2>2, <2>3
<1> HIDE DEF longer
<1>6. Times(longer, c) = IF x = c THEN Times(list, c) + 1 ELSE Times(list, c)
  BY <1>3, <1>4
<1> QED BY <1>5, <1>6 DEF longer

(* What is known of the distance of sizes.                                  *)
LEMMA DistanceFacts ==
  ASSUME NEW a \in Nat, NEW b \in Nat
  PROVE  Distance(a, b) \in Nat /\ Distance(a, b) = Distance(b, a) /\ (a <= b => Distance(b, a) = b - a)
BY DEF Distance

(* A disk that is at least as close as one near enough (disk.go:119) is     *)
(* near enough.                                                             *)
LEMMA CloserIsNear ==
  ASSUME NEW a \in Nat, NEW b \in Nat, NEW size \in Nat, NEW tol \in Nat,
         Distance(a, size) <= Distance(b, size), SizeToleranceMatch(b, size, tol)
  PROVE  SizeToleranceMatch(a, size, tol)
<1> DEFINE bound == (size * tol) \div 100
<1>1. size * tol \in Nat
  OBVIOUS
<1>2. bound \in Int
  BY <1>1
<1>3. Distance(size, b) <= bound
  BY Zenon DEF SizeToleranceMatch
<1> HIDE DEF bound
<1>4. Distance(size, a) <= bound
  BY <1>2, <1>3, DistanceFacts
<1> QED BY <1>4, Zenon DEF SizeToleranceMatch, bound

(* A tolerance grows no faster than the size it is of.                      *)
LEMMA ToleranceGrows ==
  ASSUME NEW x \in Nat, NEW y \in Nat, x <= y, NEW tol \in 0 .. 100
  PROVE  (y * tol) \div 100 - (x * tol) \div 100 <= y - x
<1>1. PICK d \in Nat : y = x + d
  <2>1. y - x \in Nat /\ y = x + (y - x)
    OBVIOUS
  <2> QED BY <2>1
<1>2. d * tol <= d * 100
  <2>1. 100 - tol \in Nat
    OBVIOUS
  <2>2. d * (100 - tol) >= 0
    BY <2>1
  <2>3. d * (100 - tol) = d * 100 - d * tol
    BY SMT
  <2> QED BY <2>2, <2>3
<1>3. y * tol = x * tol + d * tol
  BY <1>1, SMT
<1> DEFINE p == x * tol  q == d * tol
<1>4. p \in Nat /\ q \in Nat /\ q <= d * 100
  BY <1>2
<1> HIDE DEF p, q
<1>5. (p + q) \div 100 - p \div 100 <= d
  BY <1>4
<1> QED BY <1>1, <1>3, <1>5 DEF p, q

(* When the least and the greatest of some disks are alike (disk.go:140),   *)
(* so are any two.                                                          *)
LEMMA BetweenAlike ==
  ASSUME NEW low \in Nat, NEW high \in Nat, NEW tol \in Nat, SizeToleranceMatch(low, high, tol),
         NEW a \in Nat, NEW b \in Nat, low <= a, a <= b, b <= high
  PROVE  SizeToleranceMatch(a, b, tol)
<1> DEFINE h == (high * tol) \div 100  k == (b * tol) \div 100
<1>1. h \in Int /\ k \in Int
  <2>1. high * tol \in Nat /\ b * tol \in Nat
    OBVIOUS
  <2> QED BY <2>1
<1>2. h - k <= high - b \/ b <= k
  <2>1. CASE tol \in 0 .. 100
    BY <2>1, ToleranceGrows
  <2>2. CASE tol > 100
    <3>1. PICK d \in Nat : tol = 100 + d
      <4>1. tol - 100 \in Nat /\ tol = 100 + (tol - 100)
        BY <2>2
      <4> QED BY <4>1
    <3>2. b * tol = b * 100 + b * d /\ b * d \in Nat
      BY <3>1, SMT
    <3> DEFINE p == b * d
    <3> HIDE DEF p
    <3>3. (b * 100 + p) \div 100 >= b
      BY <3>2 DEF p
    <3> QED BY <1>1, <3>2, <3>3 DEF p
  <2> QED BY <2>1, <2>2
<1>3. Distance(high, low) = high - low /\ Distance(b, a) = b - a /\ high - low <= h
  <2>1. low <= high
    OBVIOUS
  <2>2. Distance(high, low) = high - low /\ Distance(b, a) = b - a
    BY <2>1, DistanceFacts
  <2>3. Distance(high, low) <= h
    BY Zenon DEF SizeToleranceMatch
  <2> HIDE DEF h
  <2> QED BY <2>2, <2>3
<1> HIDE DEF h, k
<1>4. Distance(b, a) <= k
  BY <1>1, <1>2, <1>3
<1> QED BY <1>4, Zenon DEF SizeToleranceMatch, k

(* The closest of some disks.                                               *)
LEMMA ClosestFound ==
  ASSUME NEW disks \in Seq(Nat), disks # << >>, NEW size \in Nat
  PROVE  /\ Closest(disks, size) \in 1 .. Len(disks)
         /\ \A j \in 1 .. Len(disks) : Distance(disks[Closest(disks, size)], size) <= Distance(disks[j], size)
<1> DEFINE N == Len(disks)
           distances == {Distance(disks[i], size) : i \in 1 .. N}
           closest == {i \in 1 .. N : \A j \in 1 .. N : Distance(disks[i], size) <= Distance(disks[j], size)}
<1>1. N \in Nat /\ 1 \in 1 .. N /\ \A i \in 1 .. N : Distance(disks[i], size) \in Nat
  <2>1. \A i \in 1 .. N : disks[i] \in Nat
    OBVIOUS
  <2>2. \A i \in 1 .. N : Distance(disks[i], size) \in Nat
    BY <2>1, DistanceFacts
  <2> QED BY <2>2
<1>2. distances \in SUBSET Nat /\ distances # {}
  BY <1>1
<1>3. PICK d \in distances : \A e \in distances : d <= e
  <2> HIDE DEF distances
  <2> QED BY <1>2, Loop!Least
<1>4. closest # {} /\ closest \in SUBSET (1 .. N)
  BY <1>3
<1>5. Min(closest) \in closest
  <2> HIDE DEF closest, N
  <2> QED BY <1>1, <1>4, FirstOf
<1>6. Closest(disks, size) = Min(closest)
  BY Zenon DEF Closest
<1> QED BY <1>5, <1>6

-----------------------------------------------------------------------------
\* Disks as near or not, and how many of them are near.
Near(disk, for) == SizeToleranceMatch(disk, for.diskSize, for.tgtTol)
Marks(disks, for) == [i \in 1 .. Len(disks) |-> Near(disks[i], for)]
NearCount(disks, for) == Times(Marks(disks, for), TRUE)

(* Marks are counted like disks: one that is near and is taken is one less. *)
LEMMA NearCounted ==
  ASSUME NEW for, NEW disks \in Seq(Nat)
  PROVE  /\ NearCount(disks, for) \in Nat /\ NearCount(disks, for) <= Len(disks)
         /\ NearCount(disks, for) = Cardinality(NearDisks(disks, for))
         /\ NearCount(disks, for) > 0 => \E i \in 1 .. Len(disks) : Near(disks[i], for)
         /\ \A k \in 1 .. Len(disks) :
              NearCount(RemoveAt(disks, k), for) =
                IF Near(disks[k], for) THEN NearCount(disks, for) - 1 ELSE NearCount(disks, for)
<1> DEFINE N == Len(disks)  marks == Marks(disks, for)  near == IndexSet(marks, TRUE)
<1>1. N \in Nat /\ marks \in Seq(BOOLEAN) /\ Len(marks) = N /\ \A i \in 1 .. N : marks[i] = Near(disks[i], for)
  <2>1. \A i \in 1 .. N : Near(disks[i], for) \in BOOLEAN
    BY DEF Near, SizeToleranceMatch
  <2> QED BY <2>1 DEF Marks
<1>2. IsFiniteSet(near) /\ NearCount(disks, for) = Cardinality(near) /\ NearCount(disks, for) \in Nat
  <2> HIDE DEF marks
  <2> QED BY <1>1, TimesType DEF NearCount, marks
<1>3. near = NearDisks(disks, for)
  <2>1. \A i \in 1 .. N : marks[i] = TRUE <=> Near(disks[i], for)
    BY <1>1, Zenon
  <2> HIDE DEF marks
  <2> QED BY <1>1, <2>1 DEF IndexSet, NearDisks, Near
<1>4. NearCount(disks, for) <= N
  <2>1. near \in SUBSET (1 .. N)
    <3> HIDE DEF marks
    <3> QED BY <1>1 DEF IndexSet
  <2>2. IsFiniteSet(1 .. N) /\ Cardinality(1 .. N) = N
    <3> HIDE DEF N
    <3> QED BY <1>1, FS_Interval
  <2>3. Cardinality(near) <= Cardinality(1 .. N)
    <3> HIDE DEF near, N
    <3> QED BY <2>1, <2>2, FS_Subset
  <2> HIDE DEF near, N
  <2> QED BY <1>2, <2>2, <2>3
<1>5. NearCount(disks, for) > 0 => \E i \in 1 .. N : Near(disks[i], for)
  <2> SUFFICES ASSUME NearCount(disks, for) > 0 PROVE near # {}
    BY <1>3 DEF NearDisks, Near
  <2> HIDE DEF near
  <2> QED BY <1>2, FS_EmptySet
<1>6. ASSUME NEW k \in 1 .. N
      PROVE  NearCount(RemoveAt(disks, k), for) =
               IF Near(disks[k], for) THEN NearCount(disks, for) - 1 ELSE NearCount(disks, for)
  <2> DEFINE left == RemoveAt(disks, k)
  <2>1. /\ left \in Seq(Nat) /\ Len(left) = N - 1
        /\ \A i \in 1 .. N - 1 : left[i] = disks[IF i < k THEN i ELSE i + 1]
    BY LeftOver
  <2>2. /\ RemoveAt(marks, k) \in Seq(BOOLEAN) /\ Len(RemoveAt(marks, k)) = N - 1
        /\ \A i \in 1 .. N - 1 : RemoveAt(marks, k)[i] = marks[IF i < k THEN i ELSE i + 1]
    <3> HIDE DEF marks
    <3> QED BY <1>1, LeftOver
  <2> DEFINE ms == Marks(left, for)  rs == RemoveAt(marks, k)
  <2>3. /\ ms \in Seq(BOOLEAN) /\ Len(ms) = N - 1
        /\ \A i \in 1 .. N - 1 : ms[i] = Near(left[i], for)
    <3> HIDE DEF left
    <3>1. \A i \in 1 .. Len(left) : Near(left[i], for) \in BOOLEAN
      BY DEF Near, SizeToleranceMatch
    <3> QED BY <2>1, <3>1 DEF Marks
  <2> HIDE DEF ms, rs
  <2>4. \A i \in 1 .. N - 1 : ms[i] = rs[i]
    <3> SUFFICES ASSUME NEW i \in 1 .. N - 1 PROVE ms[i] = rs[i]
      OBVIOUS
    <3> DEFINE o == IF i < k THEN i ELSE i + 1
    <3>1. o \in 1 .. N
      BY <1>1
    <3>2. left[i] = disks[o] /\ rs[i] = marks[o] /\ ms[i] = Near(left[i], for)
      BY <2>1, <2>2, <2>3 DEF rs
    <3>3. marks[o] = Near(disks[o], for)
      <4> HIDE DEF o, marks
      <4> QED BY <1>1, <3>1
    <3> HIDE DEF o, marks, left
    <3> QED BY <3>2, <3>3, Zenon
  <2>5. ms = rs
    <3>1. rs \in Seq(BOOLEAN) /\ Len(rs) = N - 1
      BY <2>2 DEF rs
    <3> HIDE DEF N
    <3> QED BY <2>3, <2>4, <3>1
  <2>6. Times(rs, TRUE) = IF TRUE = marks[k] THEN Times(marks, TRUE) - 1 ELSE Times(marks, TRUE)
    <3>1. k \in 1 .. Len(marks)
      BY <1>1
    <3> HIDE DEF marks
    <3> QED BY <1>1, <3>1, OneTaken DEF rs
  <2>7. marks[k] = Near(disks[k], for)
    <3> HIDE DEF marks
    <3> QED BY <1>1
  <2>8. TRUE = marks[k] <=> Near(disks[k], for)
    <3> HIDE DEF marks
    <3> QED BY <2>7, Zenon
  <2>9. NearCount(left, for) = Times(rs, TRUE) /\ NearCount(disks, for) = Times(marks, TRUE)
    BY <2>5, Zenon DEF NearCount, ms
  <2> HIDE DEF left, marks
  <2> QED BY <2>6, <2>8, <2>9, Zenon DEF left
<1> QED BY <1>2, <1>3, <1>4, <1>5, <1>6

\* The members of a list are some of the disks.
Among(list, disks) == \A i \in 1 .. Len(list) : \E k \in 1 .. Len(disks) : list[i] = disks[k]

\* The nearest are taken, in the order of their distance.
InOrder(out, size) ==
  \A i, j \in 1 .. Len(out) : i <= j => Distance(out[i], size) <= Distance(out[j], size)
NearestFirst(out, rest, size) ==
  \A i \in 1 .. Len(out), j \in 1 .. Len(rest) : Distance(out[i], size) <= Distance(rest[j], size)

\* When disks are found: as many near ones as are wanted, all alike.
EnoughAlike(disks, for) ==
  /\ Cardinality(NearDisks(disks, for)) >= for.dataDisks
  /\ \A i, j \in NearDisks(disks, for) : SizeToleranceMatch(disks[i], disks[j], for.setTol)

\* Which disks have been taken, and which are left.
Picked(out, rest, disks, for) ==
  /\ out \in Seq(Nat) /\ rest \in Seq(Nat) /\ Len(out) <= for.dataDisks
  /\ Among(out, disks) /\ Among(rest, disks)
  /\ \A c : Times(out, c) + Times(rest, c) <= Times(disks, c)
  /\ InOrder(out, for.diskSize) /\ NearestFirst(out, rest, for.diskSize)
  /\ EnoughAlike(disks, for) => /\ \A i \in 1 .. Len(out) : Near(out[i], for)
                                /\ NearCount(rest, for) + Len(out) >= for.dataDisks

(* The numbers of a platform.                                               *)
LEMMA PlatformNumbers ==
  ASSUME NEW for \in PlatformDisks
  PROVE  for.diskSize \in Nat /\ for.dataDisks \in Nat /\ for.dataDisks > 0 /\ for.setTol \in Nat /\ for.tgtTol \in Nat
BY DEF PlatformDisks

(* While near disks are missing and there are enough, the closest one is    *)
(* near.                                                                    *)
LEMMA ClosestIsNear ==
  ASSUME NEW disks, NEW for \in PlatformDisks, NEW out, NEW rest, Picked(out, rest, disks, for),
         EnoughAlike(disks, for), Len(out) < for.dataDisks
  PROVE  rest # << >> /\ Near(rest[Closest(rest, for.diskSize)], for)
<1> DEFINE size == for.diskSize  near == NearCount(rest, for)
<1>1. rest \in Seq(Nat) /\ out \in Seq(Nat) /\ near + Len(out) >= for.dataDisks
  BY DEF Picked
<1>2. size \in Nat /\ for.dataDisks \in Nat /\ for.tgtTol \in Nat /\ Len(out) \in Nat
  BY <1>1, PlatformNumbers
<1>3. near \in Nat /\ near <= Len(rest) /\ (near > 0 => \E i \in 1 .. Len(rest) : Near(rest[i], for))
  BY <1>1, NearCounted
<1> HIDE DEF near
<1>4. near > 0
  BY <1>1, <1>2, <1>3
<1>5. PICK i \in 1 .. Len(rest) : Near(rest[i], for)
  BY <1>3, <1>4
<1>6. rest # << >>
  BY <1>1, <1>3, <1>4
<1> DEFINE at == Closest(rest, size)
<1>7. at \in 1 .. Len(rest) /\ Distance(rest[at], size) <= Distance(rest[i], size)
  <2> HIDE DEF size
  <2> QED BY <1>1, <1>2, <1>6, ClosestFound
<1> HIDE DEF at
<1>8. rest[at] \in Nat /\ rest[i] \in Nat
  BY <1>1, <1>7
<1>9. Near(rest[at], for)
  <2>1. SizeToleranceMatch(rest[i], size, for.tgtTol)
    BY <1>5, Zenon DEF Near
  <2>2. SizeToleranceMatch(rest[at], size, for.tgtTol)
    <3> HIDE DEF size
    <3> QED BY <1>2, <1>7, <1>8, <2>1, CloserIsNear
  <2> QED BY <2>2, Zenon DEF Near
<1> QED BY <1>6, <1>9 DEF at

(* The closest disk is taken (disk.go:113).                                 *)
LEMMA OnePicked ==
  ASSUME NEW disks, NEW for \in PlatformDisks, NEW out, NEW rest, Picked(out, rest, disks, for),
         Len(out) < for.dataDisks, rest # << >>
  PROVE  Picked(Append(out, rest[Closest(rest, for.diskSize)]), RemoveAt(rest, Closest(rest, for.diskSize)), disks, for)
<1> DEFINE size == for.diskSize  at == Closest(rest, size)  x == rest[at]  grown == Append(out, x)  left == RemoveAt(rest, at)
           N == Len(out)  M == Len(rest)
<1>1. /\ out \in Seq(Nat) /\ rest \in Seq(Nat) /\ N <= for.dataDisks /\ Among(out, disks) /\ Among(rest, disks)
      /\ \A c : Times(out, c) + Times(rest, c) <= Times(disks, c)
      /\ InOrder(out, size) /\ NearestFirst(out, rest, size)
      /\ EnoughAlike(disks, for) => /\ \A i \in 1 .. Len(out) : Near(out[i], for)
                                    /\ NearCount(rest, for) + Len(out) >= for.dataDisks
  BY Zenon DEF Picked
<1>2. size \in Nat /\ for.dataDisks \in Nat /\ N \in Nat /\ M \in Nat
  BY <1>1, PlatformNumbers
<1>3. at \in 1 .. M /\ \A j \in 1 .. M : Distance(x, size) <= Distance(rest[j], size)
  <2> HIDE DEF size
  <2> QED BY <1>1, <1>2, ClosestFound
<1>4. EnoughAlike(disks, for) => Near(x, for)
  BY ClosestIsNear
<1> HIDE DEF at, size
<1>5. x \in Nat
  BY <1>1, <1>3
<1>6. grown \in Seq(Nat) /\ Len(grown) = N + 1 /\ grown[N + 1] = x /\ \A i \in 1 .. N : grown[i] = out[i]
  <2> HIDE DEF x
  <2> QED BY <1>1, <1>5
<1>7. /\ left \in Seq(Nat) /\ Len(left) = M - 1
      /\ \A i \in 1 .. M - 1 : \E j \in 1 .. M : left[i] = rest[j]
  <2>1. /\ left \in Seq(Nat) /\ Len(left) = M - 1
        /\ \A i \in 1 .. M - 1 : left[i] = rest[IF i < at THEN i ELSE i + 1]
    BY <1>1, <1>3, LeftOver
  <2>2. \A i \in 1 .. M - 1 : (IF i < at THEN i ELSE i + 1) \in 1 .. M
    BY <1>2, <1>3
  <2> HIDE DEF left, M
  <2> QED BY <2>1, <2>2
<1>8. \A c : Times(grown, c) + Times(left, c) <= Times(disks, c)
  <2> TAKE c
  <2>1. Times(grown, c) = IF x = c THEN Times(out, c) + 1 ELSE Times(out, c)
    <3> HIDE DEF x
    <3> QED BY <1>1, <1>5, TimesAtEnds
  <2>2. Times(left, c) = IF c = x THEN Times(rest, c) - 1 ELSE Times(rest, c)
    BY <1>1, <1>3, OneTaken
  <2>3. Times(out, c) \in Nat /\ Times(rest, c) \in Nat
    BY <1>1, TimesType
  <2>4. Times(out, c) + Times(rest, c) <= Times(disks, c)
    BY <1>1
  <2> HIDE DEF grown, left, x
  <2> QED BY <2>1, <2>2, <2>3, <2>4
<1> HIDE DEF grown, left, x, N, M
<1>9. \A i \in 1 .. N + 1 : i \in 1 .. N \/ i = N + 1
  BY <1>2
<1>10. Among(grown, disks) /\ Among(left, disks)
  <2>1. \E k \in 1 .. Len(disks) : x = disks[k]
    BY <1>1, <1>3 DEF Among, x, M
  <2>2. \A i \in 1 .. N + 1 : \E k \in 1 .. Len(disks) : grown[i] = disks[k]
    BY <1>1, <1>6, <1>9, <2>1 DEF Among, N
  <2>3. \A i \in 1 .. M - 1 : \E k \in 1 .. Len(disks) : left[i] = disks[k]
    <3> SUFFICES ASSUME NEW i \in 1 .. M - 1 PROVE \E k \in 1 .. Len(disks) : left[i] = disks[k]
      OBVIOUS
    <3>1. PICK j \in 1 .. M : left[i] = rest[j]
      BY <1>7
    <3>2. PICK k \in 1 .. Len(disks) : rest[j] = disks[k]
      BY <1>1, <3>1 DEF Among, M
    <3> QED BY <3>1, <3>2
  <2> QED BY <1>6, <1>7, <2>2, <2>3 DEF Among
<1>11. InOrder(grown, size)
  <2> SUFFICES ASSUME NEW i \in 1 .. N + 1, NEW j \in 1 .. N + 1, i <= j
               PROVE  Distance(grown[i], size) <= Distance(grown[j], size)
    BY <1>6 DEF InOrder
  <2>1. CASE j \in 1 .. N
    <3>1. i \in 1 .. N
      BY <1>2, <2>1
    <3> QED BY <1>1, <1>6, <2>1, <3>1 DEF InOrder, N
  <2>2. CASE j = N + 1 /\ i \in 1 .. N
    <3>1. Distance(out[i], size) <= Distance(rest[at], size)
      BY <1>1, <1>3, <2>2 DEF NearestFirst, N, M
    <3> QED BY <1>6, <2>2, <3>1 DEF x
  <2>3. CASE j = N + 1 /\ i = N + 1
    <3>1. Distance(x, size) \in Nat
      BY <1>2, <1>5, DistanceFacts
    <3> QED BY <1>6, <2>3, <3>1
  <2> QED BY <1>9, <2>1, <2>2, <2>3
<1>12. NearestFirst(grown, left, size)
  <2> SUFFICES ASSUME NEW i \in 1 .. N + 1, NEW j \in 1 .. M - 1
               PROVE  Distance(grown[i], size) <= Distance(left[j], size)
    BY <1>6, <1>7 DEF NearestFirst
  <2>1. PICK k \in 1 .. M : left[j] = rest[k]
    BY <1>7
  <2>2. CASE i \in 1 .. N
    BY <1>1, <1>6, <2>1, <2>2 DEF NearestFirst, N, M
  <2>3. CASE i = N + 1
    BY <1>3, <1>6, <2>1, <2>3
  <2> QED BY <1>9, <2>2, <2>3
<1>13. EnoughAlike(disks, for) => /\ \A i \in 1 .. Len(grown) : Near(grown[i], for)
                                  /\ NearCount(left, for) + Len(grown) >= for.dataDisks
  <2> SUFFICES ASSUME EnoughAlike(disks, for)
               PROVE  /\ \A i \in 1 .. N + 1 : Near(grown[i], for)
                      /\ NearCount(left, for) + (N + 1) >= for.dataDisks
    BY <1>6
  <2>1. Near(x, for)
    BY <1>4
  <2>2. \A i \in 1 .. N : Near(out[i], for)
    BY <1>1 DEF N
  <2>3. \A i \in 1 .. N + 1 : Near(grown[i], for)
    <3> SUFFICES ASSUME NEW i \in 1 .. N + 1 PROVE Near(grown[i], for)
      OBVIOUS
    <3>1. CASE i \in 1 .. N
      <4>1. grown[i] = out[i] /\ Near(out[i], for)
        BY <1>6, <2>2, <3>1
      <4> QED BY <4>1, Zenon
    <3>2. CASE i = N + 1
      BY <1>6, <2>1, <3>2, Zenon
    <3> QED BY <1>9, <3>1, <3>2
  <2>4. NearCount(left, for) = NearCount(rest, for) - 1
    <3>1. NearCount(left, for) = IF Near(x, for) THEN NearCount(rest, for) - 1 ELSE NearCount(rest, for)
      BY <1>1, <1>3, NearCounted DEF left, M, x
    <3> QED BY <2>1, <3>1, Zenon
  <2>5. NearCount(rest, for) \in Nat /\ NearCount(rest, for) + N >= for.dataDisks
    BY <1>1, NearCounted DEF N
  <2>6. NearCount(left, for) + (N + 1) >= for.dataDisks
    BY <1>2, <2>4, <2>5
  <2> QED BY <2>3, <2>6
<1>14. N + 1 <= for.dataDisks
  BY <1>2 DEF N
<1>15. Picked(grown, left, disks, for)
  BY <1>6, <1>7, <1>8, <1>10, <1>11, <1>12, <1>13, <1>14, Zenon DEF Picked, size
<1> QED BY <1>15 DEF grown, left, x, at, size

(* A disk unlike the next is given up (disk.go:121), which never happens    *)
(* when the near ones are alike.                                            *)
LEMMA OneGivenUp ==
  ASSUME NEW disks \in Seq(Nat), NEW for \in PlatformDisks, NEW out, NEW rest, Picked(out, rest, disks, for),
         Len(out) > 1, ~SizeToleranceMatch(out[1], out[2], for.setTol)
  PROVE  Picked(Tail(out), rest, disks, for) /\ ~EnoughAlike(disks, for)
<1> DEFINE size == for.diskSize  kept == Tail(out)  N == Len(out)
<1>1. /\ out \in Seq(Nat) /\ rest \in Seq(Nat) /\ N <= for.dataDisks /\ Among(out, disks) /\ Among(rest, disks)
      /\ \A c : Times(out, c) + Times(rest, c) <= Times(disks, c)
      /\ InOrder(out, size) /\ NearestFirst(out, rest, size)
      /\ EnoughAlike(disks, for) => \A i \in 1 .. Len(out) : Near(out[i], for)
  BY Zenon DEF Picked
<1>2. N \in Nat /\ 1 \in 1 .. N /\ 2 \in 1 .. N /\ out # << >> /\ for.dataDisks \in Nat
  BY <1>1, PlatformNumbers
<1>3. ~EnoughAlike(disks, for)
  <2> SUFFICES ASSUME EnoughAlike(disks, for) PROVE FALSE
    OBVIOUS
  <2>1. Near(out[1], for) /\ Near(out[2], for)
    BY <1>1, <1>2
  <2>2. PICK i, j \in 1 .. Len(disks) : out[1] = disks[i] /\ out[2] = disks[j]
    BY <1>1, <1>2 DEF Among
  <2>3. i \in NearDisks(disks, for) /\ j \in NearDisks(disks, for)
    BY <2>1, <2>2, Zenon DEF NearDisks, Near
  <2>4. SizeToleranceMatch(disks[i], disks[j], for.setTol)
    BY <2>3, Zenon DEF EnoughAlike
  <2> QED BY <2>2, <2>4, Zenon
<1>4. kept \in Seq(Nat) /\ Len(kept) = N - 1 /\ \A i \in 1 .. N - 1 : kept[i] = out[i + 1] /\ i + 1 \in 1 .. N
  BY <1>1, <1>2
<1>5. \A c : Times(kept, c) + Times(rest, c) <= Times(disks, c)
  <2> TAKE c
  <2>1. Times(kept, c) = IF out[1] = c THEN Times(out, c) - 1 ELSE Times(out, c)
    BY <1>1, <1>2, TimesAtEnds
  <2>2. Times(out, c) \in Nat /\ Times(rest, c) \in Nat /\ Times(disks, c) \in Nat
    BY <1>1, TimesType
  <2>3. Times(out, c) + Times(rest, c) <= Times(disks, c)
    BY <1>1
  <2> HIDE DEF kept
  <2> QED BY <2>1, <2>2, <2>3
<1> HIDE DEF kept, N, size
<1>6. Among(kept, disks)
  <2> SUFFICES ASSUME NEW i \in 1 .. N - 1 PROVE \E k \in 1 .. Len(disks) : kept[i] = disks[k]
    BY <1>4 DEF Among
  <2>1. \E k \in 1 .. Len(disks) : out[i + 1] = disks[k]
    BY <1>1, <1>4 DEF Among, N
  <2> QED BY <1>4, <2>1
<1>7. InOrder(kept, size)
  <2> SUFFICES ASSUME NEW i \in 1 .. N - 1, NEW j \in 1 .. N - 1, i <= j
               PROVE  Distance(kept[i], size) <= Distance(kept[j], size)
    BY <1>4 DEF InOrder
  <2>1. i + 1 \in 1 .. N /\ j + 1 \in 1 .. N /\ i + 1 <= j + 1
    BY <1>4
  <2>2. Distance(out[i + 1], size) <= Distance(out[j + 1], size)
    BY <1>1, <2>1 DEF InOrder, N
  <2> QED BY <1>4, <2>2
<1>8. NearestFirst(kept, rest, size)
  <2> SUFFICES ASSUME NEW i \in 1 .. N - 1, NEW j \in 1 .. Len(rest)
               PROVE  Distance(kept[i], size) <= Distance(rest[j], size)
    BY <1>4 DEF NearestFirst
  <2>1. Distance(out[i + 1], size) <= Distance(rest[j], size)
    BY <1>1, <1>4 DEF NearestFirst, N
  <2> QED BY <1>4, <2>1
<1>9. Len(kept) <= for.dataDisks
  BY <1>1, <1>2, <1>4
<1>10. Picked(kept, rest, disks, for)
  BY <1>1, <1>3, <1>4, <1>5, <1>6, <1>7, <1>8, <1>9, Zenon DEF Picked, size
<1> QED BY <1>3, <1>10 DEF kept

\* What has become of the disks after n rounds.
PickedUpTo(state, disks, for, n) ==
  /\ state.size = for.diskSize /\ state.count = for.dataDisks /\ state.setTol = for.setTol
  /\ Picked(state.out, state.rest, disks, for)
  /\ EnoughAlike(disks, for) => Len(state.out) = for.dataDisks \/ Len(state.out) = n

(* One round of the loop that picks disks (disk.go:110).                    *)
LEMMA OneRound ==
  ASSUME NEW disks \in Seq(Nat), NEW for \in PlatformDisks, NEW state, NEW n \in Nat, NEW round,
         PickedUpTo(state, disks, for, n)
  PROVE  PickedUpTo(TakeClosest(state, round), disks, for, n + 1)
<1> DEFINE out == state.out  rest == state.rest  next == TakeClosest(state, round)
           at == Closest(rest, for.diskSize)  grown == Append(out, rest[at])  left == RemoveAt(rest, at)
           unlike == Len(grown) > 1 /\ ~SizeToleranceMatch(grown[1], grown[2], for.setTol)
           kept == IF unlike THEN Tail(grown) ELSE grown
<1> SUFFICES PickedUpTo(next, disks, for, n + 1)
  OBVIOUS
<1>1. /\ state.size = for.diskSize /\ state.count = for.dataDisks /\ state.setTol = for.setTol
      /\ Picked(out, rest, disks, for)
      /\ EnoughAlike(disks, for) => Len(out) = for.dataDisks \/ Len(out) = n
  BY Zenon DEF PickedUpTo
<1>2. out \in Seq(Nat) /\ rest \in Seq(Nat) /\ Len(out) \in Nat /\ for.dataDisks \in Nat /\ Len(out) <= for.dataDisks
  BY <1>1, PlatformNumbers DEF Picked
<1>3. CASE Len(out) = for.dataDisks \/ rest = << >>
  <2>1. next = state
    <3> HIDE DEF out, rest
    <3> QED BY <1>1, <1>3, Zenon DEF TakeClosest, next, NoDisks, out, rest
  <2>2. EnoughAlike(disks, for) => Len(out) = for.dataDisks
    <3>1. EnoughAlike(disks, for) /\ Len(out) < for.dataDisks => rest # << >>
      <4> HIDE DEF out, rest
      <4> QED BY <1>1, ClosestIsNear
    <3> QED BY <1>2, <1>3, <3>1
  <2> HIDE DEF next
  <2> QED BY <1>1, <2>1, <2>2, Zenon DEF PickedUpTo
<1>4. CASE Len(out) # for.dataDisks /\ rest # << >>
  <2>1. next = [out |-> kept, rest |-> left, size |-> for.diskSize, count |-> for.dataDisks, setTol |-> for.setTol]
    <3>1. ~(Len(state.out) = state.count \/ state.rest = << >>)
      BY <1>1, <1>4
    <3> QED BY <1>1, <3>1, Zenon DEF TakeClosest
  <2>2. Len(out) < for.dataDisks
    BY <1>2, <1>4
  <2>3. Picked(grown, left, disks, for)
    <3> HIDE DEF out, rest
    <3> QED BY <1>1, <1>4, <2>2, OnePicked
  <2>4. Len(grown) = Len(out) + 1
    <3> HIDE DEF out
    <3> QED BY <1>2
  <2> HIDE DEF grown, left, out, rest, next
  <2>5. unlike => Picked(Tail(grown), left, disks, for) /\ ~EnoughAlike(disks, for)
    BY <2>3, OneGivenUp
  <2>6. Picked(kept, left, disks, for) /\ (EnoughAlike(disks, for) => kept = grown)
    <3> HIDE DEF unlike
    <3> QED BY <2>3, <2>5
  <2>7. EnoughAlike(disks, for) => Len(kept) = n + 1
    <3> HIDE DEF kept
    <3> QED BY <1>1, <1>4, <2>4, <2>6
  <2> HIDE DEF kept
  <2>8. /\ next.out = kept /\ next.rest = left
        /\ next.size = for.diskSize /\ next.count = for.dataDisks /\ next.setTol = for.setTol
    BY <2>1
  <2> QED BY <2>6, <2>7, <2>8, Zenon DEF PickedUpTo
<1> QED BY <1>3, <1>4

(* The disks that the loop picks, by induction over its rounds.             *)
LEMMA AllPicked ==
  ASSUME NEW disks \in Seq(Nat), NEW for \in PlatformDisks, for.dataDisks <= Len(disks)
  PROVE  LET out == Taken(disks, for.diskSize, for.dataDisks, for.setTol)
         IN /\ out # NoDisks => (\E rest : Picked(out, rest, disks, for)) /\ Len(out) = for.dataDisks
            /\ EnoughAlike(disks, for) => out # NoDisks
<1> DEFINE N == Len(disks)  places == [round \in 1 .. N |-> round]  count == for.dataDisks
           base == [out |-> << >>, rest |-> disks, size |-> for.diskSize, count |-> count, setTol |-> for.setTol]
           end == FoldLeft(TakeClosest, base, places)
           out == Taken(disks, for.diskSize, count, for.setTol)
<1>0. N \in Nat /\ places \in Seq(Nat) /\ Len(places) = N /\ \A n \in 1 .. N : places[n] = n
  OBVIOUS
<1>1. count \in Nat /\ count > 0 /\ for.diskSize \in Nat
  BY PlatformNumbers
<1>2. PickedUpTo(base, disks, for, 0)
  <2>1. /\ base.out = << >> /\ base.rest = disks /\ base.size = for.diskSize
        /\ base.count = for.dataDisks /\ base.setTol = for.setTol
    BY Zenon
  <2>2. << >> \in Seq(Nat) /\ Len(<< >>) = 0 /\ 1 .. 0 = {}
    OBVIOUS
  <2>3. Among(<< >>, disks) /\ Among(disks, disks) /\ InOrder(<< >>, for.diskSize) /\ NearestFirst(<< >>, disks, for.diskSize)
    BY <2>2 DEF Among, InOrder, NearestFirst
  <2>4. \A c : Times(<< >>, c) + Times(disks, c) <= Times(disks, c)
    <3> TAKE c
    <3>1. Times(<< >>, c) = 0
      BY <2>2, FS_EmptySet DEF Times
    <3>2. Times(disks, c) \in Nat
      BY TimesType
    <3> QED BY <3>1, <3>2
  <2>5. EnoughAlike(disks, for) => NearCount(disks, for) + 0 >= for.dataDisks
    <3>1. NearCount(disks, for) = Cardinality(NearDisks(disks, for)) /\ NearCount(disks, for) \in Nat
      BY NearCounted
    <3> QED BY <3>1 DEF EnoughAlike
  <2>6. Picked(<< >>, disks, disks, for)
    BY <1>1, <2>2, <2>3, <2>4, <2>5 DEF Picked
  <2> HIDE DEF base
  <2> QED BY <2>1, <2>2, <2>6 DEF PickedUpTo
<1> HIDE DEF places, base, N
<1>3. PICK f : Take!Rounds(f, base, places) /\ FoldLeft(TakeClosest, base, places) = f[Len(places)]
  BY <1>0, Take!FoldsByRounds DEF Take!FoldLeft, FoldLeft, Take!Max, Max, Take!MapThenFoldSet, MapThenFoldSet
<1>4. f[0] = base /\ \A n \in 1 .. N : f[n] = TakeClosest(f[n - 1], n)
  BY <1>0, <1>3 DEF Take!Rounds
<1> DEFINE K == {n \in Nat : n <= N => PickedUpTo(f[n], disks, for, n)}
<1>5. 0 \in K
  BY <1>2, <1>4
<1>6. ASSUME NEW n \in K PROVE n + 1 \in K
  <2>1. SUFFICES ASSUME n + 1 <= N PROVE PickedUpTo(f[n + 1], disks, for, n + 1)
    OBVIOUS
  <2>2. n \in Nat /\ PickedUpTo(f[n], disks, for, n) /\ n + 1 \in 1 .. N /\ (n + 1) - 1 = n
    BY <1>0, <2>1
  <2>3. f[n + 1] = TakeClosest(f[n], n + 1)
    BY <1>4, <2>2
  <2> QED BY <2>2, <2>3, OneRound
<1>7. K = Nat
  <2>1. K \in SUBSET Nat
    OBVIOUS
  <2> HIDE DEF K
  <2> QED BY <1>5, <1>6, <2>1, Loop!Induct
<1>8. PickedUpTo(end, disks, for, N)
  BY <1>0, <1>3, <1>7 DEF end
<1> HIDE DEF end
<1>9. /\ Picked(end.out, end.rest, disks, for) /\ Len(end.out) <= count
      /\ EnoughAlike(disks, for) => Len(end.out) = count \/ Len(end.out) = N
  BY <1>8, Zenon DEF PickedUpTo, Picked
<1>10. EnoughAlike(disks, for) => Len(end.out) = count
  BY <1>0, <1>1, <1>9 DEF N
<1>11. out = IF Len(end.out) = count THEN end.out ELSE NoDisks
  BY Zenon DEF Taken, end, base, places, N
<1>12. end.out # NoDisks \/ Len(end.out) # count
  BY <1>1 DEF NoDisks
<1> HIDE DEF out, count
<1> QED BY <1>9, <1>10, <1>11, <1>12 DEF out, count

(* The smallest and the largest of some disks, where there is a bound.      *)
LEMMA SizesBetween ==
  ASSUME NEW out \in Seq(Nat), out # << >>, NEW bound \in Nat, \A i \in 1 .. Len(out) : out[i] <= bound
  PROVE  \E i, j \in 1 .. Len(out) :
           /\ Min(ToSet(out)) = out[i] /\ Max(ToSet(out)) = out[j]
           /\ \A k \in 1 .. Len(out) : out[i] <= out[k] /\ out[k] <= out[j]
<1> DEFINE s == ToSet(out)  N == Len(out)
<1>1. N \in Nat /\ 1 \in 1 .. N /\ (\A i \in 1 .. N : out[i] \in Nat /\ out[i] <= bound) /\ DOMAIN out = 1 .. N
  OBVIOUS
<1>2. \A x : x \in s <=> \E i \in 1 .. N : x = out[i]
  BY <1>1 DEF ToSet
<1> HIDE DEF s, N
<1>3. s \in SUBSET Nat /\ s # {} /\ \A x \in s : x <= bound
  BY <1>1, <1>2
<1>4. \E m \in s : \A x \in s : m <= x
  BY <1>3, Loop!Least
<1>5. Min(s) \in s /\ \A x \in s : Min(s) <= x
  BY <1>4, Zenon DEF Min
<1>6. \E m \in s : \A x \in s : m >= x
  <2> DEFINE below == {bound - x : x \in s}
  <2>1. below \in SUBSET Nat /\ below # {}
    <3>1. \A x \in s : bound - x \in Nat
      BY <1>3
    <3> QED BY <1>3, <3>1
  <2>2. PICK b \in below : \A y \in below : b <= y
    <3> HIDE DEF below
    <3> QED BY <2>1, Loop!Least
  <2>3. PICK m \in s : b = bound - m
    BY <2>2
  <2>4. \A x \in s : bound - x \in below
    OBVIOUS
  <2>5. \A x \in s : bound - m <= bound - x
    BY <2>2, <2>3, <2>4
  <2>6. \A x \in s : m >= x
    BY <1>3, <2>3, <2>5
  <2> QED BY <2>3, <2>6
<1>7. Max(s) \in s /\ \A x \in s : Max(s) >= x
  BY <1>6, Zenon DEF Max
<1>8. PICK i \in 1 .. N : Min(s) = out[i]
  BY <1>2, <1>5
<1>9. PICK j \in 1 .. N : Max(s) = out[j]
  BY <1>2, <1>7
<1>10. \A k \in 1 .. N : out[i] <= out[k] /\ out[k] <= out[j]
  <2> TAKE k \in 1 .. N
  <2>1. out[k] \in s
    BY <1>2
  <2>2. Min(s) <= out[k] /\ Max(s) >= out[k]
    BY <1>5, <1>7, <2>1
  <2> QED BY <1>1, <1>8, <1>9, <2>2
<1> QED BY <1>8, <1>9, <1>10 DEF s, N

(* Near disks are no larger than the platform's size with its tolerance.    *)
LEMMA NearIsBounded ==
  ASSUME NEW for \in PlatformDisks
  PROVE  \E bound \in Nat : \A x \in Nat : Near(x, for) => x <= bound
<1> DEFINE size == for.diskSize  t == (size * for.tgtTol) \div 100
<1>1. size \in Nat /\ for.tgtTol \in Nat
  BY PlatformNumbers
<1>2. size * for.tgtTol \in Nat
  BY <1>1
<1>3. t \in Nat
  <2> DEFINE p == size * for.tgtTol
  <2> HIDE DEF p
  <2>1. p \div 100 \in Nat
    BY <1>2 DEF p
  <2> QED BY <2>1 DEF p
<1> HIDE DEF t
<1>4. ASSUME NEW x \in Nat, Near(x, for) PROVE x <= size + t
  <2>1. Distance(size, x) <= t
    BY <1>4, Zenon DEF Near, SizeToleranceMatch, t
  <2> HIDE DEF size
  <2> QED BY <1>1, <1>3, <2>1 DEF Distance
<1>5. size + t \in Nat
  BY <1>1, <1>3
<1> QED BY <1>4, <1>5

(* Restore installs to disks that are alike and near the platform's size,   *)
(* and finds them when there are enough and all near ones are alike         *)
(* (filter, disk.go:96).                                                    *)
LEMMA TargetsAreFound ==
  ASSUME NEW disks \in Seq(Nat), NEW for \in PlatformDisks
  PROVE  TargetsAreFit(disks, for, FindTargets(disks, for))
<1> DEFINE size == for.diskSize  count == for.dataDisks  N == Len(disks)
           out == Taken(disks, size, count, for.setTol)
           result == FindTargets(disks, for)
           least == Min(ToSet(out))  most == Max(ToSet(out))
           far == out = NoDisks \/ ~SizeToleranceMatch(Last(out), size, for.tgtTol)
           uneven == ~SizeToleranceMatch(least, most, for.setTol)
<1>1. N \in Nat /\ size \in Nat /\ count \in Nat /\ count > 0 /\ for.setTol \in Nat /\ for.tgtTol \in Nat
  BY PlatformNumbers
<1>2. result = IF count > N THEN NoDisks ELSE IF far \/ uneven THEN NoDisks ELSE out
  BY Zenon DEF FindTargets, Filter
<1>3. ASSUME count <= N, out # NoDisks
      PROVE  \E rest : Picked(out, rest, disks, for) /\ Len(out) = count
  BY <1>3, AllPicked
<1>4. ASSUME count <= N, EnoughAlike(disks, for) PROVE out # NoDisks
  BY <1>4, AllPicked
<1> HIDE DEF out, result, least, most, far, uneven
\* What the loop gives when it gives any.
<1>5. ASSUME count <= N, out # NoDisks
      PROVE  /\ out \in Seq(Nat) /\ Len(out) = count /\ Len(out) \in 1 .. Len(out) /\ Last(out) = out[Len(out)]
             /\ out # << >> /\ Among(out, disks) /\ InOrder(out, size)
             /\ \A c : Times(out, c) <= Times(disks, c)
             /\ EnoughAlike(disks, for) => \A i \in 1 .. Len(out) : Near(out[i], for)
  <2>1. PICK rest : Picked(out, rest, disks, for) /\ Len(out) = count
    BY <1>3, <1>5
  <2>2. /\ out \in Seq(Nat) /\ rest \in Seq(Nat) /\ Among(out, disks) /\ InOrder(out, size)
        /\ \A c : Times(out, c) + Times(rest, c) <= Times(disks, c)
        /\ EnoughAlike(disks, for) => \A i \in 1 .. Len(out) : Near(out[i], for)
    BY <2>1, Zenon DEF Picked
  <2>3. \A c : Times(out, c) <= Times(disks, c)
    <3> TAKE c
    <3>1. Times(out, c) \in Nat /\ Times(rest, c) \in Nat /\ Times(disks, c) \in Nat
      BY <2>2, TimesType
    <3>2. Times(out, c) + Times(rest, c) <= Times(disks, c)
      BY <2>2
    <3> QED BY <3>1, <3>2
  <2>4. Len(out) \in 1 .. Len(out) /\ out # << >> /\ Last(out) = out[Len(out)]
    BY <1>1, <2>1, <2>2 DEF Last
  <2> QED BY <2>1, <2>2, <2>3, <2>4
\* The least and the most of near ones.
<1>6. ASSUME count <= N, out # NoDisks, \A i \in 1 .. Len(out) : Near(out[i], for)
      PROVE  \E i, j \in 1 .. Len(out) :
               least = out[i] /\ most = out[j] /\ \A k \in 1 .. Len(out) : out[i] <= out[k] /\ out[k] <= out[j]
  <2>1. PICK bound \in Nat : \A x \in Nat : Near(x, for) => x <= bound
    BY NearIsBounded
  <2>2. out \in Seq(Nat) /\ out # << >>
    BY <1>5, <1>6
  <2>3. \A i \in 1 .. Len(out) : out[i] <= bound
    BY <1>6, <2>1, <2>2
  <2> QED BY <2>1, <2>2, <2>3, SizesBetween DEF least, most
<1>7. ASSUME result # NoDisks
      PROVE  /\ Len(result) = count
             /\ \A i \in 1 .. Len(result) :
                  /\ Times(result, result[i]) <= Times(disks, result[i])
                  /\ SizeToleranceMatch(result[i], size, for.tgtTol)
                  /\ \A j \in 1 .. Len(result) :
                       result[i] <= result[j] => SizeToleranceMatch(result[i], result[j], for.setTol)
  <2>1. count <= N /\ ~far /\ ~uneven /\ result = out
    BY <1>1, <1>2, <1>7
  <2>2. out # NoDisks /\ SizeToleranceMatch(Last(out), size, for.tgtTol) /\ SizeToleranceMatch(least, most, for.setTol)
    BY <2>1, Zenon DEF far, uneven
  <2>3. /\ out \in Seq(Nat) /\ Len(out) = count /\ Len(out) \in 1 .. Len(out) /\ Last(out) = out[Len(out)]
        /\ InOrder(out, size) /\ \A c : Times(out, c) <= Times(disks, c)
    BY <1>5, <2>1, <2>2
  <2>4. ASSUME NEW i \in 1 .. Len(out) PROVE SizeToleranceMatch(out[i], size, for.tgtTol)
    <3>1. Distance(out[i], size) <= Distance(out[Len(out)], size) /\ out[i] \in Nat /\ out[Len(out)] \in Nat
      BY <2>3 DEF InOrder
    <3>2. SizeToleranceMatch(out[Len(out)], size, for.tgtTol)
      BY <2>2, <2>3, Zenon
    <3> HIDE DEF size
    <3> QED BY <1>1, <3>1, <3>2, CloserIsNear
  <2>5. PICK i, j \in 1 .. Len(out) :
          least = out[i] /\ most = out[j] /\ \A k \in 1 .. Len(out) : out[i] <= out[k] /\ out[k] <= out[j]
    <3>1. \A k \in 1 .. Len(out) : Near(out[k], for)
      BY <2>4, Zenon DEF Near
    <3> QED BY <1>6, <2>1, <2>2, <3>1
  <2>6. ASSUME NEW a \in 1 .. Len(out), NEW b \in 1 .. Len(out), out[a] <= out[b]
        PROVE  SizeToleranceMatch(out[a], out[b], for.setTol)
    <3>1. /\ out[i] \in Nat /\ out[j] \in Nat /\ out[a] \in Nat /\ out[b] \in Nat
          /\ out[i] <= out[a] /\ out[b] <= out[j]
      <4>1. out[i] <= out[a] /\ out[b] <= out[j]
        BY <2>5
      <4>2. out \in Seq(Nat)
        BY <2>3
      <4>3. \A k \in 1 .. Len(out) : out[k] \in Nat
        BY <4>2
      <4> QED BY <4>1, <4>3
    <3>2. SizeToleranceMatch(out[i], out[j], for.setTol)
      BY <2>2, <2>5, Zenon
    <3> QED BY <1>1, <2>6, <3>1, <3>2, BetweenAlike
  <2> QED BY <2>1, <2>3, <2>4, <2>6, Zenon
<1>8. ASSUME EnoughAlike(disks, for) PROVE result # NoDisks
  <2>1. count <= N
    <3>1. NearCount(disks, for) = Cardinality(NearDisks(disks, for)) /\ NearCount(disks, for) \in Nat /\ NearCount(disks, for) <= N
      BY NearCounted
    <3> QED BY <1>1, <1>8, <3>1 DEF EnoughAlike
  <2>2. out # NoDisks
    BY <1>4, <1>8, <2>1
  <2>3. /\ out \in Seq(Nat) /\ Len(out) \in 1 .. Len(out) /\ Last(out) = out[Len(out)] /\ Among(out, disks)
        /\ \A i \in 1 .. Len(out) : Near(out[i], for)
    BY <1>5, <1>8, <2>1, <2>2
  <2>4. ~far
    <3>1. Near(Last(out), for)
      BY <2>3
    <3> QED BY <2>2, <3>1, Zenon DEF far, Near
  <2>5. ~uneven
    <3>1. PICK i, j \in 1 .. Len(out) : least = out[i] /\ most = out[j]
      BY <1>6, <2>1, <2>2, <2>3
    <3>2. PICK k, l \in 1 .. Len(disks) : out[i] = disks[k] /\ out[j] = disks[l]
      BY <2>3 DEF Among
    <3>3. Near(out[i], for) /\ Near(out[j], for)
      BY <2>3
    <3>4. k \in NearDisks(disks, for) /\ l \in NearDisks(disks, for)
      BY <3>2, <3>3, Zenon DEF NearDisks, Near
    <3>5. SizeToleranceMatch(disks[k], disks[l], for.setTol)
      BY <1>8, <3>4, Zenon DEF EnoughAlike
    <3> QED BY <3>1, <3>2, <3>5, Zenon DEF uneven
  <2> QED BY <1>1, <1>2, <2>1, <2>2, <2>4, <2>5
<1> QED BY <1>7, <1>8, Zenon DEF TargetsAreFit, EnoughAlike, result

(* The disk that becomes the recovery volume (createRecovery) is the only   *)
(* one of its size.                                                         *)
LEMMA OnlyOneRecovery ==
  ASSUME NEW disks \in Seq(Nat), NEW size, CreateRecovery(disks, size) # 0
  PROVE  \A i \in 1 .. Len(disks) : disks[i] = size <=> i = CreateRecovery(disks, size)
<1> DEFINE all == RecoveryCandidates(disks, size)
<1>1. Cardinality(all) = 1 /\ CreateRecovery(disks, size) = Max(all)
  BY DEF CreateRecovery
<1>2. IsFiniteSet(all) /\ all \in SUBSET (1 .. Len(disks)) /\ \A i \in 1 .. Len(disks) : i \in all <=> disks[i] = size
  <2>1. IsFiniteSet(1 .. Len(disks)) /\ all \in SUBSET (1 .. Len(disks))
    BY FS_Interval DEF RecoveryCandidates
  <2>2. \A i \in 1 .. Len(disks) : i \in all <=> disks[i] = size
    BY DEF RecoveryCandidates
  <2> HIDE DEF all
  <2> QED BY <2>1, <2>2, FS_Subset
<1> HIDE DEF all
<1>3. PICK x : all = {x}
  BY <1>1, <1>2, FS_Singleton
<1>4. x \in Nat
  BY <1>2, <1>3
<1>5. Max(all) = x
  BY <1>3, <1>4, GreaterBuild
<1> QED BY <1>1, <1>2, <1>3, <1>5

-----------------------------------------------------------------------------
\* The inputs that a run can reach.
IsTransfer(case) ==
  \E size \in DiskSizes, required \in Required, alignment \in {0, 2, 4, 8}, at \in Begins, len \in Lengths :
    /\ size % required = 0
    /\ case = [kind |-> "transfer", at |-> at, len |-> len,
               disk |-> Disk([i \in 1 .. size |-> i], required, MinAlign, alignment, FALSE)]
IsChosen(case) ==
  \/ case = NoCase \/ case \in FactCases \/ case \in UnitCases \/ IsTransfer(case) \/ IsRaidDisk(case) \/ case \in ArrayCases
  \/ case \in DevicesCases \/ case \in ImagesCases \/ case \in KernelsCases \/ case \in TargetsCases
Chosen == IsChosen(item)

(* The decisions are taken on the inputs that the actions choose, each once. *)
LEMMA OneIsChosen == UnitSpec => []Chosen
<1>1. Init => Chosen
  BY DEF Init, Chosen, IsChosen
<1>2. Chosen /\ [UnitNext]_item => Chosen'
  <2>1. SUFFICES ASSUME Chosen, [UnitNext]_item PROVE IsChosen(item')
    BY DEF Chosen
  <2>2. CASE UNCHANGED item
    BY <2>1, <2>2 DEF Chosen
  <2>3. CASE ChooseFacts
    BY <2>3, Zenon DEF ChooseFacts, IsChosen
  <2>4. CASE ChooseUnit
    BY <2>4, Zenon DEF ChooseUnit, IsChosen
  <2>5. CASE ChooseTransfer
    <3>1. IsTransfer(item')
      BY <2>5, Zenon DEF ChooseTransfer, IsTransfer
    <3> QED BY <3>1, Zenon DEF IsChosen
  <2>6. CASE ChooseRaidDisk
    <3>1. PICK size \in DiskSizes, metadata \in {"imsm", "ddf", "headless", "none"}, required \in Required, sector \in Sectors,
               writeFails \in BOOLEAN :
            \E pri \in 0 .. size, sec \in (0 .. size) \cup {NoSecondary} :
              /\ size % required = 0 /\ required <= MaxAlign
              /\ \A lba \in {pri, sec} \ {NoSecondary} : sector * lba <= size
              /\ pri # sec /\ (metadata \in {"imsm", "none"} => pri = 0 /\ sec = 1)
              /\ item' = [kind |-> "raid", metadata |-> metadata, pri |-> pri, sec |-> sec,
                          disk |-> Disk(DataDisk(size, metadata, sector, pri, sec), required, sector, 0, writeFails)]
      BY <2>6, Zenon DEF ChooseRaidDisk
    <3>2. PICK pri \in 0 .. size, sec \in (0 .. size) \cup {NoSecondary} :
              /\ size % required = 0 /\ required <= MaxAlign
              /\ pri # sec
              /\ item' = [kind |-> "raid", metadata |-> metadata, pri |-> pri, sec |-> sec,
                          disk |-> Disk(DataDisk(size, metadata, sector, pri, sec), required, sector, 0, writeFails)]
      BY <3>1, Zenon
    <3>3. metadata \in Kinds /\ sec \in Lbas(size)
      BY Zenon DEF Kinds, Lbas
    <3>4. IsRaidDisk(item')
      BY <3>2, <3>3, Zenon DEF IsRaidDisk
    <3> QED BY <3>4, Zenon DEF IsChosen
  <2>7. CASE ChooseArrays
    BY <2>7, Zenon DEF ChooseArrays, IsChosen
  <2>8. CASE ChooseDevices \/ ChooseImages \/ ChooseKernels \/ ChooseTargets
    <3>1. item' \in DevicesCases \/ item' \in ImagesCases \/ item' \in KernelsCases \/ item' \in TargetsCases
      BY <2>8, Zenon DEF ChooseDevices, ChooseImages, ChooseKernels, ChooseTargets
    <3> QED BY <3>1, Zenon DEF IsChosen
  <2> QED BY <2>1, <2>2, <2>3, <2>4, <2>5, <2>6, <2>7, <2>8, Zenon DEF UnitNext
<1> QED BY <1>1, <1>2, PTL DEF UnitSpec

(* Each decision is about one kind of input.                                *)
LEMMA KindsDiffer ==
  /\ item = NoCase => item.kind = "none"
  /\ item \in FactCases => item.kind = "facts"
  /\ item \in UnitCases => item.kind = "unit"
  /\ IsTransfer(item) => item.kind = "transfer"
  /\ IsRaidDisk(item) => item.kind = "raid"
  /\ item \in ArrayCases => item.kind = "arrays"
  /\ item \in DevicesCases => item.kind = "devices"
  /\ item \in ImagesCases => item.kind = "images"
  /\ item \in KernelsCases => item.kind = "kernels"
  /\ item \in TargetsCases => item.kind = "targets"
<1>1. item = NoCase => item.kind = "none"
  BY DEF NoCase
<1>2. item \in FactCases => item.kind = "facts"
  BY DEF FactCases
<1>3. item \in UnitCases => item.kind = "unit"
  BY DEF UnitCases
<1>4. IsTransfer(item) => item.kind = "transfer"
  BY DEF IsTransfer
<1>5. IsRaidDisk(item) => item.kind = "raid"
  <2>1. SUFFICES ASSUME IsRaidDisk(item) PROVE item.kind = "raid"
    OBVIOUS
  <2>2. PICK metadata, pri, sec, disk : item = [kind |-> "raid", metadata |-> metadata, pri |-> pri, sec |-> sec, disk |-> disk]
    BY <2>1, Zenon DEF IsRaidDisk
  <2> QED BY <2>2
<1>6. item \in ArrayCases => item.kind = "arrays"
  BY DEF ArrayCases
<1>7. item \in DevicesCases => item.kind = "devices"
  BY DEF DevicesCases
<1>8. item \in ImagesCases => item.kind = "images"
  BY DEF ImagesCases
<1>9. item \in KernelsCases => item.kind = "kernels"
  BY DEF KernelsCases
<1>10. item \in TargetsCases => item.kind = "targets"
  BY DEF TargetsCases
<1> QED BY <1>1, <1>2, <1>3, <1>4, <1>5, <1>6, <1>7, <1>8, <1>9, <1>10

(* For any catalogue and any unit, identify (identify.go:42) takes a unit   *)
(* for a platform only if board or system, sku and processors are that      *)
(* platform's, needs no code name of the recovery volume when there is such *)
(* a platform, and does not depend on the order of the processors           *)
(* (ProcessorMatch, which takes the processors of a variant one by one).    *)
(* For any bus devices and any specification, manufacturing lets a unit     *)
(* pass if it has each as many times as it is to, and only then: none is    *)
(* missed and none counted twice (bdcompare, devices.go:311).  The          *)
(* installed system reads back the facts that restore wrote.                *)
THEOREM UnitKnown == UnitSpec => []UnitIsKnown
<1>1. ASSUME Chosen PROVE UnitIsKnown
  <2>1. CASE item.kind \notin {"facts", "unit", "devices"}
    BY <2>1 DEF UnitIsKnown
  <2>2. CASE item \in FactCases
    <3>1. item.kind = "facts" /\ item.facts \in Facts /\ item.found \in Lcds
      BY <2>2 DEF FactCases
    <3>2. Read(WriteOut(item.facts, item.found)) =
            [item.facts EXCEPT !.lcd = IF item.facts.prototype /\ item.found # "none" THEN item.found ELSE @]
      <4> DEFINE facts == item.facts  found == item.found
      <4>1. facts \in Facts /\ found \in Lcds
        BY <3>1
      <4> HIDE DEF facts, found
      <4>2. Read(WriteOut(facts, found)) =
              [facts EXCEPT !.lcd = IF facts.prototype /\ found # "none" THEN found ELSE @]
        BY <4>1, FactsAreRead
      <4> QED BY <4>2 DEF facts, found
    <3> QED BY <3>1, <3>2 DEF UnitIsKnown
  <2>3. CASE item \in UnitCases
    <3> DEFINE variants == item.variants  unit == item.unit  code == item.code
    <3>1. item.kind = "unit" /\ variants \in Catalogues /\ unit \in Units
      BY <2>3 DEF UnitCases
    <3>2. variants \in Seq(Variant) /\ unit \in UnitData
      BY <3>1, PlatformAssumption
    <3> HIDE DEF variants, unit, code
    <3>3. PlatformIsTheUnits(variants, unit, code)
      BY <3>2, UnitIsIdentified, Zenon DEF PlatformIsTheUnits
    <3> QED BY <3>1, <3>3 DEF UnitIsKnown, variants, unit, code
  <2>4. CASE item \in DevicesCases
    <3> DEFINE devs == item.devs  required == item.required
    <3>1. item.kind = "devices" /\ devs \in BusLists /\ required \in BusSpecs
      BY <2>4 DEF DevicesCases
    <3>2. devs \in Seq(STRING) /\ required \in Seq(BusDevice)
      BY <3>1, DevicesAssumption
    <3> HIDE DEF devs, required
    <3>3. DevicesAreJudged(required, devs)
      BY <3>2, DevicesCompared
    <3> QED BY <3>1, <3>3 DEF UnitIsKnown, devs, required
  <2>5. item.kind \notin {"facts", "unit", "devices"} \/ item \in FactCases \/ item \in UnitCases \/ item \in DevicesCases
    BY <1>1, KindsDiffer DEF Chosen, IsChosen
  <2> QED BY <2>1, <2>2, <2>3, <2>4, <2>5
<1> QED BY OneIsChosen, <1>1, PTL

(* For disks of any size, whatever their sectors, what they require of a    *)
(* transfer and wherever the headers of a ddf record are, an erase          *)
(* (pkg/erase/raid) leaves a disk its raid metadata and nothing else; a     *)
(* transfer that is not aligned reaches exactly what it is for, and is      *)
(* refused only where it must be; and for any list of disks an erase goes   *)
(* on exactly if the data disks are one array.                              *)
THEOREM RaidKept == UnitSpec => []RaidIsKept
<1>1. ASSUME Chosen PROVE RaidIsKept
  <2>1. CASE item.kind \notin {"transfer", "raid", "arrays"}
    BY <2>1 DEF RaidIsKept
  <2>2. CASE IsTransfer(item)
    <3>1. PICK size \in DiskSizes, required \in Required, alignment \in {0, 2, 4, 8}, at \in Begins, len \in Lengths :
            /\ size % required = 0
            /\ item = [kind |-> "transfer", at |-> at, len |-> len,
                       disk |-> Disk([i \in 1 .. size |-> i], required, MinAlign, alignment, FALSE)]
      BY <2>2, Zenon DEF IsTransfer
    <3> DEFINE d == Disk([i \in 1 .. size |-> i], required, MinAlign, alignment, FALSE)
    <3>2. d = Disk([i \in 1 .. size |-> i], required, MinAlign, alignment, FALSE)
      OBVIOUS
    <3> HIDE DEF d
    <3>3. TransferIsExact(d, at, len)
      BY <3>1, <3>2, TransfersAreExact
    <3>4. item.kind = "transfer" /\ item.disk = d /\ item.at = at /\ item.len = len
      BY <3>1, <3>2
    <3> QED BY <3>3, <3>4 DEF RaidIsKept
  <2>3. CASE IsRaidDisk(item)
    <3> DEFINE type == DetectRaidType(item.disk, 0)  saved == Backup(item.disk, type)
    <3>2. type = DetectRaidType(item.disk, 0) /\ saved = Backup(item.disk, type)
      OBVIOUS
    <3> HIDE DEF type, saved
    <3>3. RecordIsKept(item, type, saved, Restore(Wiped(item.disk), type, saved))
      BY <2>3, <3>2, DiskIsKept
    <3>4. item.kind = "raid"
      BY <2>3, KindsDiffer
    <3> QED BY <3>3, <3>4 DEF RaidIsKept, type, saved
  <2>4. CASE item \in ArrayCases
    <3> DEFINE devices == item.devices  dataDisks == item.dataDisks
    <3>1. item.kind = "arrays" /\ devices \in DeviceLists /\ dataDisks \in DiskCounts
      BY <2>4 DEF ArrayCases
    <3>2. devices \in Seq(Device) /\ dataDisks \in Nat \ {0}
      BY <3>1, RaidAssumption
    <3> HIDE DEF devices, dataDisks
    <3>3. ArrayIsWhole(devices, dataDisks)
      BY <3>2, ArraysAreWhole
    <3> QED BY <3>1, <3>3 DEF RaidIsKept, devices, dataDisks
  <2>5. item.kind \notin {"transfer", "raid", "arrays"} \/ IsTransfer(item) \/ IsRaidDisk(item) \/ item \in ArrayCases
    BY <1>1, KindsDiffer DEF Chosen, IsChosen
  <2> QED BY <2>1, <2>2, <2>3, <2>4, <2>5
<1> QED BY OneIsChosen, <1>1, PTL

(* For any images, kernels, disks and platform: restore takes the first     *)
(* good image and extracts that one, however little memory there is         *)
(* (findValidUpd, ar.go:327); leaves the newest readable kernel on both     *)
(* volumes, and a readable one whatever fails (useLatestKernel,             *)
(* misc.go:106); and installs to disks that are alike and near the          *)
(* platform's size, which it finds when there are enough and all near ones  *)
(* are alike (filter, disk.go:96).                                          *)
THEOREM ChoicesMade == UnitSpec => []ChoicesAreGood
<1>1. ASSUME Chosen PROVE ChoicesAreGood
  <2>1. CASE item.kind \notin {"images", "kernels", "targets"}
    BY <2>1 DEF ChoicesAreGood
  <2>2. CASE item \in ImagesCases
    <3> DEFINE images == item.images  low == item.low  fault == item.fault
    <3>1. item.kind = "images" /\ images \in ImageLists /\ low \in BOOLEAN
      BY <2>2 DEF ImagesCases
    <3>2. images \in Seq(Image)
      BY <3>1, InstallAssumption
    <3> HIDE DEF images, low, fault
    <3>3. FirstGoodTaken(images, low, fault)
      BY <3>1, <3>2, FirstGoodIsTaken
    <3> QED BY <3>1, <3>3 DEF ChoicesAreGood, images, low, fault
  <2>3. CASE item \in KernelsCases
    <3> DEFINE image == item.image  recovery == item.recovery  fault == item.fault
    <3>1. item.kind = "kernels" /\ image \in KernelFiles /\ recovery \in KernelFiles /\ fault \in {"none", "open dest", "open source", "copy"}
      BY <2>3 DEF KernelsCases
    <3>2. image \in KernelFile /\ recovery \in KernelFile
      BY <3>1, InstallAssumption
    <3> HIDE DEF image, recovery, fault
    <3>3. NewestIsLeft(image, recovery, UseLatestKernel(image, recovery, FALSE, fault), fault)
      BY <3>1, <3>2, KernelsAreNewest
    <3> QED BY <3>1, <3>3 DEF ChoicesAreGood, image, recovery, fault
  <2>4. CASE item \in TargetsCases
    <3> DEFINE disks == item.disks  platform == item.platform  size == platform.diskSize  chosen == CreateRecovery(disks, size)
    <3>1. item.kind = "targets" /\ disks \in DiskLists /\ platform \in Platforms
      BY <2>4 DEF TargetsCases
    <3>2. disks \in Seq(Nat) /\ platform \in PlatformDisks
      BY <3>1, InstallAssumption
    <3> HIDE DEF disks, platform
    <3>3. TargetsAreFit(disks, platform, FindTargets(disks, platform))
      BY <3>2, TargetsAreFound
    <3>4. chosen # 0 => \A i \in 1 .. Len(disks) : disks[i] = size <=> i = chosen
      <4> HIDE DEF size
      <4> QED BY <3>2, OnlyOneRecovery
    <3> QED BY <3>1, <3>3, <3>4 DEF ChoicesAreGood, disks, platform
  <2>5. \/ item.kind \notin {"images", "kernels", "targets"}
        \/ item \in ImagesCases \/ item \in KernelsCases \/ item \in TargetsCases
    BY <1>1, KindsDiffer DEF Chosen, IsChosen
  <2> QED BY <2>1, <2>2, <2>3, <2>4, <2>5
<1> QED BY OneIsChosen, <1>1, PTL
=============================================================================
