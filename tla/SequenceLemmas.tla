--------------------------- MODULE SequenceLemmas ---------------------------
(***************************************************************************)
(* Lemmas about the data the models are made of: least numbers and sums,   *)
(* which the searches of the ring compute; sequences end to end            *)
(* (FlattenSeq), which are what a reader sees; and their parts.            *)
(*                                                                         *)
(* They need induction.  The library's induction theorems take the formula *)
(* to prove as an operator; SetInduction here takes it as a set.           *)
(* Recursion is what it is for: the recursive functions of the models are  *)
(* functions, with values of the type their steps keep.                    *)
(***************************************************************************)
EXTENDS Integers, SequencesExt, FiniteSetsExt, FiniteSetTheorems, SequenceTheorems, TLAPS

(* Induction: of the intervals below the numbers that are not in T, none   *)
(* would be the smallest.                                                  *)
LEMMA SetInduction ==
  ASSUME NEW T \in SUBSET Nat, 0 \in T, \A n \in T : n + 1 \in T
  PROVE  T = Nat
<1> SUFFICES ASSUME Nat \ T # {} PROVE FALSE
  OBVIOUS
<1> DEFINE Below(n) == 0 .. n-1
           Gaps == {Below(n) : n \in Nat \ T}
           R == StrictSubsetOrdering(Nat)
<1>1. \A n \in Nat : Below(n) \in FiniteSubsetsOf(Nat)
  <2> SUFFICES ASSUME NEW n \in Nat PROVE IsFiniteSet(Below(n)) /\ Below(n) \in SUBSET Nat
    BY DEF FiniteSubsetsOf
  <2> QED
    BY FS_Interval
<1>2. PICK least \in Gaps : \A gap \in Gaps : <<gap, least>> \notin R
  <2>1. Gaps # {} /\ Gaps \subseteq FiniteSubsetsOf(Nat)
    BY <1>1
  <2>2. IsWellFoundedOn(R, FiniteSubsetsOf(Nat))
    BY FS_StrictSubsetOrderingWellFounded
  <2> HIDE DEF R, Gaps
  <2> QED
    BY <2>1, <2>2, WFMin
<1>3. PICK m \in Nat \ T : least = Below(m)
  OBVIOUS
<1>4. m # 0 /\ m - 1 \in Nat
  OBVIOUS
<1>5. m - 1 \in T
  <2> SUFFICES ASSUME m - 1 \notin T PROVE FALSE
    OBVIOUS
  <2>1. Below(m - 1) \in Gaps
    BY <1>4
  <2>2. Below(m - 1) \subseteq Below(m) /\ Below(m-1) # Below(m)
    <3>1. m - 1 \in Below(m) /\ m - 1 \notin Below(m - 1)
      BY <1>4
    <3> QED
      BY <1>4, <3>1
  <2>3. Below(m - 1) \in SUBSET Nat /\ Below(m) \in SUBSET Nat
    BY <1>4
  <2>4. <<Below(m - 1), Below(m)>> \in R
    <3> HIDE DEF Below
    <3> QED
      BY <2>2, <2>3 DEF StrictSubsetOrdering
  <2> QED
    BY <1>2, <1>3, <2>1, <2>4
<1> QED
  BY <1>4, <1>5

(* Induction up to a number.                                               *)
LEMMA InductionUpTo ==
  ASSUME NEW n \in Nat, NEW T, 0 \in T, \A i \in 0..n-1 : i \in T => i + 1 \in T
  PROVE  \A i \in 0..n : i \in T
<1> DEFINE U == {i \in Nat : i <= n => i \in T}
<1>1. 0 \in U
  OBVIOUS
<1>2. \A i \in U : i + 1 \in U
  <2> SUFFICES ASSUME NEW i \in Nat, i <= n => i \in T, i + 1 <= n PROVE i + 1 \in T
    OBVIOUS
  <2>1. i \in 0..n-1
    OBVIOUS
  <2> QED
    BY <2>1
<1>3. U = Nat
  <2> HIDE DEF U
  <2>1. U \in SUBSET Nat
    BY DEF U
  <2> QED
    BY <1>1, <1>2, <2>1, SetInduction
<1> QED
  BY <1>3

(* A function whose values follow each from the one before: there is one.  *)
Steps(f, first, next, n) ==
  f[0] = first /\ \A i \in 0..n-1 : f[i+1] = next[i][f[i]]

LEMMA Recursion ==
  ASSUME NEW n \in Nat, NEW first \in Nat, NEW next,
         \A i \in 0..n-1 : \A x \in Nat : next[i][x] \in Nat
  PROVE  \E f \in [0..n -> Nat] : Steps(f, first, next, n)
<1> DEFINE Exist(k) == \E f \in [0..k -> Nat] :
             f[0] = first /\ \A i \in 0..k-1 : f[i+1] = next[i][f[i]]
           T == {k \in Nat : Exist(k)}
<1>1. 0 \in T
  <2> DEFINE f == [i \in 0..0 |-> first]
  <2>1. f \in [0..0 -> Nat] /\ f[0] = first /\ \A i \in 0..0-1 : FALSE
    OBVIOUS
  <2> HIDE DEF f
  <2>2. Exist(0)
    BY <2>1
  <2> QED
    BY <2>2
<1>2. \A k \in 0..n-1 : k \in T => k + 1 \in T
  <2> SUFFICES ASSUME NEW k \in 0..n-1, Exist(k) PROVE Exist(k+1)
    <3> HIDE DEF Exist
    <3> QED
      OBVIOUS
  <2>1. PICK f \in [0..k -> Nat] :
          f[0] = first /\ \A i \in 0..k-1 : f[i+1] = next[i][f[i]]
    OBVIOUS
  <2> DEFINE y == next[k][f[k]]
             g == [i \in 0..k+1 |-> IF i = k+1 THEN y ELSE f[i]]
  <2>2. y \in Nat
    <3>1. k \in 0..k
      OBVIOUS
    <3> QED
      BY <3>1
  <2> HIDE DEF y
  <2>3. g \in [0..k+1 -> Nat] /\ g[k+1] = y /\ \A i \in 0..k : g[i] = f[i]
    BY <2>2
  <2>4. g[0] = first
    BY <2>1, <2>3
  <2>5. ASSUME NEW i \in 0..k PROVE g[i+1] = next[i][g[i]]
    <3>1. CASE i = k
      BY <2>3, <3>1 DEF y
    <3>2. CASE i # k
      <4>1. i \in 0..k-1 /\ i+1 \in 0..k
        BY <3>2
      <4> QED
        BY <2>1, <2>3, <4>1
    <3> QED
      BY <3>1, <3>2
  <2>6. (k + 1) - 1 = k
    OBVIOUS
  <2> HIDE DEF g
  <2> QED
    BY <2>3, <2>4, <2>5, <2>6
<1>3. n \in T
  <2> HIDE DEF T
  <2>1. n \in 0..n
    OBVIOUS
  <2> QED
    BY <1>1, <1>2, <2>1, InductionUpTo
<1> QED
  BY <1>3 DEF Steps

LEMMA LeastNumber ==
  ASSUME NEW S \in SUBSET Nat, S # {}
  PROVE  \E m \in S : \A n \in S : m <= n
<1> SUFFICES ASSUME \A m \in S : \E n \in S : n < m PROVE FALSE
  OBVIOUS
<1> DEFINE T == {k \in Nat : \A n \in S : k < n}
<1>1. 0 \in T
  OBVIOUS
<1>2. \A k \in T : k + 1 \in T
  OBVIOUS
<1>3. T = Nat
  <2> HIDE DEF T
  <2>1. T \in SUBSET Nat
    BY DEF T
  <2> QED
    BY <1>1, <1>2, <2>1, SetInduction
<1>4. PICK n \in S : n \in T
  BY <1>3
<1> QED
  BY <1>4

LEMMA MinIsLeast ==
  ASSUME NEW S \in SUBSET Nat, S # {}
  PROVE  Min(S) \in S /\ \A n \in S : Min(S) <= n
<1> DEFINE Least(m) == m \in S /\ \A n \in S : m <= n
<1>1. \E m : Least(m)
  BY LeastNumber
<1>2. Min(S) = CHOOSE m : Least(m)
  BY DEF Min
<1> QED
  BY <1>1, <1>2
-----------------------------------------------------------------------------
(* f[i] is the sum of the first i of size[0], size[1], ...                 *)
Sums(f, size, n) ==
  f = [i \in 0..n |-> IF i = 0 THEN 0 ELSE f[i-1] + size[i-1]]

LEMMA SumsExist ==
  ASSUME NEW n \in Nat, NEW size, \A i \in 0..n-1 : size[i] \in Nat
  PROVE  \E f \in [0..n -> Nat] : Sums(f, size, n)
<1> DEFINE next == [i \in 0..n-1 |-> [x \in Nat |-> x + size[i]]]
<1>1. \A i \in 0..n-1 : \A x \in Nat : next[i][x] = x + size[i]
  OBVIOUS
<1>2. PICK f \in [0..n -> Nat] : Steps(f, 0, next, n)
  <2>1. \A i \in 0..n-1 : \A x \in Nat : next[i][x] \in Nat
    BY <1>1
  <2>2. 0 \in Nat
    OBVIOUS
  <2> HIDE DEF next
  <2> QED
    BY <2>1, <2>2, Recursion
<1> HIDE DEF next
<1>3. ASSUME NEW i \in 0..n, i # 0 PROVE f[i] = f[i-1] + size[i-1]
  <2>1. i-1 \in 0..n-1 /\ (i-1)+1 = i
    BY <1>3
  <2>2. f[i-1] \in Nat
    BY <2>1
  <2> QED
    BY <1>1, <1>2, <2>1, <2>2 DEF Steps
<1>4. f[0] = 0 /\ \A i \in 0..n : i # 0 => f[i] = f[i-1] + size[i-1]
  BY <1>2, <1>3 DEF Steps
<1> QED
  BY <1>4 DEF Sums

LEMMA SumsType ==
  ASSUME NEW n \in Nat, NEW size, \A i \in 0..n-1 : size[i] \in Nat,
         NEW f, Sums(f, size, n)
  PROVE  /\ f \in [0..n -> Nat] /\ f[0] = 0
         /\ \A i \in 0..n-1 : f[i+1] = f[i] + size[i]
<1>1. /\ DOMAIN f = 0..n
      /\ \A i \in 0..n : f[i] = IF i = 0 THEN 0 ELSE f[i-1] + size[i-1]
  BY DEF Sums
<1>2. \A i \in 0..n-1 : f[i+1] = f[i] + size[i]
  <2> TAKE i \in 0..n-1
  <2>1. i+1 \in 0..n /\ i+1 # 0 /\ (i+1)-1 = i
    OBVIOUS
  <2> QED
    BY <1>1, <2>1
<1> DEFINE T == {k \in Nat : k <= n => f[k] \in Nat}
<1>3. 0 \in T /\ f[0] = 0
  BY <1>1
<1>4. \A k \in T : k + 1 \in T
  <2> SUFFICES ASSUME NEW k \in Nat, k + 1 <= n, f[k] \in Nat PROVE f[k+1] \in Nat
    OBVIOUS
  <2>1. k \in 0..n-1
    OBVIOUS
  <2> QED
    BY <1>2, <2>1
<1>5. T = Nat
  <2> HIDE DEF T
  <2>1. T \in SUBSET Nat
    BY DEF T
  <2> QED
    BY <1>3, <1>4, <2>1, SetInduction
<1>6. \A k \in 0..n : f[k] \in Nat
  BY <1>5
<1>7. f = [k \in 0..n |-> f[k]]
  BY <1>1 DEF Sums
<1> QED
  BY <1>2, <1>3, <1>6, <1>7

(* The sums of more are not smaller.                                       *)
LEMMA SumsGrow ==
  ASSUME NEW n \in Nat, NEW f \in [0..n -> Nat], \A i \in 0..n-1 : f[i] <= f[i+1],
         NEW i \in 0..n, NEW j \in 0..n, i <= j
  PROVE  f[i] <= f[j]
<1> DEFINE T == {k \in Nat : i <= k /\ k <= n => f[i] <= f[k]}
<1>1. 0 \in T
  OBVIOUS
<1>2. \A k \in T : k + 1 \in T
  <2> SUFFICES ASSUME NEW k \in T, i <= k + 1, k + 1 <= n PROVE f[i] <= f[k+1]
    OBVIOUS
  <2>1. CASE i = k + 1
    BY <2>1
  <2>2. CASE i <= k
    <3>1. k \in 0..n-1 /\ k+1 \in 0..n /\ f[i] <= f[k]
      BY <2>2
    <3>2. f[k] <= f[k+1] /\ f[i] \in Nat /\ f[k] \in Nat /\ f[k+1] \in Nat
      BY <3>1
    <3> QED
      BY <3>1, <3>2
  <2> QED
    BY <2>1, <2>2
<1>3. T = Nat
  <2> HIDE DEF T
  <2>1. T \in SUBSET Nat
    BY DEF T
  <2> QED
    BY <1>1, <1>2, <2>1, SetInduction
<1>4. j \in T
  <2> HIDE DEF T
  <2> QED
    BY <1>3
<1> QED
  BY <1>4

(* Sums of the same numbers agree, as far as the numbers do.               *)
LEMMA SumsAgree ==
  ASSUME NEW m \in Nat, NEW n \in Nat, NEW f, NEW g, NEW size, NEW more,
         Sums(f, size, m), Sums(g, more, n), m <= n, \A i \in 0..m-1 : size[i] = more[i]
  PROVE  f[m] = g[m]
<1> DEFINE T == {k \in Nat : k <= m => f[k] = g[k]}
<1>1. 0 \in T
  BY DEF Sums
<1>2. \A k \in T : k + 1 \in T
  <2> SUFFICES ASSUME NEW k \in Nat, f[k] = g[k], k + 1 <= m PROVE f[k+1] = g[k+1]
    OBVIOUS
  <2> DEFINE j == k + 1
  <2>1. j \in 0..m /\ j \in 0..n /\ j # 0 /\ j - 1 = k /\ k \in 0..m-1
    OBVIOUS
  <2> HIDE DEF j
  <2>2. f[j] = f[k] + size[k] /\ g[j] = g[k] + more[k]
    BY <2>1 DEF Sums
  <2>3. f[j] = g[j]
    BY <2>1, <2>2
  <2> QED
    BY <2>3 DEF j
<1>3. T = Nat
  <2> HIDE DEF T
  <2>1. T \in SUBSET Nat
    BY DEF T
  <2> QED
    BY <1>1, <1>2, <2>1, SetInduction
<1>4. m \in T
  <2> HIDE DEF T
  <2> QED
    BY <1>3
<1> QED
  BY <1>4

LEMMA OneMoreTimes ==
  ASSUME NEW k \in Nat, NEW most \in Nat
  PROVE  k * most \in Nat /\ (k + 1) * most = k * most + most
OBVIOUS

(* i numbers of at most most sum up to at most i * most.                   *)
LEMMA SumsBounded ==
  ASSUME NEW n \in Nat, NEW f \in [0..n -> Nat], NEW most \in Nat, f[0] = 0,
         \A i \in 0..n-1 : f[i+1] <= f[i] + most
  PROVE  \A i \in 0..n : f[i] <= i * most
<1> DEFINE T == {k \in Nat : k <= n => f[k] <= k * most}
<1>1. 0 \in T
  OBVIOUS
<1>2. \A k \in T : k + 1 \in T
  <2> SUFFICES ASSUME NEW k \in Nat, k + 1 <= n, f[k] <= k * most
               PROVE  f[k+1] <= (k + 1) * most
    OBVIOUS
  <2> DEFINE j == k + 1
             times == k * most
             moreTimes == (k + 1) * most
  <2>1. k \in 0..n /\ j \in 0..n /\ k \in 0..n-1
    OBVIOUS
  <2>2. times \in Nat /\ moreTimes = times + most
    BY OneMoreTimes
  <2>3. f[j] <= f[k] + most /\ f[k] <= times
    BY <2>1
  <2> HIDE DEF j, times, moreTimes
  <2>4. f[k] \in Nat /\ f[j] \in Nat
    BY <2>1
  <2>5. f[j] <= moreTimes
    BY <2>2, <2>3, <2>4
  <2> QED
    BY <2>5 DEF j, moreTimes
<1>3. T = Nat
  <2> HIDE DEF T
  <2>1. T \in SUBSET Nat
    BY DEF T
  <2> QED
    BY <1>1, <1>2, <2>1, SetInduction
<1>4. \A i \in 0..n : i \in T
  <2> HIDE DEF T
  <2> QED
    BY <1>3
<1> QED
  BY <1>4

-----------------------------------------------------------------------------
(* f[i] is the first i sequences of ss end to end, as in the definition of *)
(* FlattenSeq.                                                             *)
Flattens(f, ss, n) ==
  f = [i \in 1..n |-> IF i = 1 THEN ss[i] ELSE f[i-1] \o ss[i]]

(* There is such a function ...                                            *)
LEMMA FlattensExists ==
  ASSUME NEW S, NEW ss \in Seq(Seq(S)), NEW n \in 0..Len(ss)
  PROVE  \E f \in [1..n -> Seq(S)] : Flattens(f, ss, n)
<1> DEFINE T == {k \in Nat : k <= Len(ss) => \E f \in [1..k -> Seq(S)] : Flattens(f, ss, k)}
<1>1. 0 \in T
  <2> DEFINE f == [i \in 1..0 |-> <<>>]
  <2>1. f \in [1..0 -> Seq(S)] /\ Flattens(f, ss, 0)
    BY DEF Flattens
  <2> QED
    BY <2>1
<1>2. \A k \in T : k + 1 \in T
  <2> SUFFICES ASSUME NEW k \in T, k + 1 <= Len(ss)
               PROVE \E f \in [1..k+1 -> Seq(S)] : Flattens(f, ss, k+1)
    OBVIOUS
  <2>1. PICK f \in [1..k -> Seq(S)] : Flattens(f, ss, k)
    OBVIOUS
  <2>0. k \in Nat
    OBVIOUS
  <2>2. ss[k+1] \in Seq(S)
    BY ElementOfSeq
  <2> DEFINE next == IF k = 0 THEN ss[k+1] ELSE f[k] \o ss[k+1]
  <2> DEFINE g == [i \in 1..k+1 |-> IF i = k+1 THEN next ELSE f[i]]
  <2>3. next \in Seq(S)
    BY <2>2
  <2>4. g \in [1..k+1 -> Seq(S)]
    BY <2>3
  <2>5. ASSUME NEW i \in 1..k+1
        PROVE  g[i] = IF i = 1 THEN ss[i] ELSE g[i-1] \o ss[i]
    <3>1. CASE i = k+1
      BY <3>1
    <3>2. CASE i \in 1..k
      <4>1. f[i] = IF i = 1 THEN ss[i] ELSE f[i-1] \o ss[i]
        BY <2>1, <3>2 DEF Flattens
      <4>2. i = 1 \/ i-1 \in 1..k
        BY <3>2
      <4>3. g[i] = f[i] /\ (i # 1 => g[i-1] = f[i-1])
        <5> HIDE DEF next, T
        <5> QED
          BY <2>0, <3>2, <4>2
      <4> QED
        BY <4>1, <4>3
    <3> QED
      BY <3>1, <3>2
  <2>6. Flattens(g, ss, k+1)
    <3> HIDE DEF next
    <3> QED
      BY <2>4, <2>5 DEF Flattens
  <2> QED
    BY <2>4, <2>6
<1>3. T = Nat
  <2> HIDE DEF T
  <2>1. T \in SUBSET Nat
    BY DEF T
  <2> QED
    BY <1>1, <1>2, <2>1, SetInduction
<1> QED
  <2>1. n \in Nat /\ n <= Len(ss)
    BY LenProperties
  <2>2. n \in T
    <3> HIDE DEF T
    <3> QED
      BY <1>3, <2>1
  <2> QED
    BY <2>1, <2>2

(* ... and it is the only one.                                             *)
LEMMA FlattensAgree ==
  ASSUME NEW ss, NEW m \in Nat, NEW n \in Nat, NEW f, NEW g,
         Flattens(f, ss, m), Flattens(g, ss, n)
  PROVE  \A i \in 1..m : i <= n => f[i] = g[i]
<1> DEFINE T == {k \in Nat : k \in 1..m /\ k <= n => f[k] = g[k]}
<1>1. 0 \in T
  OBVIOUS
<1>2. \A k \in T : k + 1 \in T
  <2> SUFFICES ASSUME NEW k \in T, k + 1 <= m, k + 1 <= n
               PROVE  f[k+1] = g[k+1]
    OBVIOUS
  <2>1. k+1 \in 1..m /\ k+1 \in 1..n /\ (k+1)-1 = k /\ (k+1 = 1 <=> k = 0)
    OBVIOUS
  <2>2. /\ f[k+1] = IF k+1 = 1 THEN ss[k+1] ELSE f[(k+1)-1] \o ss[k+1]
        /\ g[k+1] = IF k+1 = 1 THEN ss[k+1] ELSE g[(k+1)-1] \o ss[k+1]
    BY <2>1 DEF Flattens
  <2>3. k # 0 => f[k] = g[k]
    BY <2>1
  <2> QED
    BY <2>1, <2>2, <2>3
<1>3. T = Nat
  <2> HIDE DEF T
  <2>1. T \in SUBSET Nat
    BY DEF T
  <2> QED
    BY <1>1, <1>2, <2>1, SetInduction
<1>4. \A i \in Nat : i \in T
  <2> HIDE DEF T
  <2> QED
    BY <1>3
<1> QED
  BY <1>4

(* What the recursive definition of FlattenSeq defines.                    *)
LEMMA FlattenEquation ==
  ASSUME NEW S, NEW ss \in Seq(Seq(S)), ss # <<>>
  PROVE  \E f \in [1..Len(ss) -> Seq(S)] :
           Flattens(f, ss, Len(ss)) /\ FlattenSeq(ss) = f[Len(ss)]
<1>1. Len(ss) \in Nat /\ Len(ss) # 0 /\ Len(ss) \in 1..Len(ss)
  BY EmptySeq
<1> DEFINE F == CHOOSE f : f = [i \in 1..Len(ss) |-> IF i = 1 THEN ss[i] ELSE f[i-1] \o ss[i]]
<1>2. PICK f \in [1..Len(ss) -> Seq(S)] : Flattens(f, ss, Len(ss))
  <2>1. Len(ss) \in 0..Len(ss)
    BY <1>1
  <2> QED
    BY <2>1, FlattensExists
<1>3. Flattens(F, ss, Len(ss))
  BY <1>2 DEF Flattens
<1>4. FlattenSeq(ss) = F[Len(ss)]
  BY <1>1 DEF FlattenSeq
<1> HIDE DEF F
<1>5. F[Len(ss)] = f[Len(ss)]
  BY <1>1, <1>2, <1>3, FlattensAgree
<1> QED
  BY <1>2, <1>4, <1>5
-----------------------------------------------------------------------------
LEMMA FlattenEmpty == FlattenSeq(<<>>) = <<>>
BY DEF FlattenSeq

(* FlattenSeq of sequences over S is a sequence over S.                    *)
LEMMA FlattenType ==
  ASSUME NEW S, NEW ss \in Seq(Seq(S))
  PROVE  FlattenSeq(ss) \in Seq(S)
<1>1. CASE ss = <<>>
  BY <1>1, FlattenEmpty, EmptySeq
<1>2. CASE ss # <<>>
  <2>1. PICK f \in [1..Len(ss) -> Seq(S)] : FlattenSeq(ss) = f[Len(ss)]
    BY <1>2, FlattenEquation
  <2>2. Len(ss) \in 1..Len(ss)
    BY <1>2, EmptySeq
  <2> QED
    BY ONLY <2>1, <2>2
<1> QED
  BY <1>1, <1>2

(* One more sequence at the end.                                           *)
LEMMA FlattenAppend ==
  ASSUME NEW S, NEW ss \in Seq(Seq(S)), NEW s \in Seq(S)
  PROVE  FlattenSeq(Append(ss, s)) = FlattenSeq(ss) \o s
<1> DEFINE more == Append(ss, s)
           n == Len(ss)
<1>1. /\ more \in Seq(Seq(S)) /\ more # <<>> /\ Len(more) = n + 1 /\ n \in Nat
      /\ more[n+1] = s /\ \A i \in 1..n : more[i] = ss[i]
  BY AppendProperties, LenProperties
<1> HIDE DEF more
<1>2. PICK f \in [1..n+1 -> Seq(S)] : Flattens(f, more, n+1) /\ FlattenSeq(more) = f[n+1]
  BY <1>1, FlattenEquation
<1>3. f[n+1] = IF n+1 = 1 THEN more[n+1] ELSE f[(n+1)-1] \o more[n+1]
  <2>1. n+1 \in 1..n+1
    BY <1>1
  <2> QED
    BY <1>2, <2>1 DEF Flattens
<1>4. CASE ss = <<>>
  <2>1. n = 0 /\ FlattenSeq(ss) = <<>>
    BY <1>4, FlattenEmpty
  <2>2. FlattenSeq(more) = s
    BY <1>1, <1>2, <1>3, <2>1
  <2> QED
    BY <2>1, <2>2, ConcatEmptySeq DEF more
<1>5. CASE ss # <<>>
  <2>1. n # 0
    BY <1>5, EmptySeq
  <2>2. PICK g \in [1..n -> Seq(S)] : Flattens(g, ss, n) /\ FlattenSeq(ss) = g[n]
    BY <1>5, FlattenEquation
  <2>3. Flattens(g, more, n)
    <3>1. \A i \in 1..n : g[i] = IF i = 1 THEN more[i] ELSE g[i-1] \o more[i]
      BY <1>1, <2>2 DEF Flattens
    <3> QED
      BY <3>1, <2>2 DEF Flattens
  <2>4. f[n] = g[n]
    <3> DEFINE m == n+1
    <3>1. n \in 1..m /\ n <= n /\ m \in Nat /\ n \in Nat
      BY <1>1, <2>1
    <3>2. Flattens(f, more, m) /\ Flattens(g, more, n)
      BY <1>2, <2>3
    <3> HIDE DEF n, m
    <3>3. \A i \in 1..m : i <= n => f[i] = g[i]
      BY <3>1, <3>2, FlattensAgree
    <3> QED
      BY <3>1, <3>3
  <2>5. (n+1)-1 = n /\ n+1 # 1
    BY <1>1, <2>1
  <2> QED
    BY <1>1, <1>2, <1>3, <2>2, <2>4, <2>5 DEF more
<1> QED
  BY <1>4, <1>5

(* Concatenation is associative, as one formula.                           *)
LEMMA Regroup == \A S : \A a, b, c \in Seq(S) : (a \o b) \o c = a \o (b \o c)
BY ConcatAssociative

(* Sequences of sequences one after the other.                             *)
LEMMA FlattenConcat ==
  ASSUME NEW S, NEW ss \in Seq(Seq(S)), NEW tt \in Seq(Seq(S))
  PROVE  FlattenSeq(ss \o tt) = FlattenSeq(ss) \o FlattenSeq(tt)
<1> DEFINE Holds(uu) == FlattenSeq(ss \o uu) = FlattenSeq(ss) \o FlattenSeq(uu)
           T == {k \in Nat : \A uu \in Seq(Seq(S)) : Len(uu) = k => Holds(uu)}
<1>1. 0 \in T
  <2> SUFFICES ASSUME NEW uu \in Seq(Seq(S)), Len(uu) = 0 PROVE Holds(uu)
    OBVIOUS
  <2>1. uu = <<>>
    BY EmptySeq
  <2>2. ss \o uu = ss /\ FlattenSeq(ss) \o <<>> = FlattenSeq(ss)
    BY <2>1, ConcatEmptySeq, FlattenType
  <2> QED
    BY <2>1, <2>2, FlattenEmpty
<1>2. \A k \in T : k + 1 \in T
  <2> SUFFICES ASSUME NEW k \in T, NEW uu \in Seq(Seq(S)), Len(uu) = k + 1
               PROVE  Holds(uu)
    <3>1. T \subseteq Nat
      OBVIOUS
    <3> HIDE DEF Holds
    <3> QED
      BY <3>1
  <2>1. k \in Nat /\ uu # <<>>
    BY EmptySeq
  <2>2. PICK vv \in Seq(Seq(S)), s \in Seq(S) : uu = Append(vv, s)
    BY <2>1, SequenceEmptyOrAppend
  <2>3. Len(vv) = k
    <3>1. Len(vv) \in Nat /\ Len(uu) = Len(vv) + 1
      BY <2>2, AppendProperties, LenProperties
    <3> QED
      BY <3>1, <2>1
  <2>4. FlattenSeq(ss \o vv) = FlattenSeq(ss) \o FlattenSeq(vv)
    BY <2>3
  <2> HIDE DEF T
  <2>5. ss \o uu = Append(ss \o vv, s)
    <3>1. uu = vv \o <<s>> /\ <<s>> \in Seq(Seq(S)) /\ ss \o vv \in Seq(Seq(S))
      BY <2>2, AppendIsConcat, ConcatProperties
    <3>2. ss \o uu = (ss \o vv) \o <<s>>
      BY <3>1, ConcatAssociative
    <3> QED
      BY <3>1, <3>2, AppendIsConcat
  <2>6. ss \o vv \in Seq(Seq(S))
    BY ConcatProperties
  <2>7. FlattenSeq(ss \o uu) = FlattenSeq(ss \o vv) \o s
    BY <2>5, <2>6, FlattenAppend
  <2>8. FlattenSeq(uu) = FlattenSeq(vv) \o s
    BY <2>2, FlattenAppend
  <2>9. FlattenSeq(ss) \in Seq(S) /\ FlattenSeq(vv) \in Seq(S)
    BY FlattenType
  <2>10. (FlattenSeq(ss) \o FlattenSeq(vv)) \o s = FlattenSeq(ss) \o (FlattenSeq(vv) \o s)
    BY ONLY <2>9, Regroup, SMTT(30)
  <2> QED
    BY <2>4, <2>7, <2>8, <2>10
<1>3. T = Nat
  <2> HIDE DEF T
  <2>1. T \in SUBSET Nat
    BY DEF T
  <2> QED
    BY <1>1, <1>2, <2>1, SetInduction
<1>4. Len(tt) \in T
  <2>1. Len(tt) \in Nat
    BY LenProperties
  <2> HIDE DEF T
  <2> QED
    BY <1>3, <2>1
<1> QED
  BY <1>4

(* What comes before a place, and what comes from it on.                   *)
LEMMA FlattenSplit ==
  ASSUME NEW S, NEW ss \in Seq(Seq(S)), NEW i \in 0..Len(ss)
  PROVE  /\ SubSeq(ss, 1, i) \in Seq(Seq(S)) /\ SubSeq(ss, i+1, Len(ss)) \in Seq(Seq(S))
         /\ FlattenSeq(ss) = FlattenSeq(SubSeq(ss, 1, i)) \o FlattenSeq(SubSeq(ss, i+1, Len(ss)))
<1>1. Len(ss) \in Nat /\ \A j \in 1..Len(ss) : ss[j] \in Seq(S)
  BY LenProperties, ElementOfSeq
<1>2. SubSeq(ss, 1, i) \in Seq(Seq(S)) /\ SubSeq(ss, i+1, Len(ss)) \in Seq(Seq(S))
  BY <1>1, SubSeqProperties
<1>3. ss = SubSeq(ss, 1, i) \o SubSeq(ss, i+1, Len(ss))
  <2>1. 1 \in 1..Len(ss)+1 /\ i \in 1-1..Len(ss) /\ Len(ss) \in i..Len(ss)
    BY <1>1
  <2>2. SubSeq(ss, 1, i) \o SubSeq(ss, i+1, Len(ss)) = SubSeq(ss, 1, Len(ss))
    BY <2>1, ConcatAdjacentSubSeq
  <2> QED
    BY <2>2, SubSeqFull
<1> QED
  BY <1>2, <1>3, FlattenConcat

(* Where each element is, when f says how much comes before each sequence. *)
PartsInPlace(ss, f) ==
  /\ Len(FlattenSeq(ss)) = f[Len(ss)]
  /\ \A k \in 0 .. Len(ss)-1 : \A b \in 1..Len(ss[k+1]) : FlattenSeq(ss)[f[k] + b] = ss[k+1][b]

LEMMA FlattenPlace ==
  ASSUME NEW S, NEW ss \in Seq(Seq(S)), NEW f \in [0..Len(ss) -> Nat], f[0] = 0,
         \A k \in 0 .. Len(ss)-1 : f[k+1] = f[k] + Len(ss[k+1])
  PROVE  PartsInPlace(ss, f)
<1> DEFINE Counts(uu) == \A k \in 0 .. Len(uu)-1 : f[k+1] = f[k] + Len(uu[k+1])
           Holds(uu) == Len(uu) <= Len(ss) /\ Counts(uu) => PartsInPlace(uu, f)
           All(n) == \A uu \in Seq(Seq(S)) : Len(uu) = n => Holds(uu)
           T == {n \in Nat : All(n)}
<1>0. \A i, j \in 0..Len(ss) : i <= j => f[i] <= f[j]
  <2>1. Len(ss) \in Nat
    BY LenProperties
  <2>2. \A k \in 0 .. Len(ss)-1 : f[k] <= f[k+1]
    <3> TAKE k \in 0 .. Len(ss)-1
    <3> DEFINE m == k + 1
    <3>1. m \in 1..Len(ss) /\ k \in 0..Len(ss)
      BY <2>1
    <3>2. f[m] = f[k] + Len(ss[m])
      OBVIOUS
    <3> HIDE DEF m
    <3>3. ss[m] \in Seq(S) /\ f[k] \in Nat
      BY <3>1, ElementOfSeq
    <3>4. Len(ss[m]) \in Nat
      BY <3>3, LenProperties
    <3>5. f[k] <= f[m]
      BY <3>2, <3>3, <3>4
    <3> QED
      BY <3>5 DEF m
  <2> QED
    BY <2>1, <2>2, SumsGrow
<1>1. 0 \in T
  <2> SUFFICES ASSUME NEW uu \in Seq(Seq(S)), Len(uu) = 0 PROVE PartsInPlace(uu, f)
    OBVIOUS
  <2>1. uu = <<>>
    BY EmptySeq
  <2>2. FlattenSeq(uu) = <<>> /\ Len(<<>>) = 0
    BY <2>1, FlattenEmpty
  <2> QED
    BY <2>2 DEF PartsInPlace
<1>2. \A n \in T : n + 1 \in T
  <2> SUFFICES ASSUME NEW n \in Nat, All(n) PROVE All(n+1)
    <3> HIDE DEF All
    <3> QED
      OBVIOUS
  <2> SUFFICES ASSUME NEW uu \in Seq(Seq(S)), Len(uu) = n + 1,
                      Len(uu) <= Len(ss), Counts(uu)
               PROVE  PartsInPlace(uu, f)
    <3> HIDE DEF Counts
    <3> QED
      OBVIOUS
  <2>1. uu # <<>> /\ Len(ss) \in Nat
    BY EmptySeq, LenProperties
  <2>2. PICK vv \in Seq(Seq(S)), s \in Seq(S) : uu = Append(vv, s)
    BY <2>1, SequenceEmptyOrAppend
  <2>3. /\ Len(vv) \in Nat /\ Len(uu) = Len(vv) + 1 /\ uu[Len(vv)+1] = s
        /\ \A i \in 1..Len(vv) : uu[i] = vv[i]
    BY <2>2, AppendProperties, LenProperties
  <2>4. Len(vv) = n
    BY <2>3
  <2>5. \A k \in 0..n-1 : uu[k+1] = vv[k+1]
    BY <2>3, <2>4
  <2>6. Counts(vv)
    BY <2>4, <2>5
  <2>7. PartsInPlace(vv, f)
    <3>1. Len(vv) <= Len(ss)
      BY <2>1, <2>4
    <3> HIDE DEF Counts
    <3> QED
      BY <2>4, <2>6, <3>1
  <2> DEFINE F == FlattenSeq(vv)
  <2>8. FlattenSeq(uu) = F \o s /\ F \in Seq(S)
    BY <2>2, FlattenAppend, FlattenType
  <2>9. Len(F) = f[n] /\ \A k \in 0..n-1 : \A b \in 1..Len(vv[k+1]) : F[f[k] + b] = vv[k+1][b]
    BY <2>4, <2>7 DEF PartsInPlace
  <2> HIDE DEF F
  <2>10. f[n] \in Nat /\ f[n+1] = f[n] + Len(s) /\ Len(s) \in Nat
    <3>1. n \in 0..Len(ss) /\ n \in 0..Len(uu)-1
      BY <2>1
    <3> QED
      BY <2>3, <2>4, <3>1, LenProperties
  <2>11. /\ Len(F \o s) = f[n] + Len(s)
         /\ \A i \in 1..f[n] + Len(s) : (F \o s)[i] = IF i <= f[n] THEN F[i] ELSE s[i - f[n]]
    <3> DEFINE m == Len(F)
    <3>1. F \in Seq(S) /\ s \in Seq(S)
      BY <2>8
    <3>2. /\ Len(F \o s) = m + Len(s)
          /\ \A i \in 1..m + Len(s) : (F \o s)[i] = IF i <= m THEN F[i] ELSE s[i - m]
      BY ONLY <3>1, ConcatProperties
    <3>3. m = f[n]
      BY <2>9
    <3> HIDE DEF m
    <3> QED
      BY ONLY <3>2, <3>3
  <2>12. ASSUME NEW k \in 0 .. Len(uu)-1, NEW b \in 1..Len(uu[k+1])
         PROVE  (F \o s)[f[k] + b] = uu[k+1][b]
    <3>1. k \in 0..n
      BY <2>1
    <3>2. CASE k = n
      <4>1. uu[k+1] = s /\ b \in 1..Len(s)
        BY <2>3, <2>4, <3>2
      <4> DEFINE i == f[n] + b
      <4>2. i \in 1..f[n] + Len(s) /\ ~(i <= f[n]) /\ i - f[n] = b
        <5>1. \A m, len \in Nat : \A j \in 1..len :
                m + j \in 1..m + len /\ ~(m + j <= m) /\ m + j - m = j
          BY ONLY SMT
        <5>2. f[n] \in Nat /\ Len(s) \in Nat /\ b \in 1..Len(s)
          BY <2>10, <4>1
        <5> QED
          BY ONLY <5>1, <5>2, SMTT(30) DEF i
      <4> HIDE DEF i
      <4>3. (F \o s)[i] = s[b]
        BY <2>11, <4>2
      <4> QED
        BY <3>2, <4>1, <4>3 DEF i
    <3>3. CASE k \in 0..n-1
      <4> DEFINE m == k + 1
                 i == f[k] + b
      <4>1. /\ m \in 1..Len(vv) /\ m \in 0..Len(ss) /\ n \in 0..Len(ss) /\ m <= n
            /\ k \in 0..Len(ss)
        BY <2>1, <2>4, <3>3
      <4>2. uu[m] = vv[m] /\ b \in 1..Len(vv[m]) /\ f[m] = f[k] + Len(vv[m])
        BY <2>4, <2>5, <2>6, <3>3
      <4>3. F[i] = vv[m][b]
        BY <2>9, <3>3, <4>2
      <4> HIDE DEF m
      <4>4. f[m] <= f[n] /\ f[k] \in Nat
        BY <1>0, <4>1
      <4>5. Len(vv[m]) \in Nat
        <5>1. vv[m] \in Seq(S)
          BY <4>1, ElementOfSeq
        <5> QED
          BY <5>1, LenProperties
      <4>6. i \in 1..f[n] + Len(s) /\ i <= f[n]
        <5> DEFINE before == f[k]
                   after == f[m]
                   all == f[n]
                   length == Len(vv[m])
                   rest == Len(s)
        <5>1. /\ before \in Nat /\ after \in Nat /\ all \in Nat /\ length \in Nat /\ rest \in Nat
              /\ after = before + length /\ b \in 1..length /\ after <= all
          BY <2>10, <4>1, <4>2, <4>4, <4>5
        <5> HIDE DEF before, after, all, length, rest
        <5>2. before + b \in 1..all + rest /\ before + b <= all
          BY ONLY <5>1
        <5> QED
          BY <5>2 DEF before, all, rest
      <4> HIDE DEF i
      <4>7. (F \o s)[i] = F[i]
        BY <2>11, <4>6
      <4> QED
        BY <4>2, <4>3, <4>7 DEF i, m
    <3>4. k = n \/ k \in 0..n-1
      BY <3>1
    <3> QED
      BY <3>2, <3>3, <3>4
  <2>13. Len(F \o s) = f[Len(uu)]
    BY <2>10, <2>11
  <2> QED
    BY <2>8, <2>12, <2>13 DEF PartsInPlace
<1>3. T = Nat
  <2> HIDE DEF T
  <2>1. T \in SUBSET Nat
    BY DEF T
  <2> QED
    BY <1>1, <1>2, <2>1, SetInduction
<1>4. Len(ss) \in T
  <2>1. Len(ss) \in Nat
    BY LenProperties
  <2> HIDE DEF T
  <2> QED
    BY <1>3, <2>1
<1> QED
  BY <1>4
-----------------------------------------------------------------------------
(* Taking a concatenation apart again.                                     *)
LEMMA PrefixOfConcat ==
  ASSUME NEW S, NEW s \in Seq(S), NEW t \in Seq(S)
  PROVE  SubSeq(s \o t, 1, Len(s)) = s
<1>1. Len(s) \in Nat /\ Len(t) \in Nat
  BY LenProperties
<1>2. s \o t \in Seq(S) /\ Len(s \o t) = Len(s) + Len(t)
  BY ConcatProperties
<1>3. \A i \in 1..Len(s) : (s \o t)[i] = s[i] /\ s[i] \in S
  BY <1>1, ConcatProperties, ElementOfSeq
<1> DEFINE u == SubSeq(s \o t, 1, Len(s))
<1>4. /\ u \in Seq(S) /\ Len(u) = IF 1 <= Len(s) THEN Len(s) - 1 + 1 ELSE 0
      /\ \A i \in 1 .. Len(s) - 1 + 1 : u[i] = (s \o t)[1 + i - 1]
  BY <1>1, <1>3, SubSeqProperties
<1> HIDE DEF u
<1>5. Len(u) = Len(s)
  BY <1>1, <1>4
<1>6. ASSUME NEW i \in 1..Len(s) PROVE u[i] = s[i]
  BY <1>1, <1>3, <1>4
<1>7. u = s
  BY <1>4, <1>5, <1>6, SeqEqual
<1> QED
  BY <1>7 DEF u

LEMMA SuffixOfConcat ==
  ASSUME NEW S, NEW s \in Seq(S), NEW t \in Seq(S), NEW k \in Nat
  PROVE  SubSeq(s \o t, Len(s) + k + 1, Len(s \o t)) = SubSeq(t, k + 1, Len(t))
<1>1. Len(s) \in Nat /\ Len(t) \in Nat
  BY LenProperties
<1>2. s \o t \in Seq(S) /\ Len(s \o t) = Len(s) + Len(t)
  BY ConcatProperties
<1> DEFINE m == Len(s) + k + 1
           n == Len(s) + Len(t)
<1>3. m \in Int /\ n \in Int
  BY <1>1
<1>4. CASE k < Len(t)
  <2>1. m \in Len(s)+1 .. Len(s)+Len(t) /\ n \in Len(s)+1 .. Len(s)+Len(t)
        /\ m - Len(s) = k + 1 /\ n - Len(s) = Len(t)
    BY <1>1, <1>4
  <2> HIDE DEF m, n
  <2>2. SubSeq(s \o t, m, n) = SubSeq(t, m - Len(s), n - Len(s))
    BY <2>1, SubSeqOfConcat2
  <2> QED
    BY <1>2, <2>1, <2>2 DEF m, n
<1>5. CASE k >= Len(t)
  <2>1. n < m /\ Len(t) < k + 1 /\ Len(t) \in Int /\ k + 1 \in Int
    BY <1>1, <1>5
  <2>2. SubSeq(t, k + 1, Len(t)) = <<>>
    BY <2>1, SubSeqEmpty
  <2> HIDE DEF m, n
  <2>3. SubSeq(s \o t, m, n) = <<>>
    BY <1>3, <2>1, SubSeqEmpty
  <2> QED
    BY <1>2, <2>2, <2>3 DEF m, n
<1> QED
  BY <1>1, <1>4, <1>5

(* A sequence is what comes before a place and what comes from it on.      *)
LEMMA SplitAt ==
  ASSUME NEW S, NEW s \in Seq(S), NEW k \in 0..Len(s)
  PROVE  /\ SubSeq(s, 1, k) \in Seq(S) /\ Len(SubSeq(s, 1, k)) = k
         /\ \A i \in 1..k : SubSeq(s, 1, k)[i] = s[i]
         /\ SubSeq(s, k + 1, Len(s)) \in Seq(S)
         /\ Len(SubSeq(s, k + 1, Len(s))) = Len(s) - k
         /\ s = SubSeq(s, 1, k) \o SubSeq(s, k + 1, Len(s))
<1>1. Len(s) \in Nat /\ \A i \in 1..Len(s) : s[i] \in S
  BY LenProperties, ElementOfSeq
<1>2. /\ SubSeq(s, 1, k) \in Seq(S) /\ Len(SubSeq(s, 1, k)) = k
      /\ \A i \in 1..k : SubSeq(s, 1, k)[i] = s[i]
  BY <1>1, SubSeqProperties
<1>3. SubSeq(s, k + 1, Len(s)) \in Seq(S) /\ Len(SubSeq(s, k + 1, Len(s))) = Len(s) - k
  <2> DEFINE m == k + 1
  <2>1. m \in Int /\ \A i \in m..Len(s) : s[i] \in S
    BY <1>1
  <2>2. (IF m <= Len(s) THEN Len(s) - m + 1 ELSE 0) = Len(s) - k
    BY <1>1
  <2> HIDE DEF m
  <2>3. SubSeq(s, m, Len(s)) \in Seq(S)
        /\ Len(SubSeq(s, m, Len(s))) = IF m <= Len(s) THEN Len(s) - m + 1 ELSE 0
    BY <1>1, <2>1, SubSeqProperties
  <2> QED
    BY <2>2, <2>3 DEF m
<1>4. SubSeq(s, 1, k) \o SubSeq(s, k + 1, Len(s)) = SubSeq(s, 1, Len(s))
  <2>1. 1 \in 1..Len(s)+1 /\ k \in 1-1..Len(s) /\ Len(s) \in k..Len(s)
    BY <1>1
  <2> QED
    BY <2>1, ConcatAdjacentSubSeq
<1> QED
  BY <1>2, <1>3, <1>4, SubSeqFull

(* One element passes from what comes after a place to what comes before.  *)
LEMMA TakeOne ==
  ASSUME NEW S, NEW s \in Seq(S), NEW k \in Nat, k < Len(s)
  PROVE  /\ s[k + 1] \in S
         /\ SubSeq(s, 1, k + 1) = SubSeq(s, 1, k) \o <<s[k + 1]>>
         /\ Head(SubSeq(s, k + 1, Len(s))) = s[k + 1]
         /\ Tail(SubSeq(s, k + 1, Len(s))) = SubSeq(s, (k + 1) + 1, Len(s))
<1>1. Len(s) \in Nat
  BY LenProperties
<1> DEFINE m == k + 1
<1>2. /\ m \in 1..Len(s) /\ Len(s) \in m..Len(s) /\ 1 \in 1..Len(s) /\ m - 1 = k
  BY <1>1
<1> HIDE DEF m
<1>3. s[m] \in S /\ SubSeq(s, 1, m) = SubSeq(s, 1, k) \o <<s[m]>>
  BY <1>2, ElementOfSeq, SubSeqRecursiveSecond
<1>4. Head(SubSeq(s, m, Len(s))) = s[m] /\ Tail(SubSeq(s, m, Len(s))) = SubSeq(s, m + 1, Len(s))
  BY <1>2, HeadTailOfSubSeq
<1> QED
  BY <1>2, <1>3, <1>4 DEF m

(* A concatenation, element by element.                                    *)
LEMMA Joins ==
  ASSUME NEW S, NEW s \in Seq(S), NEW t \in Seq(S), NEW r \in Seq(S),
         Len(r) = Len(s) + Len(t),
         \A i \in 1..Len(s) : r[i] = s[i],
         \A i \in 1..Len(t) : r[Len(s) + i] = t[i]
  PROVE  r = s \o t
<1>1. Len(s) \in Nat /\ Len(t) \in Nat
  BY LenProperties
<1>2. /\ s \o t \in Seq(S) /\ Len(s \o t) = Len(s) + Len(t)
      /\ \A i \in 1 .. Len(s) + Len(t) : (s \o t)[i] = IF i <= Len(s) THEN s[i] ELSE t[i - Len(s)]
  BY ConcatProperties
<1>3. ASSUME NEW i \in 1 .. Len(s) + Len(t) PROVE r[i] = (s \o t)[i]
  <2>1. CASE i <= Len(s)
    BY <1>1, <1>2, <2>1
  <2>2. CASE i > Len(s)
    <3>1. i - Len(s) \in 1..Len(t) /\ Len(s) + (i - Len(s)) = i
      BY <1>1, <2>2
    <3>2. r[Len(s) + (i - Len(s))] = t[i - Len(s)]
      BY <3>1
    <3> QED
      BY <1>1, <1>2, <2>2, <3>1, <3>2
  <2> QED
    BY <1>1, <2>1, <2>2
<1> QED
  BY <1>2, <1>3, SeqEqual

(* A part in the middle, and what follows it.                              *)
LEMMA TakePart ==
  ASSUME NEW S, NEW s \in Seq(S), NEW m \in Nat, NEW n \in Nat, m <= n, n <= Len(s)
  PROVE  /\ SubSeq(s, m + 1, n) \in Seq(S) /\ SubSeq(s, n + 1, Len(s)) \in Seq(S)
         /\ SubSeq(s, m + 1, n) \o SubSeq(s, n + 1, Len(s)) = SubSeq(s, m + 1, Len(s))
<1> DEFINE k == m + 1
<1>1. Len(s) \in Nat /\ \A i \in 1..Len(s) : s[i] \in S
  BY LenProperties, ElementOfSeq
<1>2. /\ k \in 1..Len(s)+1 /\ n \in k-1..Len(s) /\ Len(s) \in n..Len(s) /\ k \in Int
      /\ n \in 0..Len(s) /\ \A i \in k..n : s[i] \in S
  BY <1>1
<1> HIDE DEF k
<1>3. SubSeq(s, k, n) \o SubSeq(s, n + 1, Len(s)) = SubSeq(s, k, Len(s))
  BY <1>2, ConcatAdjacentSubSeq
<1>4. SubSeq(s, n + 1, Len(s)) \in Seq(S)
  BY <1>2, SplitAt
<1>5. SubSeq(s, k, n) \in Seq(S)
  BY <1>2, SubSeqProperties
<1> QED
  BY <1>3, <1>4, <1>5 DEF k

(* A concatenation of three without the second.                            *)
LEMMA CutMiddle ==
  ASSUME NEW S, NEW s \in Seq(S), NEW t \in Seq(S), NEW u \in Seq(S),
         NEW r, r = (s \o t) \o u
  PROVE  /\ Len(s) \in 0..Len(r) /\ Len(s) + Len(t) \in 0..Len(r)
         /\ Len(s) <= Len(s) + Len(t)
         /\ SubSeq(r, 1, Len(s)) = s
         /\ SubSeq(r, Len(s) + Len(t) + 1, Len(r)) = u
<1>1. Len(s) \in Nat /\ Len(t) \in Nat /\ Len(u) \in Nat
  BY LenProperties
<1> DEFINE st == s \o t
           tu == t \o u
<1>2. st \in Seq(S) /\ Len(st) = Len(s) + Len(t) /\ tu \in Seq(S)
  BY ConcatProperties
<1>3. r = s \o tu
  BY ConcatAssociative
<1>4. r = st \o u
  OBVIOUS
<1> HIDE DEF st, tu
<1>5. r \in Seq(S) /\ Len(r) = Len(st) + Len(u)
  BY <1>2, <1>4, ConcatProperties
<1>6. SubSeq(r, 1, Len(s)) = s
  BY <1>2, <1>3, PrefixOfConcat
<1>7. SubSeq(r, Len(st) + 1, Len(r)) = u
  <2>1. SubSeq(st \o u, Len(st) + 0 + 1, Len(st \o u)) = SubSeq(u, 0 + 1, Len(u))
    BY <1>2, SuffixOfConcat
  <2>2. Len(st) + 0 + 1 = Len(st) + 1
    BY <1>1, <1>2
  <2>3. SubSeq(u, 1, Len(u)) = u
    BY SubSeqFull
  <2> QED
    BY <1>4, <2>1, <2>2, <2>3
<1>8. Len(s) \in 0..Len(r) /\ Len(s) + Len(t) \in 0..Len(r) /\ Len(s) <= Len(s) + Len(t)
  BY <1>1, <1>2, <1>5
<1> QED
  BY <1>2, <1>6, <1>7, <1>8

(* A sequence and another one behind it; the elements from m to k.         *)
IsConcat(s, a, b) ==
  /\ Len(s) = Len(a) + Len(b)
  /\ \A i \in 1..Len(a) : s[i] = a[i]
  /\ \A i \in 1..Len(b) : s[Len(a) + i] = b[i]

Extracts(u, s, m, k) ==
  /\ Len(u) = k - m + 1
  /\ \A i \in 1 .. k-m+1 : u[i] = s[m + i - 1]

LEMMA ConcatIs ==
  ASSUME NEW S, NEW a \in Seq(S), NEW b \in Seq(S), NEW s, s = a \o b
  PROVE  s \in Seq(S) /\ IsConcat(s, a, b)
<1>1. /\ s \in Seq(S) /\ Len(s) = Len(a) + Len(b)
      /\ \A i \in 1 .. Len(a) + Len(b) : s[i] = IF i <= Len(a) THEN a[i] ELSE b[i - Len(a)]
  BY ConcatProperties
<1>2. Len(a) \in Nat /\ Len(b) \in Nat
  BY LenProperties
<1>3. \A i \in 1..Len(a) : i \in 1 .. Len(a) + Len(b) /\ i <= Len(a)
  BY <1>2
<1>4. \A i \in 1..Len(b) : /\ Len(a) + i \in 1 .. Len(a) + Len(b)
                           /\ ~(Len(a) + i <= Len(a)) /\ (Len(a) + i) - Len(a) = i
  BY <1>2
<1>5. \A i \in 1..Len(a) : s[i] = a[i]
  BY <1>1, <1>3
<1>6. ASSUME NEW i \in 1..Len(b) PROVE s[Len(a) + i] = b[i]
  <2>1. PICK j : j = Len(a) + i
    OBVIOUS
  <2>2. j \in 1 .. Len(a) + Len(b) /\ ~(j <= Len(a)) /\ j - Len(a) = i
    BY <1>4, <2>1
  <2>3. s[j] = b[j - Len(a)]
    BY <1>1, <2>2
  <2> QED
    BY <2>1, <2>2, <2>3
<1> QED
  BY <1>1, <1>5, <1>6 DEF IsConcat

LEMMA SubSeqIs ==
  ASSUME NEW S, NEW s \in Seq(S), NEW m \in 1 .. Len(s)+1, NEW k \in m-1 .. Len(s),
         NEW u, u = SubSeq(s, m, k)
  PROVE  u \in Seq(S) /\ Extracts(u, s, m, k)
<1>1. Len(s) \in Nat
  BY LenProperties
<1>2. \A i \in m..k : i \in 1..Len(s)
  BY <1>1
<1>3. \A i \in m..k : s[i] \in S
  BY <1>2, ElementOfSeq
<1>4. m \in Int /\ k \in Int
  BY <1>1
<1>5. /\ u \in Seq(S) /\ Len(u) = IF m <= k THEN k - m + 1 ELSE 0
      /\ \A i \in 1 .. k-m+1 : u[i] = s[m + i - 1]
  BY <1>3, <1>4, SubSeqProperties
<1> QED
  BY <1>1, <1>5 DEF Extracts

(* What is between the first element of a sequence and the last.           *)
IsBetween(t, s, first) ==
  /\ Len(s) = Len(t) + 2 /\ SubSeq(s, 1, 1) = first
  /\ SubSeq(s, 2, Len(s) - 1) = t

IsSingle(seq) == \E e : seq = <<e>>

LEMMA Between ==
  ASSUME NEW C, NEW t \in Seq(C), NEW first, NEW last, IsSingle(first), IsSingle(last),
         NEW s, s = first \o t \o last
  PROVE  IsBetween(t, s, first)
<1>1. PICK p, e : first = <<p>> /\ last = <<e>>
  BY DEF IsSingle
<1>2. PICK S : S = C \cup {p, e}
  OBVIOUS
<1>3. p \in S /\ e \in S /\ C \subseteq S
  BY <1>2
<1>4. first \in Seq(S) /\ last \in Seq(S)
  BY <1>1, <1>3
<1>5. Len(first) = 1 /\ Len(last) = 1
  BY ONLY <1>1
<1>6. t \in Seq(S) /\ Len(t) \in Nat
  BY <1>3, SeqMonotonic, LenProperties
<1>7. PICK front : front = first \o t
  OBVIOUS
<1>8. front \in Seq(S) /\ IsConcat(front, first, t)
  BY ONLY <1>4, <1>6, <1>7, ConcatIs
<1>9. s = front \o last
  BY <1>7
<1>10. s \in Seq(S) /\ IsConcat(s, front, last)
  BY ONLY <1>4, <1>8, <1>9, ConcatIs
<1>11. Len(front) = Len(t) + 1 /\ Len(s) = Len(t) + 2
  BY <1>5, <1>6, <1>8, <1>10 DEF IsConcat
<1>12. SubSeq(s, 1, 1) = first
  <2>1. PICK one, k, u : one = 1 /\ k = 1 /\ u = SubSeq(s, one, k)
    OBVIOUS
  <2>2. one \in 1 .. Len(s)+1 /\ k \in one-1 .. Len(s) /\ u = SubSeq(s, one, k)
    BY <1>6, <1>11, <2>1
  <2>3. u \in Seq(S) /\ Extracts(u, s, one, k)
    <3>1. s \in Seq(S)
      BY ONLY <1>10
    <3>2. one \in 1 .. Len(s)+1
      BY ONLY <2>2
    <3>3. k \in one-1 .. Len(s)
      BY ONLY <2>2
    <3>4. u = SubSeq(s, one, k)
      BY ONLY <2>2
    <3> QED
      BY ONLY <3>1, <3>2, <3>3, <3>4, SubSeqIs
  <2>4. Len(u) = 1 /\ u[1] = s[1]
    <3>1. /\ Len(u) = k - one + 1
          /\ \A i \in 1 .. k-one+1 : u[i] = s[one + i - 1]
      BY ONLY <2>3 DEF Extracts
    <3>2. PICK i : i = 1
      OBVIOUS
    <3>3. i \in 1 .. k-one+1 /\ one + i - 1 = i /\ k - one + 1 = 1
      BY ONLY <2>1, <3>2
    <3>4. u[i] = s[i]
      BY ONLY <3>1, <3>3
    <3> QED
      BY ONLY <3>1, <3>2, <3>3, <3>4
  <2>5. s[1] = front[1] /\ front[1] = first[1]
    BY <1>5, <1>6, <1>8, <1>10, <1>11 DEF IsConcat
  <2>6. Len(u) = Len(first) /\ \A i \in 1..Len(u) : u[i] = first[i]
    BY <1>5, <2>4, <2>5
  <2>7. u = first
    BY ONLY <1>4, <2>3, <2>6, SeqEqual
  <2> QED
    BY <2>1, <2>7
<1>13. SubSeq(s, 2, Len(s) - 1) = t
  <2>1. PICK two, k, u : two = 2 /\ k = Len(s) - 1 /\ u = SubSeq(s, two, k)
    OBVIOUS
  <2>2. two \in 1 .. Len(s)+1 /\ k \in two-1 .. Len(s)
    BY <1>6, <1>11, <2>1
  <2>3. u \in Seq(S) /\ Extracts(u, s, two, k)
    BY ONLY <1>10, <2>1, <2>2, SubSeqIs
  <2>4. Len(u) = Len(t) /\ \A i \in 1..Len(t) : u[i] = s[two + i - 1]
    BY <1>6, <1>11, <2>1, <2>3 DEF Extracts
  <2>5. ASSUME NEW i \in 1..Len(t) PROVE u[i] = t[i]
    <3>1. PICK j : j = two + i - 1
      OBVIOUS
    <3>2. j \in 1..Len(front) /\ j = Len(first) + i
      BY <1>5, <1>6, <1>11, <2>1, <3>1
    <3>3. s[j] = front[j]
      BY <1>10, <3>2 DEF IsConcat
    <3>4. front[j] = t[i]
      BY <1>8, <3>2 DEF IsConcat
    <3> QED
      BY <2>4, <3>1, <3>3, <3>4
  <2>6. u = t
    BY ONLY <1>6, <2>3, <2>4, <2>5, SeqEqual
  <2> QED
    BY <2>1, <2>6
<1> QED
  BY <1>11, <1>12, <1>13 DEF IsBetween
=============================================================================
