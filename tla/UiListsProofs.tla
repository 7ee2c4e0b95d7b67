--------------------------- MODULE UiListsProofs ----------------------------
(***************************************************************************)
(* Lemmas about the lists of the client: what InOrder and Kept yield, for  *)
(* any numbers and any list, and that a function over 0..m which is made   *)
(* by steps exists and keeps what its steps keep.                          *)
(***************************************************************************)
EXTENDS UiLists, SequencesExt, SequenceTheorems, FiniteSetTheorems, WellFoundedInduction, TLAPS

(* There is a least number in every set of them. *)
LEMMA LeastNumber ==
  ASSUME NEW T, T \subseteq Nat, T # {}
  PROVE  \E m \in T : \A k \in T : m <= k
<1> DEFINE R == OpToRel(<, Nat)
<1>1. IsWellFoundedOn(R, Nat)
  BY NatLessThanWellFounded
<1>2. \A x, y \in Nat : <<x, y>> \in R <=> x < y
  BY DEF OpToRel
<1> HIDE DEF R
<1>3. PICK m \in T : \A k \in T : <<k, m>> \notin R
  BY ONLY <1>1, T \subseteq Nat, T # {}, WFMin
<1>4. \A k \in T : m \in Nat /\ k \in Nat /\ ~ (k < m)
  BY <1>2, <1>3
<1>5. QED
  BY <1>4

LEMMA NumbersCounted ==
  ASSUME NEW n \in Nat
  PROVE  IsFiniteSet(1..n) /\ Cardinality(1..n) = n
<1>1. IsFiniteSet(1..n) /\ Cardinality(1..n) = IF 1 > n THEN 0 ELSE n - 1 + 1
  BY FS_Interval
<1>2. QED
  BY <1>1

LEMMA NumbersInOrder ==
  ASSUME NEW N \in Nat, NEW S, S \subseteq 1..N
  PROVE  /\ IsFiniteSet(S) /\ Cardinality(S) \in Nat /\ Cardinality(S) <= N
         /\ InOrder(S) \in [1..Cardinality(S) -> S]
         /\ \A x \in S : \E i \in 1..Cardinality(S) : InOrder(S)[i] = x
         /\ \A i, j \in 1..Cardinality(S) : i < j => InOrder(S)[i] < InOrder(S)[j]
<1> DEFINE upTo(x) == {y \in S : y <= x}
           rank == [x \in S |-> Cardinality(upTo(x))]
           n == Cardinality(S)
<1>1. N \in Nat /\ IsFiniteSet(1..N) /\ Cardinality(1..N) = N
  BY NumbersCounted
<1>0. \A x \in S : x \in Nat
  BY <1>1
<1>2. IsFiniteSet(S) /\ n \in Nat /\ n <= N
  BY <1>1, FS_Subset, FS_CardinalityType
<1>3. \A x \in S : /\ upTo(x) \subseteq S /\ IsFiniteSet(upTo(x))
                   /\ Cardinality(upTo(x)) \in 0..n /\ upTo(x) # {}
  <2> TAKE x \in S
  <2>1. upTo(x) \subseteq S /\ x \in upTo(x)
    BY <1>1
  <2> HIDE DEF upTo
  <2>2. IsFiniteSet(upTo(x)) /\ Cardinality(upTo(x)) \in Nat /\ Cardinality(upTo(x)) <= n
    BY <1>2, <2>1, FS_Subset, FS_CardinalityType
  <2>3. QED
    BY <1>2, <2>1, <2>2
<1>4. rank \in [S -> 1..n]
  <2>1. ASSUME NEW x \in S PROVE Cardinality(upTo(x)) \in 1..n
    <3>1. Cardinality(upTo(x)) # 0
      BY <1>3, FS_EmptySet
    <3>2. QED
      BY <1>2, <1>3, <3>1
  <2>2. QED
    BY <2>1
<1>5. ASSUME NEW x \in S, NEW y \in S, x < y PROVE rank[x] < rank[y]
  <2>1. upTo(x) \subseteq upTo(y) /\ y \in upTo(y) /\ y \notin upTo(x)
    <3>1. x \in Nat /\ y \in Nat /\ x <= y /\ ~(y <= x) /\ y <= y
      BY <1>0, <1>5
    <3>2. \A z \in S : z <= x => z <= y
      BY ONLY <1>0, <3>1
    <3>3. QED
      BY ONLY <3>1, <3>2, y \in S
  <2> HIDE DEF upTo
  <2>2. upTo(x) # upTo(y) /\ upTo(x) \in SUBSET upTo(y)
    BY <2>1
  <2>3. /\ Cardinality(upTo(x)) <= Cardinality(upTo(y))
        /\ Cardinality(upTo(x)) # Cardinality(upTo(y))
    BY <1>3, <2>2, FS_Subset
  <2>4. rank[x] = Cardinality(upTo(x)) /\ rank[y] = Cardinality(upTo(y))
    OBVIOUS
  <2>5. QED
    BY <1>2, <1>3, <2>3, <2>4
<1> HIDE DEF upTo, rank, n
<1>6. rank \in Injection(S, 1..n)
  <2>1. \A x, y \in S : rank[x] = rank[y] => x = y
    BY <1>1, <1>2, <1>4, <1>5
  <2>2. QED
    BY <1>4, <2>1 DEF Injection, IsInjective
<1>7. IsFiniteSet(1..n) /\ Cardinality(1..n) = n
  BY <1>2, NumbersCounted
<1>8. rank \in Surjection(S, 1..n)
  BY <1>2, <1>6, <1>7, FS_Injection DEF n
<1>9. \A i \in 1..n : \E x \in S : rank[x] = i
  BY <1>8 DEF Surjection
<1> DEFINE list == InOrder(S)
<1>10. list = [i \in 1..n |-> CHOOSE x \in S : Cardinality(upTo(x)) = i]
  BY DEF InOrder, upTo, n
<1>11. \A i \in 1..n : list[i] \in S /\ rank[list[i]] = i
  <2> SUFFICES ASSUME NEW i \in 1..n PROVE list[i] \in S /\ rank[list[i]] = i
    OBVIOUS
  <2>1. PICK x \in S : Cardinality(upTo(x)) = i
    BY <1>9 DEF rank
  <2>2. list[i] \in S /\ Cardinality(upTo(list[i])) = i
    BY <1>10, <2>1
  <2>3. QED
    BY <2>2 DEF rank
<1>12. list \in [1..n -> S]
  BY <1>10, <1>11
<1> HIDE DEF list
<1>13. \A i, j \in 1..n : i < j => list[i] < list[j]
  <2> SUFFICES ASSUME NEW i \in 1..n, NEW j \in 1..n, i < j PROVE list[i] < list[j]
    OBVIOUS
  <2>1. list[i] \in S /\ list[j] \in S /\ rank[list[i]] = i /\ rank[list[j]] = j
    BY <1>11
  <2>2. ~(j < i) /\ i # j
    BY <1>2
  <2>3. ~(list[j] < list[i]) /\ list[i] # list[j]
    BY ONLY <1>5, <2>1, <2>2
  <2>4. QED
    BY ONLY <1>0, <2>1, <2>3
<1>14. \A x \in S : \E i \in 1..n : list[i] = x
  <2> SUFFICES ASSUME NEW x \in S PROVE \E i \in 1..n : list[i] = x
    OBVIOUS
  <2>1. rank[x] \in 1..n
    BY <1>4
  <2>2. list[rank[x]] \in S /\ rank[list[rank[x]]] = rank[x]
    BY <1>11, <2>1
  <2>3. list[rank[x]] = x
    BY <1>6, <2>2 DEF Injection, IsInjective
  <2>4. QED
    BY <2>1, <2>3
<1>15. QED
  BY <1>2, <1>12, <1>13, <1>14 DEF list, n

(* A list without some of its elements. *)
LEMMA KeptIs ==
  ASSUME NEW X, NEW list \in Seq(X), NEW places, places \subseteq DOMAIN list
  PROVE  /\ Kept(list, places) \in Seq(X) /\ Len(Kept(list, places)) <= Len(list)
         /\ DOMAIN Kept(list, places) = DOMAIN InOrder(places)
         /\ \A n \in DOMAIN Kept(list, places) :
               InOrder(places)[n] \in places /\ Kept(list, places)[n] = list[InOrder(places)[n]]
         /\ \A m, n \in DOMAIN Kept(list, places) :
               m # n => InOrder(places)[m] # InOrder(places)[n]
         /\ \A i \in places : \E n \in DOMAIN Kept(list, places) : InOrder(places)[n] = i
<1> DEFINE order == InOrder(places)
           c == Cardinality(places)
<1>1. Len(list) \in Nat /\ places \subseteq 1..Len(list)
  OBVIOUS
<1>2. /\ c \in Nat /\ c <= Len(list) /\ order \in [1..c -> places]
      /\ \A x \in places : \E i \in 1..c : order[i] = x
      /\ \A i, j \in 1..c : i < j => order[i] < order[j]
  BY <1>1, NumbersInOrder
<1> HIDE DEF order, c
<1>3. Kept(list, places) = [n \in 1..c |-> list[order[n]]]
  BY <1>2 DEF Kept, order
<1>4. \A n \in 1..c : order[n] \in places /\ order[n] \in 1..Len(list) /\ list[order[n]] \in X
  BY <1>1, <1>2
<1>5. Kept(list, places) \in Seq(X) /\ Len(Kept(list, places)) = c
      /\ DOMAIN Kept(list, places) = 1..c /\ DOMAIN order = 1..c
  BY <1>2, <1>3, <1>4
<1>6. \A m, n \in 1..c : m # n => order[m] # order[n]
  <2> SUFFICES ASSUME NEW m \in 1..c, NEW n \in 1..c, m # n PROVE order[m] # order[n]
    OBVIOUS
  <2>1. order[m] \in Nat /\ order[n] \in Nat /\ (m < n \/ n < m)
    BY <1>2, <1>4
  <2>2. QED
    BY <1>2, <2>1
<1>7. QED
  BY <1>2, <1>3, <1>4, <1>5, <1>6 DEF order

-----------------------------------------------------------------------------
(* What swapping two elements of a sequence and removing one yield.        *)

LEMMA SwappedSeq ==
  ASSUME NEW S, NEW s \in Seq(S), NEW i \in 1 .. Len(s), i < Len(s)
  PROVE  LET new == [s EXCEPT ![i] = s[i + 1], ![i + 1] = s[i]]
         IN  /\ new \in Seq(S) /\ Len(new) = Len(s)
             /\ \A j \in 1 .. Len(s) :
                   new[j] = IF j = i THEN s[i + 1] ELSE IF j = i + 1 THEN s[i] ELSE s[j]
<1> DEFINE one == [s EXCEPT ![i] = s[i + 1]]
           new == [one EXCEPT ![i + 1] = s[i]]
<1>1. Len(s) \in Nat /\ i + 1 \in 1 .. Len(s)
  BY LenProperties
<1>2. s[i] \in S /\ s[i + 1] \in S
  BY <1>1, ElementOfSeq
<1>3. /\ one \in Seq(S) /\ Len(one) = Len(s)
      /\ \A j \in 1 .. Len(s) : one[j] = IF j = i THEN s[i + 1] ELSE s[j]
  BY <1>1, <1>2, ExceptSeq
<1> HIDE DEF one
<1>4. /\ new \in Seq(S) /\ Len(new) = Len(s)
      /\ \A j \in 1 .. Len(s) : new[j] = IF j = i + 1 THEN s[i] ELSE one[j]
  BY <1>1, <1>2, <1>3, ExceptSeq
<1> HIDE DEF new
<1>5. \A j \in 1 .. Len(s) :
         new[j] = IF j = i THEN s[i + 1] ELSE IF j = i + 1 THEN s[i] ELSE s[j]
  BY <1>1, <1>3, <1>4
<1>6. QED
  BY <1>4, <1>5 DEF new, one

LEMMA RemovedSeq ==
  ASSUME NEW S, NEW s \in Seq(S), NEW i \in 1 .. Len(s)
  PROVE  /\ RemoveAt(s, i) \in Seq(S) /\ Len(RemoveAt(s, i)) = Len(s) - 1
         /\ \A j \in 1 .. Len(s) - 1 : RemoveAt(s, i)[j] = IF j < i THEN s[j] ELSE s[j + 1]
<1> DEFINE n == Len(s)
           front == SubSeq(s, 1, i - 1)
           end == SubSeq(s, i + 1, n)
           new == front \o end
<1>1. n \in Nat /\ i \in 1 .. n
  BY LenProperties
<1>2. \A j \in 1 .. n : s[j] \in S
  BY <1>1, ElementOfSeq
<1>3. /\ front \in Seq(S) /\ Len(front) = i - 1
      /\ \A j \in 1 .. i - 1 : front[j] = s[j]
  BY <1>1, <1>2, SubSeqProperties
<1>4. /\ end \in Seq(S) /\ Len(end) = n - i
      /\ \A j \in 1 .. n - i : end[j] = s[i + j]
  <2>1. \A j \in i + 1 .. n : s[j] \in S
    BY <1>1, <1>2
  <2>2. /\ end \in Seq(S) /\ Len(end) = IF i + 1 <= n THEN n - (i + 1) + 1 ELSE 0
        /\ \A j \in 1 .. n - (i + 1) + 1 : end[j] = s[i + 1 + j - 1]
    BY <1>1, <2>1, SubSeqProperties
  <2> HIDE DEF end
  <2>3. Len(end) = n - i /\ n - (i + 1) + 1 = n - i
    BY <1>1, <2>2
  <2>4. \A j \in 1 .. n - i : i + 1 + j - 1 = i + j
    BY <1>1
  <2>5. QED
    BY <2>2, <2>3, <2>4
<1> HIDE DEF front, end
<1>5. /\ new \in Seq(S) /\ Len(new) = n - 1
      /\ \A j \in 1 .. n - 1 : new[j] = IF j <= i - 1 THEN front[j] ELSE end[j - (i - 1)]
  <2>1. /\ new \in Seq(S) /\ Len(new) = Len(front) + Len(end)
        /\ \A j \in 1 .. Len(front) + Len(end) :
              new[j] = IF j <= Len(front) THEN front[j] ELSE end[j - Len(front)]
    BY <1>3, <1>4, ConcatProperties
  <2>2. Len(front) + Len(end) = n - 1
    BY <1>1, <1>3, <1>4
  <2> HIDE DEF new
  <2>3. QED
    BY <1>3, <2>1, <2>2
<1> HIDE DEF new
<1>6. \A j \in 1 .. n - 1 : new[j] = IF j < i THEN s[j] ELSE s[j + 1]
  <2> TAKE j \in 1 .. n - 1
  <2>1. CASE j < i
    <3>1. j \in 1 .. i - 1
      BY <1>1, <2>1
    <3>2. j <= i - 1
      BY <1>1, <2>1
    <3>3. new[j] = front[j]
      BY ONLY <1>5, <3>2, j \in 1 .. n - 1
    <3>4. front[j] = s[j]
      BY ONLY <1>3, <3>1
    <3>5. QED
      BY ONLY <2>1, <3>3, <3>4
  <2>2. CASE ~(j < i)
    <3>1. j - (i - 1) \in 1 .. n - i /\ ~(j <= i - 1) /\ i + (j - (i - 1)) = j + 1
      BY <1>1, <2>2
    <3>2. new[j] = end[j - (i - 1)]
      BY <1>5, <3>1
    <3>3. end[j - (i - 1)] = s[i + (j - (i - 1))]
      BY <1>4, <3>1
    <3>4. QED
      BY <2>2, <3>1, <3>2, <3>3
  <2>3. QED
    BY <2>1, <2>2
<1>7. QED
  BY <1>5, <1>6 DEF new, front, end, RemoveAt

-----------------------------------------------------------------------------
(* What holds at first and after each step holds up to the end.            *)
LEMMA UpToTheEnd ==
  ASSUME NEW m \in Nat, NEW T, 0 \in T, \A k \in 1..m : k - 1 \in T => k \in T
  PROVE  \A k \in 0..m : k \in T
<1> DEFINE L == {k \in Nat : k <= m /\ k \notin T}
<1> SUFFICES ASSUME L # {} PROVE FALSE
  OBVIOUS
<1>1. PICK k \in L : \A j \in L : k <= j
  BY LeastNumber
<1>2. k # 0 /\ k \in 1..m
  BY <1>1
<1>3. k - 1 \in Nat /\ k - 1 <= m /\ k - 1 \notin L
  BY <1>1, <1>2
<1>4. QED
  BY <1>1, <1>2, <1>3

(* A function that is made by steps from one value to the next.            *)
StepsFrom(f, start, step, m) == f[0] = start /\ \A k \in 1..m : f[k] = step[k][f[k - 1]]

LEMMA StepByStep ==
  ASSUME NEW m \in Nat, NEW S, NEW start \in S, NEW step \in [1..m -> [S -> S]]
  PROVE  \E f \in [0..m -> S] : StepsFrom(f, start, step, m)
<1> DEFINE Made(f, n) == f[0] = start /\ \A k \in 1..n : f[k] = step[k][f[k - 1]]
           T == {n \in 0..m : \E f \in [0..n -> S] : Made(f, n)}
<1>1. 0 \in T
  <2> DEFINE f == [k \in 0..0 |-> start]
  <2>1. f \in [0..0 -> S] /\ f[0] = start
    OBVIOUS
  <2> HIDE DEF f
  <2>2. Made(f, 0)
    BY <2>1
  <2>3. 0 \in 0..m
    OBVIOUS
  <2>4. QED
    BY <2>1, <2>2, <2>3
<1>2. ASSUME NEW n \in 1..m, n - 1 \in T PROVE n \in T
  <2>1. PICK g \in [0..(n - 1) -> S] : Made(g, n - 1)
    BY <1>2
  <2> DEFINE f == [k \in 0..n |-> IF k = n THEN step[n][g[n - 1]] ELSE g[k]]
  <2>2. f \in [0..n -> S]
    OBVIOUS
  <2>3. ASSUME NEW k \in 1..n PROVE f[k] = step[k][f[k - 1]]
    <3>1. CASE k = n
      BY <3>1
    <3>2. CASE k # n
      <4>1. k \in 1..(n - 1) /\ k - 1 \in 0..(n - 1) /\ k - 1 # n
        BY <3>2
      <4>2. f[k] = g[k] /\ f[k - 1] = g[k - 1]
        BY <4>1, <3>2
      <4>3. QED
        BY <2>1, <4>1, <4>2
    <3>3. QED
      BY <3>1, <3>2
  <2>4. f[0] = start
    BY <2>1
  <2> HIDE DEF f
  <2>5. Made(f, n) /\ n \in 0..m
    BY <2>3, <2>4
  <2>6. QED
    BY <2>2, <2>5
<1> HIDE DEF T
<1>3. \A k \in 0..m : k \in T
  BY <1>1, <1>2, UpToTheEnd
<1>4. m \in 0..m
  OBVIOUS
<1>5. QED
  BY <1>3, <1>4 DEF T, StepsFrom

(* Sequences that are made of the elements of a sequence.                  *)
LEMMA SeqFacts ==
  ASSUME NEW X, NEW s \in Seq(X)
  PROVE  Len(s) \in Nat /\ DOMAIN s = 1..Len(s) /\ \A i \in DOMAIN s : s[i] \in X
OBVIOUS

LEMMA SequenceFrom ==
  ASSUME NEW X, NEW n \in Nat, NEW f \in [1..n -> X]
  PROVE  f \in Seq(X) /\ Len(f) = n /\ DOMAIN f = 1..n
OBVIOUS

LEMMA KeptTyped ==
  ASSUME NEW X, NEW list \in Seq(X), NEW places, places \subseteq DOMAIN list
  PROVE  Kept(list, places) \in Seq(X)
BY KeptIs
=============================================================================
