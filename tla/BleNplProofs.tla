---------------------------- MODULE BleNplProofs ----------------------------
(***************************************************************************)
(* Proofs about BleNpl for every finite set of events and callouts, every  *)
(* set of queues and every range of the clock: the linked lists stay       *)
(* lists, and what they hold is what the abstract service NplService says. *)
(***************************************************************************)
EXTENDS BleNpl, FiniteSetTheorems, SequenceTheorems, TLAPS

-----------------------------------------------------------------------------
(* Numbers.  A set of numbers that holds zero and with each number the     *)
(* next is all of Nat: if n were missing, what it holds below n would be   *)
(* finite and yet be mapped into itself without its zero.                  *)

LEMMA AllNumbers ==
  ASSUME NEW D \in SUBSET Nat, 0 \in D, \A n \in D : n + 1 \in D
  PROVE  D = Nat
<1> SUFFICES ASSUME NEW n \in Nat, n \notin D PROVE FALSE
  OBVIOUS
<1> DEFINE B == {m \in D : \A k \in Nat \ D : m < k}
           f == [m \in B |-> m + 1]
<1>1. 0 \in B /\ B \subseteq 0 .. n
  <2>1. \A k \in Nat \ D : 0 < k
    OBVIOUS
  <2>2. 0 \in B
    BY <2>1
  <2>3. ASSUME NEW m \in B PROVE m \in 0 .. n
    OBVIOUS
  <2> QED
    BY <2>2, <2>3
<1>2. IsFiniteSet(B)
  <2>1. IsFiniteSet(0 .. n)
    BY FS_Interval
  <2> QED
    BY <1>1, <2>1, FS_Subset
<1>3. IsFiniteSet(B \ {0}) /\ Cardinality(B \ {0}) = Cardinality(B) - 1 /\ Cardinality(B) \in Nat
  BY <1>1, <1>2, FS_RemoveElement, FS_CardinalityType
<1>4. f \in [B -> B \ {0}]
  <2> SUFFICES ASSUME NEW m \in B PROVE m + 1 \in B \ {0}
    OBVIOUS
  <2>1. m + 1 \in D /\ m + 1 # 0
    OBVIOUS
  <2>2. ASSUME NEW k \in Nat \ D PROVE m + 1 < k
    BY <2>1
  <2> QED
    BY <2>1, <2>2
<1>5. Cardinality(B \ {0}) < Cardinality(B)
  BY <1>3
<1>6. \E x, y \in B : x # y /\ f[x] = f[y]
  <2> HIDE DEF B, f
  <2> QED
    BY <1>2, <1>3, <1>4, <1>5, FS_PigeonHole
<1> QED
  BY <1>6

LEMMA LeastNumber ==
  ASSUME NEW T \in SUBSET Nat, T # {}
  PROVE  \E m \in T : \A k \in T : m <= k
<1> SUFFICES ASSUME \A m \in T : \E k \in T : k < m PROVE FALSE
  OBVIOUS
<1> DEFINE D == {n \in Nat : \A k \in T : n < k}
<1>1. 0 \in D
  <2> SUFFICES ASSUME NEW k \in T PROVE 0 < k
    OBVIOUS
  <2>1. PICK i \in T : i < k
    OBVIOUS
  <2> QED
    BY <2>1
<1>2. ASSUME NEW n \in D PROVE n + 1 \in D
  <2> SUFFICES ASSUME NEW k \in T PROVE n + 1 < k
    OBVIOUS
  <2>1. PICK i \in T : i < k
    OBVIOUS
  <2> QED
    BY <2>1
<1>3. D = Nat
  <2>1. D \in SUBSET Nat
    OBVIOUS
  <2> HIDE DEF D
  <2> QED
    BY <1>1, <1>2, <2>1, AllNumbers
<1>4. PICK t \in T : TRUE
  OBVIOUS
<1>5. t \in D
  BY <1>3
<1> QED
  BY <1>5

(* What a set of positions that goes down to the first has is a prefix.    *)
LEMMA Prefix ==
  ASSUME NEW n \in Nat, NEW P \in SUBSET (1 .. n),
         \A i \in P : \A j \in 1 .. i : j \in P
  PROVE  Cardinality(P) \in 0 .. n /\ P = 1 .. Cardinality(P)
<1> DEFINE T == {k \in Nat : k + 1 \notin P}
<1>1. n \in T
  OBVIOUS
<1>2. PICK m \in T : \A k \in T : m <= k
  <2>1. T \in SUBSET Nat /\ T # {}
    BY <1>1
  <2> HIDE DEF T
  <2> QED
    BY <2>1, LeastNumber
<1>3. m \in Nat /\ m <= n /\ m + 1 \notin P
  BY <1>1, <1>2
<1>4. P = 1 .. m
  <2>1. ASSUME NEW i \in P PROVE i \in 1 .. m
    <3>1. CASE i > m
      <4>1. m + 1 \in 1 .. i
        BY <1>3, <3>1
      <4> QED
        BY <1>3, <4>1
    <3> QED
      BY <1>3, <3>1
  <2>2. ASSUME NEW i \in 1 .. m PROVE i \in P
    <3>1. i - 1 \in Nat /\ i - 1 < m /\ (i - 1) + 1 = i
      BY <1>3
    <3>2. i - 1 \notin T
      BY <1>2, <3>1
    <3> QED
      BY <3>1, <3>2
  <2> QED
    BY <2>1, <2>2
<1>5. Cardinality(1 .. m) = m
  BY <1>3, FS_Interval
<1> QED
  BY <1>3, <1>4, <1>5

-----------------------------------------------------------------------------
(* Lists.  s is what stands in the list that begins with first.            *)

IsList(s, first, rec) ==
    /\ s \in Seq(DOMAIN rec) /\ NoRepeat(s)
    /\ first = IF s = <<>> THEN NULL ELSE s[1]
    /\ \A i \in 1 .. Len(s) : rec[s[i]].next = IF i = Len(s) THEN NULL ELSE s[i + 1]

(* One step of Walk, and what it comes to on a list.                       *)
Reach(first, rec, f, i) ==
    IF i = 0 THEN first
    ELSE LET last == f[i - 1] IN IF last = NULL THEN NULL ELSE rec[last].next

Follows(f, first, rec, N) == f = [i \in 0 .. N |-> Reach(first, rec, f, i)]

Visits(s, N) == [i \in 0 .. N |-> IF i < Len(s) THEN s[i + 1] ELSE NULL]

LEMMA Counted ==
  ASSUME NEW n \in Nat
  PROVE  Cardinality(1 .. n) = n /\ Cardinality(0 .. n - 1) = n /\ IsFiniteSet(1 .. n)
<1>1. 0 \in Int /\ 1 \in Int /\ n \in Int /\ n - 1 \in Int
  OBVIOUS
<1>2. IsFiniteSet(1 .. n) /\ Cardinality(1 .. n) = IF 1 > n THEN 0 ELSE n - 1 + 1
  BY <1>1, FS_Interval
<1>3. Cardinality(0 .. n - 1) = IF 0 > n - 1 THEN 0 ELSE n - 1 - 0 + 1
  BY <1>1, FS_Interval
<1> QED
  BY <1>2, <1>3

LEMMA ListFits ==
  ASSUME NEW D, IsFiniteSet(D), NEW s \in Seq(D), NoRepeat(s)
  PROVE  Len(s) <= Cardinality(D)
<1>1. s \in [1 .. Len(s) -> D] /\ Len(s) \in Nat
  BY LenProperties
<1>2. s \in Injection(1 .. Len(s), D)
  <2>1. \A a, b \in 1 .. Len(s) : s[a] = s[b] => a = b
    BY <1>1 DEF NoRepeat
  <2> QED
    BY <1>1, <2>1 DEF Injection, IsInjective
<1>3. Cardinality(1 .. Len(s)) = Len(s)
  BY <1>1, Counted
<1>4. Cardinality(1 .. Len(s)) <= Cardinality(D)
  BY <1>2, FS_Injection
<1> QED
  BY <1>3, <1>4

LEMMA VisitsAreReached ==
  ASSUME NEW rec, NEW first, NEW s, IsList(s, first, rec), NULL \notin DOMAIN rec, NEW N \in Nat
  PROVE  Follows(Visits(s, N), first, rec, N)
<1> DEFINE w == Visits(s, N)
<1> DEFINE n == Len(s)
<1>1. /\ n \in Nat /\ \A i \in 1 .. n : s[i] # NULL
      /\ first = IF n = 0 THEN NULL ELSE s[1]
      /\ \A i \in 1 .. n : rec[s[i]].next = IF i = n THEN NULL ELSE s[i + 1]
  BY LenProperties, EmptySeq DEF IsList
<1>2. /\ w = [i \in 0 .. N |-> w[i]]
      /\ \A i \in 0 .. N : w[i] = IF i < n THEN s[i + 1] ELSE NULL
  BY DEF Visits
<1> HIDE DEF w, n
<1> SUFFICES ASSUME NEW i \in 0 .. N PROVE w[i] = Reach(first, rec, w, i)
  BY <1>2 DEF w, Follows
<1>3. CASE i = 0
  <2>1. w[0] = IF 0 < n THEN s[1] ELSE NULL
    BY <1>2, <1>3, 0 + 1 = 1
  <2> QED
    BY <1>1, <1>3, <2>1 DEF Reach
<1>4. CASE i # 0
  <2>1. i - 1 \in 0 .. N /\ (i - 1) + 1 = i /\ i \in Nat
    BY <1>4
  <2>2. w[i - 1] = IF i - 1 < n THEN s[i] ELSE NULL
    BY <1>2, <2>1
  <2>3. Reach(first, rec, w, i) = IF w[i - 1] = NULL THEN NULL ELSE rec[w[i - 1]].next
    BY <1>4 DEF Reach
  <2>4. CASE i <= n
    <3>1. i \in 1 .. n /\ w[i - 1] = s[i] /\ s[i] # NULL
      BY <1>1, <1>4, <2>1, <2>2, <2>4
    <3>2. w[i] = IF i = n THEN NULL ELSE s[i + 1]
      BY <1>1, <1>2, <2>1, <2>4
    <3> QED
      BY <1>1, <2>3, <3>1, <3>2
  <2>5. CASE i > n
    <3>1. w[i - 1] = NULL /\ w[i] = NULL
      BY <1>1, <1>2, <2>1, <2>2, <2>5
    <3> QED
      BY <2>3, <3>1
  <2> QED
    BY <1>1, <2>1, <2>4, <2>5
<1> QED
  BY <1>3, <1>4

LEMMA ReachUnique ==
  ASSUME NEW rec, NEW first, NEW N \in Nat, NEW f, NEW g,
         Follows(f, first, rec, N), Follows(g, first, rec, N)
  PROVE  f = g
<1> DEFINE T == {i \in 0 .. N : f[i] # g[i]}
<1> SUFFICES ASSUME T # {} PROVE FALSE
  BY DEF Follows
<1>1. PICK m \in T : \A k \in T : m <= k
  <2>1. T \in SUBSET Nat
    OBVIOUS
  <2> HIDE DEF T
  <2> QED
    BY <2>1, LeastNumber
<1>2. f[m] = Reach(first, rec, f, m) /\ g[m] = Reach(first, rec, g, m) /\ m \in 0 .. N
  BY DEF Follows
<1>3. CASE m = 0
  BY <1>2, <1>3 DEF Reach
<1>4. CASE m # 0
  <2>1. m - 1 \in 0 .. N /\ ~(m <= m - 1)
    BY <1>2, <1>4
  <2>2. f[m - 1] = g[m - 1]
    BY <1>1, <2>1
  <2> QED
    BY <1>2, <1>4, <2>2 DEF Reach
<1> QED
  BY <1>3, <1>4

(* Walk finds a list as it is.                                             *)
LEMMA WalkFinds ==
  ASSUME NEW rec, NEW first, NEW s, IsList(s, first, rec),
         NULL \notin DOMAIN rec, IsFiniteSet(DOMAIN rec)
  PROVE  Walk(first, rec) = s
<1> DEFINE N == Cardinality(DOMAIN rec)
           nth == CHOOSE f : f = [i \in 0 .. N |-> Reach(first, rec, f, i)]
<1>1. N \in Nat
  BY FS_CardinalityType
<1>2. /\ s \in Seq(DOMAIN rec) /\ s \in [1 .. Len(s) -> DOMAIN rec] /\ Len(s) \in Nat /\ Len(s) <= N
  BY LenProperties, ListFits DEF IsList
<1> HIDE DEF N
<1>3. nth = Visits(s, N)
  <2>1. Follows(Visits(s, N), first, rec, N)
    BY <1>1, VisitsAreReached
  <2>2. \E f : f = [i \in 0 .. N |-> Reach(first, rec, f, i)]
    BY <2>1 DEF Follows
  <2>3. Follows(nth, first, rec, N)
    BY <2>2 DEF Follows
  <2> HIDE DEF nth
  <2> QED
    BY <1>1, <2>1, <2>3, ReachUnique
<1>4. Walk(first, rec) = [i \in 1 .. Cardinality({j \in 0 .. N : nth[j] # NULL}) |-> nth[i - 1]]
  BY DEF Walk, Reach, N
<1> HIDE DEF nth
<1>5. Cardinality({j \in 0 .. N : nth[j] # NULL}) = Len(s)
  <2>1. {j \in 0 .. N : nth[j] # NULL} = 0 .. Len(s) - 1
    BY <1>1, <1>2, <1>3 DEF Visits
  <2> QED
    BY <1>2, <2>1, Counted
<1>6. ASSUME NEW i \in 1 .. Len(s) PROVE nth[i - 1] = s[i]
  BY <1>1, <1>2, <1>3 DEF Visits
<1> QED
  BY <1>2, <1>4, <1>5, <1>6

(* A list, position by position.                                           *)
LEMMA ListUnfold ==
  ASSUME NEW rec, NEW first, NEW s, IsList(s, first, rec), NEW n, n = Len(s)
  PROVE  /\ n \in Nat /\ s \in Seq(DOMAIN rec) /\ (s = <<>> <=> n = 0)
         /\ DOMAIN s = 1 .. n
         /\ \A i \in 1 .. n : s[i] \in DOMAIN rec
         /\ \A i, j \in 1 .. n : s[i] = s[j] => i = j
         /\ first = IF n = 0 THEN NULL ELSE s[1]
         /\ \A i \in 1 .. n : rec[s[i]].next = IF i = n THEN NULL ELSE s[i + 1]
<1>1. s \in Seq(DOMAIN rec)
  BY DEF IsList
<1>2. n \in Nat /\ (s = <<>> <=> n = 0) /\ DOMAIN s = 1 .. n
  BY <1>1, LenProperties, EmptySeq
<1>3. \A i \in 1 .. n : s[i] \in DOMAIN rec
  BY <1>1, ElementOfSeq
<1> QED
  BY <1>1, <1>2, <1>3 DEF IsList, NoRepeat

LEMMA ListFold ==
  ASSUME NEW rec, NEW first, NEW n \in Nat, NEW s \in Seq(DOMAIN rec), Len(s) = n,
         \A i, j \in 1 .. n : s[i] = s[j] => i = j,
         first = IF n = 0 THEN NULL ELSE s[1],
         \A i \in 1 .. n : rec[s[i]].next = IF i = n THEN NULL ELSE s[i + 1]
  PROVE  IsList(s, first, rec)
<1>1. DOMAIN s = 1 .. n /\ (s = <<>> <=> n = 0)
  BY LenProperties, EmptySeq
<1> QED
  BY <1>1 DEF IsList, NoRepeat

Has(s, e) == \E i \in 1 .. Len(s) : s[i] = e

(* Nothing on the list has changed its place.                              *)
LEMMA ListStays ==
  ASSUME NEW rec, NEW first, NEW s, IsList(s, first, rec),
         NEW rec2, DOMAIN rec2 = DOMAIN rec,
         \A e \in DOMAIN rec : Has(s, e) => rec2[e].next = rec[e].next
  PROVE  IsList(s, first, rec2)
<1> DEFINE n == Len(s)
<1>1. /\ n \in Nat /\ s \in Seq(DOMAIN rec2)
      /\ \A i, j \in 1 .. n : s[i] = s[j] => i = j
      /\ first = IF n = 0 THEN NULL ELSE s[1]
  BY ListUnfold
<1>2. \A i \in 1 .. n : rec2[s[i]].next = IF i = n THEN NULL ELSE s[i + 1]
  <2> SUFFICES ASSUME NEW i \in 1 .. n PROVE rec2[s[i]].next = rec[s[i]].next
    BY ListUnfold
  <2>1. s[i] \in DOMAIN rec /\ Has(s, s[i])
    BY ListUnfold DEF Has
  <2> QED
    BY <2>1
<1> HIDE DEF n
<1> QED
  BY <1>1, <1>2, ListFold DEF n

LEMMA ListAppends ==
  ASSUME NEW rec, NEW first, NEW s, IsList(s, first, rec),
         NEW rec2, DOMAIN rec2 = DOMAIN rec,
         NEW e \in DOMAIN rec, ~Has(s, e), rec2[e].next = NULL,
         \A d \in DOMAIN rec : Has(s, d) =>
             rec2[d].next = IF d = s[Len(s)] THEN e ELSE rec[d].next
  PROVE  IsList(Append(s, e), IF s = <<>> THEN e ELSE first, rec2)
<1> DEFINE n == Len(s)
           t == Append(s, e)
           m == n + 1
<1>1. /\ n \in Nat /\ s \in Seq(DOMAIN rec) /\ (s = <<>> <=> n = 0)
      /\ \A i \in 1 .. n : s[i] \in DOMAIN rec
      /\ \A i, j \in 1 .. n : s[i] = s[j] => i = j
      /\ first = IF n = 0 THEN NULL ELSE s[1]
      /\ \A i \in 1 .. n : rec[s[i]].next = IF i = n THEN NULL ELSE s[i + 1]
  BY SMTT(30), ListUnfold
<1>2. /\ t \in Seq(DOMAIN rec2) /\ Len(t) = m
      /\ \A i \in 1 .. n : t[i] = s[i]
      /\ t[m] = e
  BY <1>1, AppendProperties
<1>3. \A i \in 1 .. n : s[i] # e /\ rec2[s[i]].next = IF s[i] = s[n] THEN e ELSE rec[s[i]].next
  <2> SUFFICES ASSUME NEW i \in 1 .. n PROVE s[i] # e /\ rec2[s[i]].next = IF s[i] = s[n] THEN e ELSE rec[s[i]].next
    OBVIOUS
  <2>1. Has(s, s[i]) /\ s[i] \in DOMAIN rec
    BY <1>1 DEF Has
  <2> QED
    BY <2>1
<1> HIDE DEF n, t
<1>4. \A i, j \in 1 .. m : t[i] = t[j] => i = j
  <2> SUFFICES ASSUME NEW i \in 1 .. m, NEW j \in 1 .. m, t[i] = t[j] PROVE i = j
    OBVIOUS
  <2>1. i \in 1 .. n \/ i = m
    BY <1>1
  <2>2. j \in 1 .. n \/ j = m
    BY <1>1
  <2> QED
    BY <1>1, <1>2, <1>3, <2>1, <2>2
<1>5. (IF s = <<>> THEN e ELSE first) = IF m = 0 THEN NULL ELSE t[1]
  <2>1. CASE n = 0
    BY <1>1, <1>2, <2>1
  <2>2. CASE n # 0
    <3>1. 1 \in 1 .. n /\ m # 0
      BY <1>1, <2>2
    <3> QED
      BY <1>1, <1>2, <2>2, <3>1
  <2> QED
    BY <2>1, <2>2
<1>6. \A i \in 1 .. m : rec2[t[i]].next = IF i = m THEN NULL ELSE t[i + 1]
  <2> SUFFICES ASSUME NEW i \in 1 .. m PROVE rec2[t[i]].next = IF i = m THEN NULL ELSE t[i + 1]
    OBVIOUS
  <2>1. CASE i = m
    BY <1>2, <2>1
  <2>2. CASE i = n /\ n > 0
    <3>1. i \in 1 .. n /\ i + 1 = m /\ i # m
      BY <1>1, <2>2
    <3> QED
      BY <1>2, <1>3, <2>2, <3>1
  <2>3. CASE i \in 1 .. n /\ i # n
    <3>1. i + 1 \in 1 .. n /\ i # m /\ n \in 1 .. n
      BY <1>1, <2>3
    <3>2. s[i] # s[n]
      BY <1>1, <2>3, <3>1
    <3>3. rec2[s[i]].next = s[i + 1]
      BY <1>1, <1>3, <2>3, <3>2
    <3> QED
      BY <1>2, <2>3, <3>1, <3>3
  <2> QED
    BY <1>1, <2>1, <2>2, <2>3
<1>7. m \in Nat
  BY <1>1
<1> HIDE DEF m
<1> QED
  BY <1>2, <1>4, <1>5, <1>6, <1>7, ListFold DEF t

(* A sequence without its element i, and with e behind its first k.        *)
Cut(s, i) == SubSeq(s, 1, i - 1) \o SubSeq(s, i + 1, Len(s))
Insert(s, k, e) == SubSeq(s, 1, k) \o Append(<<>>, e) \o SubSeq(s, k + 1, Len(s))

LEMMA PartOf ==
  ASSUME NEW D, NEW s \in Seq(D), NEW a \in 1 .. Len(s) + 1, NEW b \in 0 .. Len(s), a <= b + 1
  PROVE  /\ SubSeq(s, a, b) \in Seq(D) /\ Len(SubSeq(s, a, b)) = b - a + 1
         /\ \A j \in 1 .. b - a + 1 : SubSeq(s, a, b)[j] = s[a + j - 1]
<1>1. Len(s) \in Nat /\ a \in Int /\ b \in Int
  BY LenProperties
<1>2. \A j \in a .. b : s[j] \in D
  <2> SUFFICES ASSUME NEW j \in a .. b PROVE j \in 1 .. Len(s)
    BY ElementOfSeq
  <2> QED
    BY <1>1
<1> QED
  BY <1>1, <1>2, SubSeqProperties

LEMMA CutFacts ==
  ASSUME NEW D, NEW s \in Seq(D), NEW n \in Nat, n = Len(s), NEW i \in 1 .. n
  PROVE  /\ Cut(s, i) \in Seq(D) /\ Len(Cut(s, i)) = n - 1
         /\ \A j \in 1 .. n - 1 : Cut(s, i)[j] = IF j < i THEN s[j] ELSE s[j + 1]
<1> DEFINE u == SubSeq(s, 1, i - 1)
           v == SubSeq(s, i + 1, n)
<1>1. /\ u \in Seq(D) /\ Len(u) = i - 1
      /\ \A j \in 1 .. i - 1 : u[j] = s[j]
  <2>1. 1 \in 1 .. n + 1 /\ i - 1 \in 0 .. n /\ 1 <= (i - 1) + 1 /\ (i - 1) - 1 + 1 = i - 1
    OBVIOUS
  <2>2. \A j \in 1 .. i - 1 : 1 + j - 1 = j
    OBVIOUS
  <2> QED
    BY <2>1, <2>2, PartOf
<1>2. /\ v \in Seq(D) /\ Len(v) = n - i
      /\ \A j \in 1 .. n - i : v[j] = s[i + j]
  <2>1. i + 1 \in 1 .. n + 1 /\ n \in 0 .. n /\ i + 1 <= n + 1 /\ n - (i + 1) + 1 = n - i
    OBVIOUS
  <2>2. \A j \in 1 .. n - i : (i + 1) + j - 1 = i + j
    OBVIOUS
  <2> QED
    BY <2>1, <2>2, PartOf
<1> HIDE DEF u, v
<1>3. /\ u \o v \in Seq(D) /\ Len(u \o v) = (i - 1) + (n - i)
      /\ \A j \in 1 .. (i - 1) + (n - i) : (u \o v)[j] = IF j <= i - 1 THEN u[j] ELSE v[j - (i - 1)]
  <2>1. u \in Seq(D) /\ v \in Seq(D) /\ Len(u) = i - 1 /\ Len(v) = n - i
    BY <1>1, <1>2
  <2>2. /\ u \o v \in Seq(D) /\ Len(u \o v) = Len(u) + Len(v)
        /\ \A j \in 1 .. Len(u) + Len(v) :
              (u \o v)[j] = IF j <= Len(u) THEN u[j] ELSE v[j - Len(u)]
    BY <2>1, ConcatProperties
  <2> QED
    BY <2>1, <2>2
<1>4. (i - 1) + (n - i) = n - 1
  OBVIOUS
<1>5. ASSUME NEW j \in 1 .. n - 1
      PROVE  (u \o v)[j] = IF j < i THEN s[j] ELSE s[j + 1]
  <2>1. CASE j < i
    <3>1. j \in 1 .. i - 1 /\ j <= i - 1
      BY <2>1
    <3> QED
      BY <1>1, <1>3, <1>4, <2>1, <3>1
  <2>2. CASE ~(j < i)
    <3>1. j - (i - 1) \in 1 .. n - i /\ ~(j <= i - 1) /\ i + (j - (i - 1)) = j + 1
      BY <2>2
    <3> QED
      BY <1>2, <1>3, <1>4, <2>2, <3>1
  <2> QED
    BY <2>1, <2>2
<1> QED
  BY <1>3, <1>4, <1>5 DEF Cut, u, v

LEMMA InsertFacts ==
  ASSUME NEW D, NEW s \in Seq(D), NEW k \in 0 .. Len(s), NEW e \in D
  PROVE  /\ Insert(s, k, e) \in Seq(D) /\ Len(Insert(s, k, e)) = Len(s) + 1
         /\ \A j \in 1 .. Len(s) + 1 : Insert(s, k, e)[j] = IF j <= k THEN s[j] ELSE IF j = k + 1 THEN e ELSE s[j - 1]
<1> DEFINE n == Len(s)
           u == SubSeq(s, 1, k)
           w == Append(<<>>, e)
           v == SubSeq(s, k + 1, n)
<1>0. n \in Nat /\ n = Len(s) /\ k \in 0 .. n
  BY LenProperties
<1> HIDE DEF n
<1>1. /\ u \in Seq(D) /\ Len(u) = k
      /\ \A j \in 1 .. k : u[j] = s[j]
  <2>1. 1 \in 1 .. n + 1 /\ k \in 0 .. n /\ 1 <= k + 1 /\ k - 1 + 1 = k
    BY <1>0
  <2>2. \A j \in 1 .. k : 1 + j - 1 = j
    BY <1>0
  <2> QED
    BY <1>0, <2>1, <2>2, PartOf
<1>2. /\ v \in Seq(D) /\ Len(v) = n - k
      /\ \A j \in 1 .. n - k : v[j] = s[k + j]
  <2>1. k + 1 \in 1 .. n + 1 /\ n \in 0 .. n /\ k + 1 <= n + 1 /\ n - (k + 1) + 1 = n - k
    BY <1>0
  <2>2. \A j \in 1 .. n - k : (k + 1) + j - 1 = k + j
    BY <1>0
  <2> QED
    BY <1>0, <2>1, <2>2, PartOf
<1>3. w \in Seq(D) /\ Len(w) = 1 /\ w[1] = e
  <2>1. <<>> \in Seq(D) /\ Len(<<>>) = 0
    BY EmptySeq
  <2> QED
    BY <2>1, AppendProperties
<1> HIDE DEF u, v, w
<1>4. /\ u \o w \in Seq(D) /\ Len(u \o w) = k + 1
      /\ \A j \in 1 .. k + 1 : (u \o w)[j] = IF j <= k THEN u[j] ELSE w[j - k]
  <2>1. u \in Seq(D) /\ w \in Seq(D) /\ Len(u) = k /\ Len(w) = 1
    BY <1>1, <1>3
  <2>2. /\ u \o w \in Seq(D) /\ Len(u \o w) = Len(u) + Len(w)
        /\ \A j \in 1 .. Len(u) + Len(w) :
              (u \o w)[j] = IF j <= Len(u) THEN u[j] ELSE w[j - Len(u)]
    BY <2>1, ConcatProperties
  <2> QED
    BY <2>1, <2>2
<1>5. /\ u \o w \o v \in Seq(D) /\ Len(u \o w \o v) = (k + 1) + (n - k)
      /\ \A j \in 1 .. (k + 1) + (n - k) :
            (u \o w \o v)[j] = IF j <= k + 1 THEN (u \o w)[j] ELSE v[j - (k + 1)]
  <2> DEFINE x == u \o w
  <2>1. x \in Seq(D) /\ v \in Seq(D) /\ Len(x) = k + 1 /\ Len(v) = n - k
    BY <1>2, <1>4
  <2> HIDE DEF x
  <2>2. /\ x \o v \in Seq(D) /\ Len(x \o v) = Len(x) + Len(v)
        /\ \A j \in 1 .. Len(x) + Len(v) :
              (x \o v)[j] = IF j <= Len(x) THEN x[j] ELSE v[j - Len(x)]
    BY <2>1, ConcatProperties
  <2>3. /\ x \o v \in Seq(D) /\ Len(x \o v) = (k + 1) + (n - k)
        /\ \A j \in 1 .. (k + 1) + (n - k) :
              (x \o v)[j] = IF j <= k + 1 THEN x[j] ELSE v[j - (k + 1)]
    BY <2>1, <2>2
  <2> QED
    BY <2>3 DEF x
<1>6. (k + 1) + (n - k) = n + 1
  BY <1>0
<1>7. ASSUME NEW j \in 1 .. n + 1
      PROVE  (u \o w \o v)[j] = IF j <= k THEN s[j] ELSE IF j = k + 1 THEN e ELSE s[j - 1]
  <2>1. CASE j <= k
    <3>1. j \in 1 .. k /\ j <= k + 1 /\ j \in 1 .. k + 1
      BY <1>0, <2>1
    <3> QED
      BY <1>1, <1>4, <1>5, <1>6, <2>1, <3>1
  <2>2. CASE j = k + 1
    <3>1. j - k = 1 /\ ~(j <= k) /\ j \in 1 .. k + 1 /\ j <= k + 1
      BY <1>0, <2>2
    <3> QED
      BY <1>3, <1>4, <1>5, <1>6, <2>2, <3>1
  <2>3. CASE j > k + 1
    <3>1. j - (k + 1) \in 1 .. n - k /\ ~(j <= k + 1) /\ ~(j <= k) /\ j # k + 1 /\ k + (j - (k + 1)) = j - 1
      BY <1>0, <2>3
    <3> QED
      BY <1>2, <1>5, <1>6, <2>3, <3>1
  <2>4. j <= k \/ j = k + 1 \/ j > k + 1
    BY <1>0
  <2> QED
    BY <2>1, <2>2, <2>3, <2>4
<1> QED
  BY <1>5, <1>6, <1>7 DEF Insert, u, v, w, n

(* An element is taken out: the one before it leads on to the one after.   *)
LEMMA ListCuts ==
  ASSUME NEW rec, NEW first, NEW s, IsList(s, first, rec),
         NEW rec2, DOMAIN rec2 = DOMAIN rec, NEW i \in 1 .. Len(s),
         \A d \in DOMAIN rec : Has(s, d) /\ d # s[i] =>
             rec2[d].next = IF i > 1 /\ d = s[i - 1] THEN rec[s[i]].next ELSE rec[d].next
  PROVE  IsList(Cut(s, i), IF i = 1 THEN rec[s[i]].next ELSE first, rec2)
<1> DEFINE n == Len(s)
           t == Cut(s, i)
           m == n - 1
<1>1. /\ n \in Nat /\ s \in Seq(DOMAIN rec)
      /\ \A j \in 1 .. n : s[j] \in DOMAIN rec
      /\ \A j, k \in 1 .. n : s[j] = s[k] => j = k
      /\ first = IF n = 0 THEN NULL ELSE s[1]
      /\ \A j \in 1 .. n : rec[s[j]].next = IF j = n THEN NULL ELSE s[j + 1]
      /\ i \in 1 .. n
  <2>1. i \in 1 .. n
    OBVIOUS
  <2> HIDE DEF n
  <2> QED
    BY <2>1, ListUnfold DEF n
<1>2. /\ t \in Seq(DOMAIN rec2) /\ Len(t) = m
      /\ \A j \in 1 .. m : t[j] = IF j < i THEN s[j] ELSE s[j + 1]
  BY <1>1, CutFacts
<1>3. \A j \in 1 .. n : j # i =>
          rec2[s[j]].next = IF i > 1 /\ j = i - 1 THEN rec[s[i]].next ELSE rec[s[j]].next
  <2> SUFFICES ASSUME NEW j \in 1 .. n, j # i
               PROVE  rec2[s[j]].next = IF i > 1 /\ j = i - 1 THEN rec[s[i]].next ELSE rec[s[j]].next
    OBVIOUS
  <2>1. Has(s, s[j]) /\ s[j] \in DOMAIN rec /\ s[j] # s[i]
    BY <1>1 DEF Has
  <2>2. i > 1 => i - 1 \in 1 .. n
    BY <1>1
  <2>3. i > 1 => (s[j] = s[i - 1] <=> j = i - 1)
    BY <1>1, <2>2
  <2> QED
    BY <2>1, <2>3
<1> HIDE DEF n, t
<1>4. \A j, k \in 1 .. m : t[j] = t[k] => j = k
  <2> SUFFICES ASSUME NEW j \in 1 .. m, NEW k \in 1 .. m, t[j] = t[k] PROVE j = k
    OBVIOUS
  <2>1. j \in 1 .. n /\ k \in 1 .. n /\ j + 1 \in 1 .. n /\ k + 1 \in 1 .. n /\ j \in Int /\ k \in Int
    BY <1>1
  <2> QED
    BY SMTT(30), <1>1, <1>2, <2>1
<1>5. (IF i = 1 THEN rec[s[i]].next ELSE first) = IF m = 0 THEN NULL ELSE t[1]
  <2>1. CASE m = 0
    BY <1>1, <2>1
  <2>2. CASE m # 0
    <3>1. 1 \in 1 .. m /\ n # 0 /\ 1 \in 1 .. n
      BY <1>1, <2>2
    <3>2. t[1] = IF 1 < i THEN s[1] ELSE s[1 + 1]
      BY <1>2, <3>1
    <3>3. CASE i = 1
      BY <1>1, <2>2, <3>1, <3>2, <3>3
    <3>4. CASE i # 1
      BY <1>1, <2>2, <3>1, <3>2, <3>4
    <3> QED
      BY <3>3, <3>4
  <2> QED
    BY <2>1, <2>2
<1>6. \A j \in 1 .. m : rec2[t[j]].next = IF j = m THEN NULL ELSE t[j + 1]
  <2> SUFFICES ASSUME NEW j \in 1 .. m PROVE rec2[t[j]].next = IF j = m THEN NULL ELSE t[j + 1]
    OBVIOUS
  <2>1. j \in Int /\ j \in 1 .. n /\ j + 1 \in 1 .. n /\ n \in Nat /\ i \in Int
    BY <1>1
  <2>2. j # m => j + 1 \in 1 .. m /\ (j + 1) + 1 \in 1 .. n
    BY <1>1
  <2>3. CASE j < i - 1
    <3>1. j < i /\ j # i /\ j # i - 1 /\ j + 1 < i /\ j # m /\ j # n
      BY <1>1, <2>3
    <3>2. t[j] = s[j] /\ t[j + 1] = s[j + 1]
      BY <1>2, <2>2, <3>1
    <3>3. rec2[s[j]].next = rec[s[j]].next
      BY <1>3, <2>1, <3>1
    <3> QED
      BY <1>1, <2>1, <3>1, <3>2, <3>3
  <2>4. CASE j = i - 1
    <3>1. j < i /\ j # i /\ i > 1 /\ ~(j + 1 < i) /\ (j = m <=> i = n) /\ (j + 1) + 1 = i + 1
      BY <1>1, <2>4
    <3>2. t[j] = s[j] /\ rec2[s[j]].next = rec[s[i]].next
      BY <1>2, <1>3, <2>1, <2>4, <3>1
    <3> QED
      BY <1>1, <1>2, <2>2, <3>1, <3>2
  <2>5. CASE j >= i
    <3>1. ~(j < i) /\ j + 1 # i /\ j + 1 # i - 1 /\ ~(j + 1 < i) /\ (j = m <=> j + 1 = n)
      BY <1>1, <2>5
    <3>2. t[j] = s[j + 1] /\ rec2[s[j + 1]].next = rec[s[j + 1]].next
      BY <1>2, <1>3, <2>1, <3>1
    <3> QED
      BY <1>1, <1>2, <2>1, <2>2, <3>1, <3>2
  <2> QED
    BY <2>1, <2>3, <2>4, <2>5
<1>7. m \in Nat
  BY <1>1
<1> HIDE DEF m
<1> QED
  BY <1>2, <1>4, <1>5, <1>6, <1>7, ListFold DEF t

(* An element is put in: it leads on to what was behind the k-th.          *)
LEMMA ListInserts ==
  ASSUME NEW rec, NEW first, NEW s, IsList(s, first, rec),
         NEW rec2, DOMAIN rec2 = DOMAIN rec, NEW k \in 0 .. Len(s),
         NEW e \in DOMAIN rec, ~Has(s, e),
         rec2[e].next = IF k = Len(s) THEN NULL ELSE s[k + 1],
         \A d \in DOMAIN rec : Has(s, d) =>
             rec2[d].next = IF k > 0 /\ d = s[k] THEN e ELSE rec[d].next
  PROVE  IsList(Insert(s, k, e), IF k = 0 THEN e ELSE first, rec2)
<1> DEFINE n == Len(s)
           t == Insert(s, k, e)
           m == n + 1
<1>1. /\ n \in Nat /\ s \in Seq(DOMAIN rec)
      /\ \A j \in 1 .. n : s[j] \in DOMAIN rec
      /\ \A i, j \in 1 .. n : s[i] = s[j] => i = j
      /\ first = IF n = 0 THEN NULL ELSE s[1]
      /\ \A j \in 1 .. n : rec[s[j]].next = IF j = n THEN NULL ELSE s[j + 1]
      /\ k \in 0 .. n /\ rec2[e].next = IF k = n THEN NULL ELSE s[k + 1]
  <2>1. k \in 0 .. n /\ rec2[e].next = IF k = n THEN NULL ELSE s[k + 1]
    OBVIOUS
  <2> HIDE DEF n
  <2> QED
    BY <2>1, ListUnfold DEF n
<1>2. /\ t \in Seq(DOMAIN rec2) /\ Len(t) = m
      /\ \A j \in 1 .. m : t[j] = IF j <= k THEN s[j] ELSE IF j = k + 1 THEN e ELSE s[j - 1]
  <2>1. Len(s) \in Nat /\ k \in 0 .. Len(s)
    BY <1>1
  <2>2. /\ Insert(s, k, e) \in Seq(DOMAIN rec) /\ Len(Insert(s, k, e)) = n + 1
        /\ \A j \in 1 .. n + 1 :
              Insert(s, k, e)[j] = IF j <= k THEN s[j] ELSE IF j = k + 1 THEN e ELSE s[j - 1]
    BY <1>1, <2>1, InsertFacts
  <2> QED
    BY <2>1, <2>2
<1>3. \A j \in 1 .. n : /\ s[j] # e
                        /\ rec2[s[j]].next = IF k > 0 /\ j = k THEN e ELSE rec[s[j]].next
  <2> SUFFICES ASSUME NEW j \in 1 .. n
               PROVE  s[j] # e /\ rec2[s[j]].next = IF k > 0 /\ j = k THEN e ELSE rec[s[j]].next
    OBVIOUS
  <2>1. Has(s, s[j]) /\ s[j] \in DOMAIN rec
    BY <1>1 DEF Has
  <2>2. k > 0 => k \in 1 .. n
    BY <1>1
  <2>3. k > 0 => (s[j] = s[k] <=> j = k)
    BY <1>1, <2>2
  <2> QED
    BY <2>1, <2>3
<1> HIDE DEF n, t
<1>4. \A i, j \in 1 .. m : t[i] = t[j] => i = j
  <2> SUFFICES ASSUME NEW i \in 1 .. m, NEW j \in 1 .. m, t[i] = t[j] PROVE i = j
    OBVIOUS
  <2>1. /\ i \in Int /\ j \in Int /\ k \in Int
        /\ i <= k => i \in 1 .. n
        /\ i > k + 1 => i - 1 \in 1 .. n
        /\ j <= k => j \in 1 .. n
        /\ j > k + 1 => j - 1 \in 1 .. n
    <3>1. n \in Nat /\ k \in 0 .. n /\ m = n + 1
      BY <1>1
    <3> HIDE DEF m
    <3>2. i \in 1 .. n + 1 /\ j \in 1 .. n + 1
      BY <3>1
    <3> QED
      BY <3>1, <3>2
  <2>2. t[i] = IF i <= k THEN s[i] ELSE IF i = k + 1 THEN e ELSE s[i - 1]
    BY <1>2
  <2>3. t[j] = IF j <= k THEN s[j] ELSE IF j = k + 1 THEN e ELSE s[j - 1]
    BY <1>2
  <2> DEFINE a == IF i <= k THEN i ELSE i - 1
             b == IF j <= k THEN j ELSE j - 1
  <2>4. ASSUME i # k + 1 PROVE a \in 1 .. n /\ t[i] = s[a]
    BY <2>1, <2>2, <2>4
  <2>5. ASSUME j # k + 1 PROVE b \in 1 .. n /\ t[j] = s[b]
    BY <2>1, <2>3, <2>5
  <2>6. ASSUME i # k + 1, j # k + 1, a = b PROVE i = j
    BY <2>1, <2>6
  <2>7. ~(k + 1 <= k) /\ (i = k + 1 => t[i] = e) /\ (j = k + 1 => t[j] = e)
    <3>1. ~(k + 1 <= k)
      BY <2>1
    <3> QED
      BY <2>2, <2>3, <3>1
  <2> HIDE DEF a, b
  <2> QED
    BY <1>1, <1>3, <2>4, <2>5, <2>6, <2>7
<1>5. (IF k = 0 THEN e ELSE first) = IF m = 0 THEN NULL ELSE t[1]
  <2>1. 1 \in 1 .. m /\ m # 0 /\ k \in Int
    BY <1>1
  <2>2. CASE k = 0
    BY <1>2, <2>1, <2>2
  <2>3. CASE k # 0
    <3>1. 1 <= k /\ n # 0
      BY <1>1, <2>3
    <3> QED
      BY <1>1, <1>2, <2>1, <2>3, <3>1
  <2> QED
    BY <2>2, <2>3
<1>6. \A j \in 1 .. m : rec2[t[j]].next = IF j = m THEN NULL ELSE t[j + 1]
  <2> SUFFICES ASSUME NEW j \in 1 .. m PROVE rec2[t[j]].next = IF j = m THEN NULL ELSE t[j + 1]
    OBVIOUS
  <2>1. j \in Int /\ k \in Int /\ n \in Nat
    BY <1>1
  <2>2. j # m => j + 1 \in 1 .. m
    BY <1>1
  <2>3. CASE j < k
    <3>1. j <= k /\ j + 1 <= k /\ j # m /\ j # n /\ j \in 1 .. n /\ j # k
      BY <1>1, <2>3
    <3>2. t[j] = s[j] /\ t[j + 1] = s[j + 1]
      BY <1>2, <2>2, <3>1
    <3> QED
      BY <1>1, <1>3, <3>1, <3>2
  <2>4. CASE j = k
    <3>1. k > 0 /\ j <= k /\ ~(j + 1 <= k) /\ j + 1 = k + 1 /\ j # m /\ j \in 1 .. n
      BY <1>1, <2>4
    <3>2. t[j] = s[j] /\ t[j + 1] = e
      BY <1>2, <2>2, <3>1
    <3> QED
      BY <1>3, <2>4, <3>1, <3>2
  <2>5. CASE j = k + 1
    <3>1. ~(j <= k) /\ (j = m <=> k = n)
      BY <1>1, <2>5
    <3>2. t[j] = e
      BY <1>2, <2>5, <3>1
    <3>3. j # m => t[j + 1] = s[k + 1]
      <4>1. ~(j + 1 <= k) /\ j + 1 # k + 1 /\ (j + 1) - 1 = k + 1
        BY <2>1, <2>5
      <4> QED
        BY <1>2, <2>2, <4>1
    <3> QED
      BY <1>1, <3>1, <3>2, <3>3
  <2>6. CASE j > k + 1
    <3>1. ~(j <= k) /\ j # k + 1 /\ j - 1 \in 1 .. n /\ j - 1 # k /\ (j = m <=> j - 1 = n) /\ (j - 1) + 1 = j
      BY <1>1, <2>6
    <3>2. t[j] = s[j - 1] /\ rec2[s[j - 1]].next = rec[s[j - 1]].next
      BY <1>2, <1>3, <3>1
    <3>3. j # m => t[j + 1] = s[j]
      <4>1. ~(j + 1 <= k) /\ j + 1 # k + 1 /\ (j + 1) - 1 = j
        BY <2>1, <2>6
      <4> QED
        BY <1>2, <2>2, <4>1
    <3>4. rec[s[j - 1]].next = IF j - 1 = n THEN NULL ELSE s[j]
      BY <1>1, <3>1
    <3> QED
      BY <3>1, <3>2, <3>3, <3>4
  <2>7. j < k \/ j = k \/ j = k + 1 \/ j > k + 1
    BY <2>1
  <2> QED
    BY <2>3, <2>4, <2>5, <2>6, <2>7
<1>7. m \in Nat
  BY <1>1
<1> HIDE DEF m
<1> QED
  BY <1>2, <1>4, <1>5, <1>6, <1>7, ListFold DEF t

(* What is on a list that has been changed.                                *)
LEMMA HasAppended ==
  ASSUME NEW D, NEW s \in Seq(D), NEW e \in D, NEW d
  PROVE  Has(Append(s, e), d) <=> Has(s, d) \/ d = e
<1> DEFINE n == Len(s)
           t == Append(s, e)
<1>1. n \in Nat /\ Len(t) = n + 1 /\ (\A i \in 1 .. n : t[i] = s[i]) /\ t[n + 1] = e
  BY LenProperties, AppendProperties
<1> HIDE DEF n, t
<1>2. \A i : i \in 1 .. n + 1 <=> i \in 1 .. n \/ i = n + 1
  BY <1>1
<1>3. (\E i \in 1 .. n + 1 : t[i] = d) <=> (\E i \in 1 .. n : s[i] = d) \/ d = e
  BY <1>1, <1>2
<1> QED
  BY <1>1, <1>3 DEF Has, n, t

LEMMA HasCut ==
  ASSUME NEW D, NEW s \in Seq(D), NoRepeat(s), NEW i \in 1 .. Len(s), NEW d
  PROVE  Has(Cut(s, i), d) <=> Has(s, d) /\ d # s[i]
<1> DEFINE n == Len(s)
           t == Cut(s, i)
<1>1. /\ n \in Nat /\ Len(t) = n - 1 /\ i \in 1 .. n
      /\ \A j \in 1 .. n - 1 : t[j] = IF j < i THEN s[j] ELSE s[j + 1]
  <2>1. Len(s) \in Nat /\ i \in 1 .. Len(s)
    BY LenProperties
  <2>2. /\ Cut(s, i) \in Seq(D) /\ Len(Cut(s, i)) = n - 1
        /\ \A j \in 1 .. n - 1 : Cut(s, i)[j] = IF j < i THEN s[j] ELSE s[j + 1]
    BY <2>1, CutFacts
  <2> QED
    BY <2>1, <2>2
<1>2. \A j, k \in 1 .. n : s[j] = s[k] => j = k
  BY LenProperties DEF NoRepeat
<1> HIDE DEF n, t
<1>3. ASSUME NEW j \in 1 .. n - 1, t[j] = d
      PROVE  (\E k \in 1 .. n : s[k] = d) /\ d # s[i]
  <2>1. j \in 1 .. n /\ j + 1 \in 1 .. n /\ (j < i => j # i) /\ (~(j < i) => j + 1 # i)
    BY <1>1
  <2> QED
    BY <1>1, <1>2, <1>3, <2>1
<1>4. ASSUME NEW k \in 1 .. n, s[k] = d, d # s[i]
      PROVE  \E j \in 1 .. n - 1 : t[j] = d
  <2>1. CASE k < i
    <3>1. k \in 1 .. n - 1
      BY <1>1, <2>1
    <3> QED
      BY <1>1, <1>4, <2>1, <3>1
  <2>2. CASE k > i
    <3>1. k - 1 \in 1 .. n - 1 /\ ~(k - 1 < i) /\ (k - 1) + 1 = k
      BY <1>1, <2>2
    <3> QED
      BY <1>1, <1>4, <3>1
  <2> QED
    BY <1>1, <1>4, <2>1, <2>2
<1> QED
  BY <1>1, <1>3, <1>4 DEF Has, n, t

LEMMA HasInserted ==
  ASSUME NEW D, NEW s \in Seq(D), NEW k \in 0 .. Len(s), NEW e \in D, NEW d
  PROVE  Has(Insert(s, k, e), d) <=> Has(s, d) \/ d = e
<1> DEFINE n == Len(s)
           t == Insert(s, k, e)
<1>1. /\ n \in Nat /\ Len(t) = n + 1 /\ k \in 0 .. n
      /\ \A j \in 1 .. n + 1 : t[j] = IF j <= k THEN s[j] ELSE IF j = k + 1 THEN e ELSE s[j - 1]
  <2>1. Len(s) \in Nat /\ k \in 0 .. Len(s)
    BY LenProperties
  <2>2. /\ Insert(s, k, e) \in Seq(D) /\ Len(Insert(s, k, e)) = n + 1
        /\ \A j \in 1 .. n + 1 :
              Insert(s, k, e)[j] = IF j <= k THEN s[j] ELSE IF j = k + 1 THEN e ELSE s[j - 1]
    BY InsertFacts
  <2> QED
    BY <2>1, <2>2
<1> HIDE DEF n, t
<1>2. ASSUME NEW j \in 1 .. n + 1, t[j] = d
      PROVE  (\E i \in 1 .. n : s[i] = d) \/ d = e
  <2>1. (j <= k => j \in 1 .. n) /\ (~(j <= k) /\ j # k + 1 => j - 1 \in 1 .. n)
    BY <1>1
  <2> QED
    BY <1>1, <1>2, <2>1
<1>3. ASSUME NEW i \in 1 .. n, s[i] = d
      PROVE  \E j \in 1 .. n + 1 : t[j] = d
  <2>1. CASE i <= k
    <3>1. i \in 1 .. n + 1
      BY <1>1
    <3> QED
      BY <1>1, <1>3, <2>1, <3>1
  <2>2. CASE i > k
    <3>1. i + 1 \in 1 .. n + 1 /\ ~(i + 1 <= k) /\ i + 1 # k + 1 /\ (i + 1) - 1 = i
      BY <1>1, <2>2
    <3> QED
      BY <1>1, <1>3, <3>1
  <2> QED
    BY <1>1, <2>1, <2>2
<1>4. k + 1 \in 1 .. n + 1 /\ t[k + 1] = e
  <2>1. k + 1 \in 1 .. n + 1 /\ ~(k + 1 <= k)
    BY <1>1
  <2> QED
    BY <1>1, <2>1
<1> QED
  BY <1>1, <1>2, <1>3, <1>4 DEF Has, n, t

-----------------------------------------------------------------------------
(* Event queues.  f[q] is what stands in queue q of the records v and w.   *)

EventRec == [next : Event \cup {NULL}, queued : BOOLEAN, evq : Queue \cup {NULL}]
QueueRec == [head : Event \cup {NULL}, tail : Event \cup {NULL}]

TailOf(s) == IF s = <<>> THEN NULL ELSE s[Len(s)]

Linked(v, w, f) ==
    /\ v \in [Event -> EventRec] /\ w \in [Queue -> QueueRec] /\ f \in [Queue -> Seq(Event)]
    /\ \A q \in Queue : IsList(f[q], w[q].head, v) /\ w[q].tail = TailOf(f[q])
    /\ \A q \in Queue, e \in Event : Has(f[q], e) => v[e].queued /\ v[e].evq = q
    /\ \A e \in Event : v[e].queued => \E q \in Queue : Has(f[q], e)
    /\ \A e \in Event : ~v[e].queued => v[e] = NoEvent

Pair(v, w) == [ev |-> v, evq |-> w]

LEMMA EventFacts ==
  /\ NULL \notin Event /\ NULL \notin Queue
  /\ NoEvent \in EventRec /\ ~NoEvent.queued /\ NoEvent.next = NULL /\ NoEvent.evq = NULL
  /\ Callout \subseteq Event
BY NplAssumption DEF NoEvent, EventRec, Event

LEMMA TailHas ==
  ASSUME NEW D, NEW s \in Seq(D), s # <<>>
  PROVE  TailOf(s) = s[Len(s)] /\ TailOf(s) \in D /\ Has(s, TailOf(s)) /\ Len(s) \in 1 .. Len(s)
<1>1. Len(s) \in Nat \ {0}
  BY EmptySeq
<1>2. Len(s) \in 1 .. Len(s)
  BY <1>1
<1> QED
  BY <1>2, ElementOfSeq DEF TailOf, Has

LEMMA AppendTail ==
  ASSUME NEW D, NEW s \in Seq(D), NEW e \in D
  PROVE  TailOf(Append(s, e)) = e
BY AppendProperties DEF TailOf

(* ble_npl_eventq_put: nothing happens to an event that is queued, and     *)
(* another goes to the end.                                                *)
LEMMA PutLinks ==
  ASSUME NEW v, NEW w, NEW f, Linked(v, w, f), NEW q \in Queue, NEW e \in Event, ~v[e].queued,
         NEW p, p = EventqPut(Pair(v, w), q, e)
  PROVE  Linked(p.ev, p.evq, [f EXCEPT ![q] = Append(@, e)])
<1> DEFINE s == f[q]
           last == w[q].tail
           v1 == [v EXCEPT ![e] = [next |-> NULL, queued |-> TRUE, evq |-> q]]
           v2 == IF last # NULL THEN [v1 EXCEPT ![last].next = e] ELSE v1
           w2 == IF last # NULL THEN [w EXCEPT ![q].tail = e] ELSE [w EXCEPT ![q] = [head |-> e, tail |-> e]]
           g == [f EXCEPT ![q] = Append(@, e)]
<1>1. p.ev = v2 /\ p.evq = w2
  BY DEF EventqPut, Pair
<1>2. /\ v \in [Event -> EventRec] /\ w \in [Queue -> QueueRec] /\ f \in [Queue -> Seq(Event)]
      /\ DOMAIN v = Event /\ \A r \in Queue : f[r] \in Seq(Event) /\ s \in Seq(Event)
      /\ \A r \in Queue : IsList(f[r], w[r].head, v) /\ w[r].tail = TailOf(f[r])
      /\ \A r \in Queue, d \in Event : Has(f[r], d) => v[d].queued /\ v[d].evq = r
      /\ \A d \in Event : v[d].queued => \E r \in Queue : Has(f[r], d)
      /\ \A d \in Event : ~v[d].queued => v[d] = NoEvent
  BY DEF Linked
<1>3. ~Has(s, e) /\ \A r \in Queue : ~Has(f[r], e)
  BY <1>2
<1>4. /\ last = NULL <=> s = <<>>
      /\ s # <<>> => last = s[Len(s)] /\ last \in Event /\ Has(s, last) /\ last # e
  BY <1>2, <1>3, TailHas, EventFacts DEF TailOf
<1>5. /\ v1 \in [Event -> EventRec] /\ v1[e] = [next |-> NULL, queued |-> TRUE, evq |-> q]
      /\ \A d \in Event : d # e => v1[d] = v[d]
  BY <1>2 DEF EventRec
<1>6. /\ v2 \in [Event -> EventRec]
      /\ v2[e].next = NULL /\ v2[e].queued /\ v2[e].evq = q
      /\ \A d \in Event : d # e =>
            /\ v2[d].queued = v[d].queued /\ v2[d].evq = v[d].evq
            /\ v2[d].next = IF d = last THEN e ELSE v[d].next
            /\ d # last => v2[d] = v[d]
  <2>1. CASE s = <<>>
    BY <1>4, <1>5, <2>1, EventFacts
  <2>2. CASE s # <<>>
    <3>1. v2 = [v1 EXCEPT ![last].next = e] /\ last \in Event /\ last # e
      BY <1>4, <2>2
    <3>2. v2 \in [Event -> EventRec]
      <4>1. v1[last] \in EventRec /\ [v1[last] EXCEPT !.next = e] \in EventRec
        BY <1>5, <3>1 DEF EventRec
      <4> QED
        BY <1>5, <3>1, <4>1
    <3>3. \A d \in Event : d # last => v2[d] = v1[d]
      BY <1>5, <3>1
    <3>4. v2[last].next = e /\ v2[last].queued = v1[last].queued /\ v2[last].evq = v1[last].evq
      BY <1>5, <3>1 DEF EventRec
    <3> QED
      BY <1>5, <3>1, <3>2, <3>3, <3>4
  <2> QED
    BY <2>1, <2>2
<1>7. /\ w2 \in [Queue -> QueueRec] /\ w2[q].tail = e
      /\ w2[q].head = IF s = <<>> THEN e ELSE w[q].head
      /\ \A r \in Queue : r # q => w2[r] = w[r]
  BY <1>2, <1>4 DEF QueueRec
<1>8. /\ g \in [Queue -> Seq(Event)] /\ g[q] = Append(s, e)
      /\ \A r \in Queue : r # q => g[r] = f[r]
  BY <1>2, AppendProperties
<1>9. \A r \in Queue, d \in Event : Has(g[r], d) <=> Has(f[r], d) \/ (r = q /\ d = e)
  BY <1>2, <1>8, HasAppended
<1> HIDE DEF s, v1, v2, w2, g
<1>10. ASSUME NEW r \in Queue PROVE IsList(g[r], w2[r].head, v2) /\ w2[r].tail = TailOf(g[r])
  <2>1. DOMAIN v2 = DOMAIN v /\ DOMAIN v = Event
    BY <1>2, <1>6
  <2>2. CASE r = q
    <3>1. \A d \in Event : Has(s, d) => v2[d].next = IF d = s[Len(s)] THEN e ELSE v[d].next
      <4> SUFFICES ASSUME NEW d \in Event, Has(s, d) PROVE v2[d].next = IF d = s[Len(s)] THEN e ELSE v[d].next
        OBVIOUS
      <4>1. d # e /\ s # <<>>
        BY <1>3, EmptySeq DEF Has
      <4> QED
        BY <1>4, <1>6, <4>1
    <3>2. IsList(s, w[q].head, v)
      BY <1>2 DEF s
    <3>3. IsList(Append(s, e), IF s = <<>> THEN e ELSE w[q].head, v2)
      BY <1>3, <1>6, <2>1, <3>1, <3>2, ListAppends
    <3>4. TailOf(g[q]) = e
      BY <1>2, <1>8, AppendTail
    <3> QED
      BY <1>7, <1>8, <2>2, <3>3, <3>4
  <2>3. CASE r # q
    <3>1. \A d \in Event : Has(f[r], d) => v2[d].next = v[d].next
      <4> SUFFICES ASSUME NEW d \in Event, Has(f[r], d) PROVE v2[d].next = v[d].next
        OBVIOUS
      <4>1. d # e /\ v[d].evq = r
        BY <1>2, <1>3
      <4>2. d # last
        BY <1>2, <1>4, <2>3, <4>1, EventFacts DEF s
      <4> QED
        BY <1>6, <4>1, <4>2
    <3>2. IsList(f[r], w[r].head, v2)
      BY <1>2, <2>1, <3>1, ListStays
    <3> QED
      BY <1>2, <1>7, <1>8, <2>3, <3>2
  <2> QED
    BY <2>2, <2>3
<1>11. \A r \in Queue, d \in Event : Has(g[r], d) => v2[d].queued /\ v2[d].evq = r
  <2> SUFFICES ASSUME NEW r \in Queue, NEW d \in Event, Has(g[r], d)
               PROVE  v2[d].queued /\ v2[d].evq = r
    OBVIOUS
  <2>1. CASE d = e
    BY <1>3, <1>6, <1>9, <2>1
  <2>2. CASE d # e
    <3>1. Has(f[r], d)
      BY <1>9, <2>2
    <3>2. v[d].queued /\ v[d].evq = r
      BY <1>2, <3>1
    <3> QED
      BY <1>6, <2>2, <3>2
  <2> QED
    BY <2>1, <2>2
<1>12. \A d \in Event : v2[d].queued => \E r \in Queue : Has(g[r], d)
  <2> SUFFICES ASSUME NEW d \in Event, v2[d].queued PROVE \E r \in Queue : Has(g[r], d)
    OBVIOUS
  <2>1. CASE d = e
    BY <1>9, <2>1
  <2>2. CASE d # e
    BY <1>2, <1>6, <1>9, <2>2
  <2> QED
    BY <2>1, <2>2
<1>13. \A d \in Event : ~v2[d].queued => v2[d] = NoEvent
  <2> SUFFICES ASSUME NEW d \in Event, ~v2[d].queued PROVE v2[d] = NoEvent
    OBVIOUS
  <2>1. d # e /\ ~v[d].queued
    BY <1>6
  <2>2. d # last
    BY <1>2, <1>4, <2>1, EventFacts DEF s
  <2> QED
    BY <1>2, <1>6, <2>1, <2>2
<1> QED
  BY <1>1, <1>6, <1>7, <1>8, <1>10, <1>11, <1>12, <1>13 DEF Linked, g

LEMMA CutTail ==
  ASSUME NEW D, NEW s \in Seq(D), NEW i \in 1 .. Len(s), NoRepeat(s)
  PROVE  /\ i = 1 /\ Len(s) = 1 => TailOf(Cut(s, i)) = NULL
         /\ i > 1 /\ i = Len(s) => TailOf(Cut(s, i)) = s[i - 1]
         /\ i # Len(s) => TailOf(Cut(s, i)) = TailOf(s)
<1> DEFINE n == Len(s)
           t == Cut(s, i)
<1>1. n \in Nat /\ i \in 1 .. n
  BY LenProperties
<1>2. /\ t \in Seq(D) /\ Len(t) = n - 1
      /\ \A j \in 1 .. n - 1 : t[j] = IF j < i THEN s[j] ELSE s[j + 1]
  BY <1>1, CutFacts
<1>3. (t = <<>> <=> n - 1 = 0) /\ s # <<>>
  BY <1>1, <1>2, EmptySeq
<1> HIDE DEF n, t
<1>4. ASSUME i = 1, n = 1 PROVE TailOf(t) = NULL
  BY <1>3, <1>4 DEF TailOf
<1>5. ASSUME i > 1, i = n PROVE TailOf(t) = s[i - 1]
  <2>1. n - 1 \in 1 .. n - 1 /\ n - 1 < i /\ n - 1 # 0
    BY <1>1, <1>5
  <2> QED
    BY <1>2, <1>3, <1>5, <2>1 DEF TailOf
<1>6. ASSUME i # n PROVE TailOf(t) = s[n]
  <2>1. n - 1 \in 1 .. n - 1 /\ ~(n - 1 < i) /\ (n - 1) + 1 = n /\ n - 1 # 0
    BY <1>1, <1>6
  <2> QED
    BY <1>2, <1>3, <2>1 DEF TailOf
<1> QED
  BY <1>3, <1>4, <1>5, <1>6 DEF n, t, TailOf

(* ble_npl_eventq_remove.                                                  *)
LEMMA RemoveMisses ==
  ASSUME NEW v, NEW w, NEW f, Linked(v, w, f), NEW q \in Queue, NEW e, ~Has(f[q], e)
  PROVE  EventqRemove(Pair(v, w), q, e) = Pair(v, w)
<1>1. IsList(f[q], w[q].head, v) /\ DOMAIN v = Event /\ f[q] \in Seq(Event)
  BY DEF Linked
<1>2. Walk(w[q].head, v) = f[q]
  BY <1>1, WalkFinds, NplAssumption
<1>3. \A i \in DOMAIN f[q] : f[q][i] # e
  BY <1>1, LenProperties DEF Has
<1> QED
  BY <1>2, <1>3 DEF EventqRemove, Pair

Removed(v, w, q, s, i) ==
    LET e == s[i]
        after == v[e].next
        prev == IF i = 1 THEN NULL ELSE s[i - 1]
        ev1 == [v EXCEPT ![e] = NoEvent]
    IN  [ev |-> IF prev = NULL THEN ev1 ELSE [ev1 EXCEPT ![prev].next = after],
         evq |-> [w EXCEPT
                    ![q] = [head |-> IF prev = NULL THEN after ELSE @.head,
                            tail |-> IF @.tail = e THEN prev ELSE @.tail]]]

LEMMA RemoveFinds ==
  ASSUME NEW v, NEW w, NEW f, Linked(v, w, f), NEW q \in Queue, NEW i \in 1 .. Len(f[q])
  PROVE  EventqRemove(Pair(v, w), q, f[q][i]) = Removed(v, w, q, f[q], i)
<1> DEFINE s == f[q]
           e == s[i]
<1>1. IsList(s, w[q].head, v) /\ DOMAIN v = Event /\ s \in Seq(Event)
  BY DEF Linked
<1>2. Walk(w[q].head, v) = s
  BY <1>1, WalkFinds, NplAssumption
<1>3. DOMAIN s = 1 .. Len(s) /\ \A j \in 1 .. Len(s) : s[j] = e => j = i
  BY <1>1, ListUnfold
<1>4. ~(\A j \in DOMAIN s : s[j] # e) /\ IndexOf(s, e) = i
  BY <1>3 DEF IndexOf
<1> HIDE DEF e, s
<1>5. EventqRemove(Pair(v, w), q, e) =
         LET after == v[e].next
             prev == IF i = 1 THEN NULL ELSE s[i - 1]
             ev1 == [v EXCEPT ![e] = NoEvent]
         IN  [ev |-> IF prev = NULL THEN ev1 ELSE [ev1 EXCEPT ![prev].next = after],
              evq |-> [w EXCEPT
                         ![q] = [head |-> IF prev = NULL THEN after ELSE @.head,
                                 tail |-> IF @.tail = e THEN prev ELSE @.tail]]]
  BY <1>2, <1>4 DEF EventqRemove, Pair
<1> QED
  BY <1>5 DEF e, s, Removed

LEMMA RemoveLinks ==
  ASSUME NEW v, NEW w, NEW f, Linked(v, w, f), NEW q \in Queue, NEW i \in 1 .. Len(f[q]),
         NEW p, p = EventqRemove(Pair(v, w), q, f[q][i])
  PROVE  Linked(p.ev, p.evq, [f EXCEPT ![q] = Cut(@, i)])
<1> DEFINE s == f[q]
           n == Len(s)
           e == s[i]
           after == v[e].next
           prev == IF i = 1 THEN NULL ELSE s[i - 1]
           v1 == [v EXCEPT ![e] = NoEvent]
           v2 == IF prev = NULL THEN v1 ELSE [v1 EXCEPT ![prev].next = after]
           w2 == [w EXCEPT ![q] = [head |-> IF prev = NULL THEN after ELSE @.head,
                                   tail |-> IF @.tail = e THEN prev ELSE @.tail]]
           g == [f EXCEPT ![q] = Cut(@, i)]
<1>1. p.ev = v2 /\ p.evq = w2
  <2>1. p = [ev |-> v2, evq |-> w2]
    BY RemoveFinds DEF Removed
  <2> HIDE DEF v2, w2
  <2> QED
    BY <2>1
<1>2. /\ v \in [Event -> EventRec] /\ w \in [Queue -> QueueRec] /\ f \in [Queue -> Seq(Event)]
      /\ DOMAIN v = Event /\ \A r \in Queue : f[r] \in Seq(Event) /\ s \in Seq(Event)
      /\ \A r \in Queue : IsList(f[r], w[r].head, v) /\ w[r].tail = TailOf(f[r])
      /\ \A r \in Queue, d \in Event : Has(f[r], d) => v[d].queued /\ v[d].evq = r
      /\ \A d \in Event : v[d].queued => \E r \in Queue : Has(f[r], d)
      /\ \A d \in Event : ~v[d].queued => v[d] = NoEvent
  BY DEF Linked
<1>3. /\ n \in Nat /\ i \in 1 .. n /\ NoRepeat(s) /\ s # <<>>
      /\ \A j \in 1 .. n : s[j] \in Event /\ Has(s, s[j])
      /\ \A j, k \in 1 .. n : s[j] = s[k] => j = k
  <2>1. IsList(s, w[q].head, v) /\ n = Len(s)
    BY <1>2
  <2>2. /\ n \in Nat /\ (s = <<>> <=> n = 0)
        /\ \A j \in 1 .. n : s[j] \in DOMAIN v
        /\ \A j, k \in 1 .. n : s[j] = s[k] => j = k
    BY SMTT(30), <2>1, ListUnfold
  <2>3. i \in 1 .. n /\ n # 0
    BY <2>2
  <2> HIDE DEF s
  <2> QED
    BY <1>2, <2>1, <2>2, <2>3 DEF IsList, Has
<1>4. e \in Event /\ after \in Event \cup {NULL} /\ v[e].queued /\ v[e].evq = q
  BY <1>2, <1>3 DEF EventRec
<1>5. /\ prev = NULL <=> i = 1
      /\ i # 1 => prev = s[i - 1] /\ prev \in Event /\ Has(s, prev) /\ prev # e /\ i - 1 \in 1 .. n
  <2>1. i # 1 => i - 1 \in 1 .. n /\ i - 1 # i
    BY <1>3
  <2> QED
    BY <1>3, <2>1, EventFacts
<1>6. /\ v1 \in [Event -> EventRec] /\ v1[e] = NoEvent
      /\ \A d \in Event : d # e => v1[d] = v[d]
  BY <1>2, <1>4, EventFacts
<1>7. /\ v2 \in [Event -> EventRec] /\ v2[e] = NoEvent
      /\ \A d \in Event : d # e =>
            /\ (v2[d].queued <=> v[d].queued) /\ v2[d].evq = v[d].evq
            /\ v2[d].next = IF i > 1 /\ d = s[i - 1] THEN after ELSE v[d].next
            /\ d # prev => v2[d] = v[d]
  <2>1. CASE i = 1
    BY <1>3, <1>5, <1>6, <2>1
  <2>2. CASE i # 1
    <3>1. v2 = [v1 EXCEPT ![prev].next = after] /\ prev \in Event /\ prev # e
      BY <1>5, <2>2
    <3>2. v2 \in [Event -> EventRec]
      <4>1. v1[prev] \in EventRec /\ [v1[prev] EXCEPT !.next = after] \in EventRec
        BY <1>4, <1>6, <3>1 DEF EventRec
      <4> QED
        BY <1>6, <3>1, <4>1
    <3>3. \A d \in Event : d # prev => v2[d] = v1[d]
      BY <1>6, <3>1
    <3>4. v2[prev].next = after /\ (v2[prev].queued <=> v1[prev].queued) /\ v2[prev].evq = v1[prev].evq
      BY <1>6, <3>1 DEF EventRec
    <3>5. i > 1 /\ prev = s[i - 1]
      BY <1>3, <1>5, <2>2
    <3> HIDE DEF v2, v1, prev
    <3> QED
      BY <1>6, <3>1, <3>2, <3>3, <3>4, <3>5
  <2> QED
    BY <2>1, <2>2
<1>8. /\ w2 \in [Queue -> QueueRec]
      /\ w2[q].head = IF i = 1 THEN after ELSE w[q].head
      /\ w2[q].tail = IF w[q].tail = e THEN prev ELSE w[q].tail
      /\ \A r \in Queue : r # q => w2[r] = w[r]
  <2>1. prev \in Event \cup {NULL}
    BY <1>5
  <2> HIDE DEF prev, after
  <2> QED
    BY <1>2, <1>4, <1>5, <2>1 DEF QueueRec
<1>9. /\ g \in [Queue -> Seq(Event)] /\ g[q] = Cut(s, i)
      /\ \A r \in Queue : r # q => g[r] = f[r]
  <2>1. Cut(s, i) \in Seq(Event)
    BY <1>2, <1>3, CutFacts
  <2> QED
    BY <1>2, <2>1
<1>10. \A r \in Queue, d \in Event : Has(g[r], d) <=> Has(f[r], d) /\ d # e
  <2> SUFFICES ASSUME NEW r \in Queue, NEW d \in Event PROVE Has(g[r], d) <=> Has(f[r], d) /\ d # e
    OBVIOUS
  <2>1. CASE r = q
    BY <1>2, <1>3, <1>9, <2>1, HasCut
  <2>2. CASE r # q
    <3>1. Has(f[r], d) => d # e
      BY <1>2, <1>4, <2>2
    <3> QED
      BY <1>9, <2>2, <3>1
  <2> QED
    BY <2>1, <2>2
<1>11. w2[q].tail = TailOf(g[q])
  <2>1. w[q].tail = s[n] /\ n \in 1 .. n /\ (s[n] = e <=> i = n)
    BY <1>2, <1>3, TailHas
  <2>2. /\ i = 1 /\ n = 1 => TailOf(g[q]) = NULL
        /\ i > 1 /\ i = n => TailOf(g[q]) = s[i - 1]
        /\ i # n => TailOf(g[q]) = TailOf(s)
    BY <1>2, <1>3, <1>9, CutTail
  <2> HIDE DEF s, n, w2, g
  <2> QED
    BY <1>2, <1>3, <1>5, <1>8, <2>1, <2>2 DEF s
<1>12. ASSUME NEW r \in Queue PROVE IsList(g[r], w2[r].head, v2)
  <2>1. DOMAIN v2 = Event
    BY <1>7
  <2>2. CASE r = q
    <3>1. \A d \in Event : Has(s, d) /\ d # s[i] =>
              v2[d].next = IF i > 1 /\ d = s[i - 1] THEN v[s[i]].next ELSE v[d].next
      BY <1>7
    <3>2. IsList(s, w[q].head, v) /\ i \in 1 .. Len(s)
      BY <1>2
    <3> HIDE DEF s, v2
    <3>3. IsList(Cut(s, i), IF i = 1 THEN v[s[i]].next ELSE w[q].head, v2)
      BY <1>2, <2>1, <3>1, <3>2, ListCuts
    <3> QED
      BY <1>8, <1>9, <2>2, <3>3
  <2>3. CASE r # q
    <3>1. \A d \in Event : Has(f[r], d) => v2[d].next = v[d].next
      <4> SUFFICES ASSUME NEW d \in Event, Has(f[r], d) PROVE v2[d].next = v[d].next
        OBVIOUS
      <4>1. d # e /\ v[d].evq = r
        BY <1>2, <1>4, <2>3
      <4>2. i > 1 => d # s[i - 1]
        BY <1>2, <1>5, <2>3, <4>1
      <4> QED
        BY <1>7, <4>1, <4>2
    <3>2. IsList(f[r], w[r].head, v2)
      BY <1>2, <2>1, <3>1, ListStays
    <3> QED
      BY <1>8, <1>9, <2>3, <3>2
  <2> QED
    BY <2>2, <2>3
<1> HIDE DEF v2, w2, g, s, prev, after, v1
<1>13. ASSUME NEW r \in Queue PROVE w2[r].tail = TailOf(g[r])
  BY <1>2, <1>8, <1>9, <1>11
<1>14. ASSUME NEW r \in Queue, NEW d \in Event, Has(g[r], d) PROVE v2[d].queued /\ v2[d].evq = r
  <2>1. Has(f[r], d) /\ d # e
    BY <1>10, <1>14
  <2>2. v[d].queued /\ v[d].evq = r
    BY <1>2, <2>1
  <2> QED
    BY <1>7, <2>1, <2>2
<1>15. ASSUME NEW d \in Event, v2[d].queued PROVE \E r \in Queue : Has(g[r], d)
  <2>1. d # e
    BY <1>7, <1>15, EventFacts
  <2> QED
    BY <1>2, <1>7, <1>10, <1>15, <2>1
<1>16. ASSUME NEW d \in Event, ~v2[d].queued PROVE v2[d] = NoEvent
  <2>1. CASE d # e
    <3>1. ~v[d].queued
      BY <1>7, <1>16, <2>1
    <3>2. d # prev
      BY <1>2, <1>5, <3>1, EventFacts DEF s
    <3> QED
      BY <1>2, <1>7, <2>1, <3>1, <3>2
  <2> QED
    BY <1>7, <2>1
<1> QED
  BY <1>1, <1>7, <1>8, <1>9, <1>12, <1>13, <1>14, <1>15, <1>16 DEF Linked, g

(* ble_npl_eventq_get takes the first as ble_npl_eventq_remove would.      *)
LEMMA PopRemoves ==
  ASSUME NEW v, NEW w, NEW f, Linked(v, w, f), NEW q \in Queue, w[q].head # NULL
  PROVE  /\ 1 \in 1 .. Len(f[q]) /\ w[q].head = f[q][1]
         /\ EventqPop(Pair(v, w), q) = EventqRemove(Pair(v, w), q, f[q][1])
<1> DEFINE s == f[q]
           n == Len(s)
           e == s[1]
           after == v[e].next
<1>1. /\ n \in Nat /\ s \in Seq(Event) /\ (s = <<>> <=> n = 0)
      /\ \A i, j \in 1 .. n : s[i] = s[j] => i = j
      /\ w[q].head = IF n = 0 THEN NULL ELSE s[1]
      /\ \A i \in 1 .. n : v[s[i]].next = IF i = n THEN NULL ELSE s[i + 1]
      /\ \A i \in 1 .. n : s[i] \in Event
      /\ w[q].tail = TailOf(s)
  <2>1. IsList(s, w[q].head, v) /\ DOMAIN v = Event /\ w[q].tail = TailOf(s)
    BY DEF Linked
  <2> QED
    BY <2>1, ListUnfold
<1>2. 1 \in 1 .. n /\ n \in 1 .. n /\ w[q].head = e
  BY <1>1
<1>3. w[q].tail = s[n] /\ (w[q].tail = e <=> n = 1)
  BY <1>1, <1>2 DEF TailOf
<1>4. after = NULL <=> n = 1
  <2>1. after = IF 1 = n THEN NULL ELSE s[1 + 1]
    BY <1>1, <1>2
  <2>2. n # 1 => s[1 + 1] \in Event
    <3> HIDE DEF n, s
    <3>1. n # 1 => 1 + 1 \in 1 .. n
      BY <1>1, <1>2
    <3> QED
      BY <1>1, <3>1
  <2> QED
    BY <2>1, <2>2, EventFacts
<1> HIDE DEF after, n, s
<1>5. EventqPop(Pair(v, w), q) =
         [ev |-> [v EXCEPT ![e] = NoEvent],
          evq |-> [w EXCEPT ![q] = [head |-> after, tail |-> IF after = NULL THEN NULL ELSE @.tail]]]
  BY <1>2 DEF EventqPop, Pair, after
<1>6. EventqRemove(Pair(v, w), q, e) =
         [ev |-> [v EXCEPT ![e] = NoEvent],
          evq |-> [w EXCEPT ![q] = [head |-> after, tail |-> IF @.tail = e THEN NULL ELSE @.tail]]]
  <2>1. EventqRemove(Pair(v, w), q, e) = Removed(v, w, q, s, 1)
    BY <1>2, RemoveFinds DEF n, s
  <2> QED
    BY <2>1 DEF after, Removed
<1>7. (w[q].tail = e) <=> (after = NULL)
  BY <1>3, <1>4
<1> HIDE DEF e
<1>8. EventqPop(Pair(v, w), q) = EventqRemove(Pair(v, w), q, e)
  BY <1>5, <1>6, <1>7
<1> QED
  BY <1>2, <1>8 DEF n, s, e

-----------------------------------------------------------------------------
(* Times.                                                                  *)

LEMMA DivMod ==
  ASSUME NEW m \in Nat \ {0}, NEW a \in Int
  PROVE  a % m \in 0 .. m - 1 /\ a \div m \in Int /\ a = m * (a \div m) + (a % m)
OBVIOUS

LEMMA ModOf ==
  ASSUME NEW m \in Nat \ {0}, NEW q \in Int, NEW r \in 0 .. m - 1
  PROVE  (m * q + r) % m = r
OBVIOUS

(* The ticks left to a callout that is set.                                *)
Span == -MaxLate .. MaxTicks

LEMMA TimeFacts ==
  /\ TickMod \in Nat \ {0} /\ MaxTicks \in Nat /\ MaxLate \in Nat /\ MaxLate > 0
  /\ 2 * (MaxTicks + MaxLate) < TickMod
  /\ Never = MaxTicks + 1 /\ Never \in Int
  /\ 0 \in Span /\ Span \subseteq Int /\ Never \notin Span
  /\ \A n \in 0 .. MaxTicks : n \in Span
  /\ \A n : n \in Span <=> n \in Int /\ -MaxLate <= n /\ n <= MaxTicks
<1>1. TickMod \in Nat /\ MaxTicks \in Nat /\ MaxLate \in Nat /\ MaxLate > 0 /\ 2 * (MaxTicks + MaxLate) < TickMod
  BY NplAssumption
<1> QED
  BY <1>1 DEF Never, Span

(* The difference of two times that wrap is the difference of the ticks.   *)
LEMMA DeltaIs ==
  ASSUME NEW t \in Int, NEW a \in Span, NEW b \in Span
  PROVE  Delta((t + a) % TickMod, (t + b) % TickMod) = a - b
<1> DEFINE m == TickMod
           qa == (t + a) \div m
           ra == (t + a) % m
           qb == (t + b) \div m
           rb == (t + b) % m
           e == a - b
           k == (1 - qa) + qb
<1>1. /\ m \in Nat \ {0} /\ a \in Int /\ b \in Int /\ t + a \in Int /\ t + b \in Int
      /\ e \in Int /\ 2 * e < m /\ 0 - m < 2 * e
  BY TimeFacts
<1>2. qa \in Int /\ ra \in 0 .. m - 1 /\ t + a = m * qa + ra
  BY <1>1, DivMod
<1>3. qb \in Int /\ rb \in 0 .. m - 1 /\ t + b = m * qb + rb
  BY <1>1, DivMod
<1> HIDE DEF m, qa, ra, qb, rb
<1>4. k \in Int /\ m * k = (m - m * qa) + m * qb /\ m * (k - 1) = m * qb - m * qa
  BY <1>1, <1>2, <1>3
<1>5. ra + m - rb = m * k + e
  <2>1. m * qa \in Int /\ m * qb \in Int /\ m * k \in Int
    BY <1>1, <1>2, <1>3, <1>4
  <2> HIDE DEF k
  <2> QED
    BY <1>1, <1>2, <1>3, <1>4, <2>1
<1> HIDE DEF k, e
<1>6. CASE e >= 0
  <2>1. e \in 0 .. m - 1 /\ ~(2 * e >= m)
    BY <1>1, <1>6
  <2>2. (ra + m - rb) % m = e
    BY <1>1, <1>4, <1>5, <2>1, ModOf
  <2> QED
    BY <1>1, <2>1, <2>2 DEF Delta, m, ra, rb, e
<1>7. CASE e < 0
  <2>1. e + m \in 0 .. m - 1 /\ 2 * (e + m) >= m /\ (e + m) - m = e /\ k - 1 \in Int
    BY <1>1, <1>4, <1>7
  <2>2. m * (k - 1) + (e + m) = m * k + e
    BY <1>1, <1>4
  <2>3. (ra + m - rb) % m = e + m
    BY <1>1, <1>4, <1>5, <2>1, <2>2, ModOf
  <2> QED
    BY <1>1, <2>1, <2>3 DEF Delta, m, ra, rb, e
<1> QED
  BY <1>1, <1>6, <1>7

LEMMA NowIs ==
  ASSUME NEW t \in 0 .. TickMod - 1
  PROVE  t = (t + 0) % TickMod
<1>1. TickMod \in Nat \ {0} /\ TickMod * 0 + t = t /\ t + 0 = t /\ 0 \in Int
  BY TimeFacts
<1> QED
  BY <1>1, ModOf

-----------------------------------------------------------------------------
(* Callouts.  s is what stands in the list, x the records, l the ticks     *)
(* that are left when the clock is at t.                                   *)

CalloutRec == [next : Callout \cup {NULL}, ticks : 0 .. TickMod - 1, active : BOOLEAN]

Timed(x, h, s) ==
    /\ x \in [Callout -> CalloutRec] /\ IsList(s, h, x)
    /\ \A c \in Callout : x[c].active <=> Has(s, c)

Sorted(s, l) == \A i, j \in 1 .. Len(s) : i < j => l[s[i]] <= l[s[j]]

Clocked(x, l, t) ==
    \A c \in Callout : IF x[c].active THEN l[c] \in Span /\ x[c].ticks = (t + l[c]) % TickMod
                       ELSE l[c] = Never

Tab(x, h) == [co |-> x, head |-> h]

LEMMA CalloutMisses ==
  ASSUME NEW x, NEW h, NEW s, Timed(x, h, s), NEW c, ~Has(s, c)
  PROVE  CalloutRemove(Tab(x, h), c) = Tab(x, h)
<1>1. IsList(s, h, x) /\ DOMAIN x = Callout /\ s \in Seq(Callout)
  BY DEF Timed, IsList
<1>2. IsFiniteSet(Callout) /\ NULL \notin Callout
  BY NplAssumption, EventFacts, FS_Subset
<1>3. Walk(h, x) = s
  BY <1>1, <1>2, WalkFinds
<1>4. \A i \in DOMAIN s : s[i] # c
  BY <1>1, LenProperties DEF Has
<1> QED
  BY <1>3, <1>4 DEF CalloutRemove, Tab

TakenOff(x, h, s, i) ==
    LET c == s[i]
        after == x[c].next
        co1 == [x EXCEPT ![c].next = NULL, ![c].active = FALSE]
    IN  IF i = 1 THEN [co |-> co1, head |-> after]
        ELSE [co |-> [co1 EXCEPT ![s[i - 1]].next = after], head |-> h]

LEMMA CalloutFinds ==
  ASSUME NEW x, NEW h, NEW s, Timed(x, h, s), NEW i \in 1 .. Len(s)
  PROVE  CalloutRemove(Tab(x, h), s[i]) = TakenOff(x, h, s, i)
<1> DEFINE c == s[i]
<1>1. IsList(s, h, x) /\ DOMAIN x = Callout /\ s \in Seq(Callout)
  BY DEF Timed, IsList
<1>2. IsFiniteSet(Callout) /\ NULL \notin Callout
  BY NplAssumption, EventFacts, FS_Subset
<1>3. Walk(h, x) = s
  BY <1>1, <1>2, WalkFinds
<1>4. DOMAIN s = 1 .. Len(s) /\ \A j \in 1 .. Len(s) : s[j] = c => j = i
  BY <1>1, ListUnfold
<1>5. ~(\A j \in DOMAIN s : s[j] # c) /\ IndexOf(s, c) = i
  BY <1>4 DEF IndexOf
<1> HIDE DEF c
<1>6. CalloutRemove(Tab(x, h), c) =
         LET after == x[c].next
             co1 == [x EXCEPT ![c].next = NULL, ![c].active = FALSE]
         IN  IF i = 1 THEN [co |-> co1, head |-> after]
             ELSE [co |-> [co1 EXCEPT ![s[i - 1]].next = after], head |-> h]
  BY <1>3, <1>5 DEF CalloutRemove, Tab
<1> QED
  BY <1>6 DEF c, TakenOff

LEMMA CalloutFacts ==
  /\ IsFiniteSet(Callout) /\ NULL \notin Callout /\ Callout \subseteq Event
  /\ Home \in [Callout -> Queue]
BY NplAssumption, EventFacts, FS_Subset

LEMMA SortedCut ==
  ASSUME NEW D, NEW s \in Seq(D), NEW i \in 1 .. Len(s), NEW l, Sorted(s, l)
  PROVE  Sorted(Cut(s, i), l)
<1> DEFINE n == Len(s)
           r == Cut(s, i)
           at(j) == IF j < i THEN j ELSE j + 1
<1>1. n \in Nat /\ i \in 1 .. n
  BY LenProperties
<1>2. Len(r) = n - 1 /\ \A j \in 1 .. n - 1 : r[j] = IF j < i THEN s[j] ELSE s[j + 1]
  BY <1>1, CutFacts
<1> SUFFICES ASSUME NEW a \in 1 .. n - 1, NEW b \in 1 .. n - 1, a < b PROVE l[r[a]] <= l[r[b]]
  BY <1>2 DEF Sorted
<1>3. r[a] = s[at(a)] /\ r[b] = s[at(b)]
  BY <1>2
<1>4. at(a) \in 1 .. n /\ at(b) \in 1 .. n /\ at(a) < at(b)
  BY <1>1
<1> HIDE DEF r, at
<1> QED
  BY <1>3, <1>4 DEF Sorted

LEMMA CalloutTakes ==
  ASSUME NEW x, NEW h, NEW s, Timed(x, h, s), NEW i \in 1 .. Len(s),
         NEW p, p = CalloutRemove(Tab(x, h), s[i])
  PROVE  /\ Timed(p.co, p.head, Cut(s, i)) /\ p = Tab(p.co, p.head)
         /\ \A d \in Callout : p.co[d].ticks = x[d].ticks /\ (p.co[d].active <=> x[d].active /\ d # s[i])
<1> DEFINE n == Len(s)
           c == s[i]
           after == x[c].next
           co1 == [x EXCEPT ![c].next = NULL, ![c].active = FALSE]
           co2 == IF i = 1 THEN co1 ELSE [co1 EXCEPT ![s[i - 1]].next = after]
           h2 == IF i = 1 THEN after ELSE h
<1>1. p = [co |-> co2, head |-> h2]
  <2>1. p = TakenOff(x, h, s, i)
    BY CalloutFinds
  <2> QED
    BY <2>1 DEF TakenOff
<1>2. /\ x \in [Callout -> CalloutRec] /\ DOMAIN x = Callout /\ IsList(s, h, x) /\ s \in Seq(Callout) /\ NoRepeat(s)
      /\ \A d \in Callout : x[d].active <=> Has(s, d)
  BY DEF Timed, IsList
<1>3. /\ n \in Nat /\ i \in 1 .. n
      /\ \A j \in 1 .. n : s[j] \in Callout
      /\ \A j, k \in 1 .. n : s[j] = s[k] => j = k
  BY <1>2, ListUnfold
<1>4. c \in Callout /\ after \in Callout \cup {NULL} /\ NULL \in Callout \cup {NULL}
  BY <1>2, <1>3 DEF CalloutRec
<1>5. /\ co1 \in [Callout -> CalloutRec] /\ ~co1[c].active /\ co1[c].ticks = x[c].ticks
      /\ \A d \in Callout : d # c => co1[d] = x[d]
  <2>1. [[x[c] EXCEPT !.next = NULL] EXCEPT !.active = FALSE] \in CalloutRec
    BY <1>2, <1>4 DEF CalloutRec
  <2>2. co1 = [x EXCEPT ![c] = [[x[c] EXCEPT !.next = NULL] EXCEPT !.active = FALSE]]
    BY <1>2, <1>4
  <2> QED
    BY <1>2, <1>4, <2>1, <2>2 DEF CalloutRec
<1>6. i # 1 => i - 1 \in 1 .. n /\ s[i - 1] \in Callout /\ s[i - 1] # c /\ i > 1
  <2>1. i # 1 => i - 1 \in 1 .. n /\ i - 1 # i /\ i > 1
    BY <1>3
  <2> QED
    BY <1>3, <2>1
<1> HIDE DEF co1, after, c
<1>7. /\ co2 \in [Callout -> CalloutRec]
      /\ \A d \in Callout : /\ co2[d].ticks = x[d].ticks
                            /\ co2[d].active <=> x[d].active /\ d # c
                            /\ d # c => co2[d].next = IF i > 1 /\ d = s[i - 1] THEN after ELSE x[d].next
  <2>1. CASE i = 1
    BY <1>3, <1>5, <2>1
  <2>2. CASE i # 1
    <3> DEFINE b == s[i - 1]
    <3>1. co2 = [co1 EXCEPT ![b].next = after] /\ b \in Callout /\ b # c /\ i > 1
      BY <1>6, <2>2
    <3> HIDE DEF co2
    <3>2. [co1[b] EXCEPT !.next = after] \in CalloutRec
      BY <1>4, <1>5, <3>1 DEF CalloutRec
    <3>3. co2 \in [Callout -> CalloutRec] /\ \A d \in Callout : d # b => co2[d] = co1[d]
      BY <1>5, <3>1, <3>2
    <3>4. co2[b].next = after /\ (co2[b].active <=> co1[b].active) /\ co2[b].ticks = co1[b].ticks
      BY <1>5, <3>1 DEF CalloutRec
    <3> HIDE DEF b
    <3>5. ASSUME NEW d \in Callout, d # b
          PROVE  /\ co2[d].ticks = x[d].ticks
                 /\ co2[d].active <=> x[d].active /\ d # c
                 /\ d # c => co2[d].next = x[d].next
      <4>1. co2[d] = co1[d]
        BY <3>3, <3>5
      <4> QED
        BY <1>5, <4>1
    <3>6. /\ co2[b].ticks = x[b].ticks
          /\ co2[b].active <=> x[b].active /\ b # c
          /\ co2[b].next = after
      BY <1>5, <3>1, <3>4
    <3>7. b = s[i - 1]
      BY DEF b
    <3> QED
      BY <3>1, <3>3, <3>5, <3>6, <3>7
  <2> QED
    BY <2>1, <2>2
<1> HIDE DEF co2, h2
<1>8. IsList(Cut(s, i), h2, co2)
  <2>1. DOMAIN co2 = Callout
    BY <1>7
  <2>2. \A d \in Callout : Has(s, d) /\ d # s[i] =>
            co2[d].next = IF i > 1 /\ d = s[i - 1] THEN x[s[i]].next ELSE x[d].next
    BY <1>7 DEF after, c
  <2>3. IsList(Cut(s, i), IF i = 1 THEN x[s[i]].next ELSE h, co2)
    BY <1>2, <2>1, <2>2, ListCuts
  <2> QED
    BY <2>3 DEF h2, after, c
<1>9. \A d \in Callout : Has(Cut(s, i), d) <=> Has(s, d) /\ d # c
  <2> SUFFICES ASSUME NEW d \in Callout PROVE Has(Cut(s, i), d) <=> Has(s, d) /\ d # s[i]
    BY DEF c
  <2> QED
    BY <1>2, HasCut
<1>10. \A d \in Callout : co2[d].active <=> Has(Cut(s, i), d)
  BY <1>2, <1>7, <1>9
<1>11. Timed(co2, h2, Cut(s, i))
  BY <1>7, <1>8, <1>10 DEF Timed
<1>12. p.co = co2 /\ p.head = h2 /\ p = Tab(p.co, p.head)
  BY <1>1 DEF Tab
<1> QED
  BY <1>7, <1>11, <1>12 DEF c

(* ble_npl_callout_remove, whether the callout is active or not.           *)
LEMMA CalloutLeaves ==
  ASSUME NEW x, NEW h, NEW s, Timed(x, h, s), NEW c \in Callout, NEW l, Sorted(s, l),
         NEW p, p = CalloutRemove(Tab(x, h), c)
  PROVE  /\ p = Tab(p.co, p.head)
         /\ \A d \in Callout : p.co[d].ticks = x[d].ticks /\ (p.co[d].active <=> x[d].active /\ d # c)
         /\ \E r : Timed(p.co, p.head, r) /\ Sorted(r, l)
<1>1. CASE Has(s, c)
  <2>1. PICK i \in 1 .. Len(s) : s[i] = c
    BY <1>1 DEF Has
  <2>2. /\ Timed(p.co, p.head, Cut(s, i)) /\ p = Tab(p.co, p.head)
        /\ \A d \in Callout : p.co[d].ticks = x[d].ticks /\ (p.co[d].active <=> x[d].active /\ d # s[i])
    BY <2>1, CalloutTakes
  <2>3. s \in Seq(DOMAIN x)
    BY DEF Timed, IsList
  <2>4. Sorted(Cut(s, i), l)
    BY <2>3, SortedCut
  <2> QED
    BY <2>1, <2>2, <2>4
<1>2. CASE ~Has(s, c)
  <2>1. p = Tab(x, h)
    BY <1>2, CalloutMisses
  <2>2. p.co = x /\ p.head = h
    BY <2>1 DEF Tab
  <2>3. ~x[c].active
    BY <1>2 DEF Timed
  <2> QED
    BY <2>1, <2>2, <2>3
<1> QED
  BY <1>1, <1>2

(* The place of a callout: behind those that expire no later.              *)
Place(x, s, c) ==
    Cardinality({i \in DOMAIN s : \A j \in 1 .. i : ~Later(x[s[j]].ticks, x[c].ticks)})

LEMMA PlaceIs ==
  ASSUME NEW x, NEW h, NEW s, Timed(x, h, s), NEW c \in Callout, NEW t \in Int,
         NEW l, Sorted(s, l), l[c] \in Span, x[c].ticks = (t + l[c]) % TickMod,
         \A d \in Callout : Has(s, d) => l[d] \in Span /\ x[d].ticks = (t + l[d]) % TickMod
  PROVE  /\ Place(x, s, c) \in 0 .. Len(s)
         /\ \A i \in 1 .. Len(s) : i <= Place(x, s, c) <=> l[s[i]] <= l[c]
<1> DEFINE n == Len(s)
           P == {i \in DOMAIN s : \A j \in 1 .. i : ~Later(x[s[j]].ticks, x[c].ticks)}
           k == Cardinality(P)
<1>1. n \in Nat /\ DOMAIN s = 1 .. n /\ \A i \in 1 .. n : s[i] \in Callout /\ Has(s, s[i])
  <2>1. IsList(s, h, x) /\ DOMAIN x = Callout
    BY DEF Timed
  <2> QED
    BY <2>1, ListUnfold DEF Has
<1>2. ASSUME NEW j \in 1 .. n PROVE ~Later(x[s[j]].ticks, x[c].ticks) <=> l[s[j]] <= l[c]
  <2>1. l[s[j]] \in Span /\ x[s[j]].ticks = (t + l[s[j]]) % TickMod
    BY <1>1
  <2>2. Delta((t + l[s[j]]) % TickMod, (t + l[c]) % TickMod) = l[s[j]] - l[c]
    BY <2>1, DeltaIs
  <2>3. l[s[j]] \in Int /\ l[c] \in Int
    BY <2>1, TimeFacts
  <2> QED
    BY <2>1, <2>2, <2>3 DEF Later
<1>3. P \in SUBSET (1 .. n) /\ \A i \in P : \A j \in 1 .. i : j \in P
  <2> SUFFICES ASSUME NEW i \in P, NEW j \in 1 .. i PROVE j \in P
    BY <1>1
  <2>1. i \in 1 .. n /\ j \in 1 .. n /\ 1 .. j \subseteq 1 .. i
    BY <1>1
  <2> QED
    BY <1>1, <2>1
<1>4. k \in 0 .. n /\ P = 1 .. k
  <2> HIDE DEF P, n
  <2> QED
    BY <1>1, <1>3, Prefix
<1>5. ASSUME NEW i \in 1 .. n PROVE i \in P <=> l[s[i]] <= l[c]
  <2>1. ASSUME i \in P PROVE l[s[i]] <= l[c]
    <3>1. ~Later(x[s[i]].ticks, x[c].ticks)
      <4>1. i \in 1 .. i
        OBVIOUS
      <4> QED
        BY <2>1, <4>1
    <3> QED
      BY <1>2, <3>1
  <2>2. ASSUME l[s[i]] <= l[c] PROVE i \in P
    <3> SUFFICES ASSUME NEW j \in 1 .. i PROVE ~Later(x[s[j]].ticks, x[c].ticks)
      BY <1>1
    <3>1. j \in 1 .. n /\ (j = i \/ j < i)
      BY <1>1
    <3>2. l[s[j]] <= l[s[i]] \/ j = i
      BY <3>1 DEF Sorted
    <3>3. l[s[j]] \in Int /\ l[s[i]] \in Int /\ l[c] \in Int
      BY <1>1, <3>1, TimeFacts
    <3>4. l[s[j]] <= l[c]
      BY <2>2, <3>2, <3>3
    <3> QED
      BY <1>2, <3>1, <3>4
  <2> QED
    BY <2>1, <2>2
<1>6. k = Place(x, s, c)
  BY DEF Place
<1> HIDE DEF k, P
<1>7. ASSUME NEW i \in 1 .. n PROVE i <= k <=> i \in P
  BY <1>1, <1>4
<1> QED
  BY <1>4, <1>5, <1>6, <1>7

LEMMA SortedInsert ==
  ASSUME NEW s \in Seq(Callout), NEW c \in Callout, NEW k \in 0 .. Len(s), NEW l, Sorted(s, l),
         \A i \in 1 .. Len(s) : l[s[i]] \in Int, l[c] \in Int,
         \A i \in 1 .. Len(s) : i <= k <=> l[s[i]] <= l[c]
  PROVE  Sorted(Insert(s, k, c), l)
<1> DEFINE n == Len(s)
           r == Insert(s, k, c)
<1>1. n \in Nat /\ k \in 0 .. n
  BY LenProperties
<1>2. Len(r) = n + 1 /\ \A j \in 1 .. n + 1 : r[j] = IF j <= k THEN s[j] ELSE IF j = k + 1 THEN c ELSE s[j - 1]
  BY InsertFacts
<1>3. \A i, j \in 1 .. n : i < j => l[s[i]] <= l[s[j]]
  BY DEF Sorted
<1> HIDE DEF r
<1> SUFFICES ASSUME NEW a \in 1 .. n + 1, NEW b \in 1 .. n + 1, a < b PROVE l[r[a]] <= l[r[b]]
  BY <1>2 DEF Sorted, r
<1>4. CASE b <= k
  <2>1. a \in 1 .. n /\ b \in 1 .. n /\ r[a] = s[a] /\ r[b] = s[b]
    BY <1>1, <1>2, <1>4
  <2> QED
    BY <1>3, <2>1
<1>5. CASE b = k + 1
  <2>1. a \in 1 .. n /\ a <= k /\ r[a] = s[a] /\ r[b] = c
    BY <1>1, <1>2, <1>5
  <2> QED
    BY <2>1
<1>6. CASE b > k + 1 /\ a <= k
  <2>1. a \in 1 .. n /\ b - 1 \in 1 .. n /\ a < b - 1 /\ r[a] = s[a] /\ r[b] = s[b - 1]
    BY <1>1, <1>2, <1>6
  <2> QED
    BY <1>3, <2>1
<1>7. CASE b > k + 1 /\ a = k + 1
  <2>1. b - 1 \in 1 .. n /\ ~(b - 1 <= k) /\ r[a] = c /\ r[b] = s[b - 1]
    BY <1>1, <1>2, <1>7
  <2>2. ~(l[s[b - 1]] <= l[c]) /\ l[s[b - 1]] \in Int
    BY <2>1
  <2> QED
    BY <2>1, <2>2
<1>8. CASE b > k + 1 /\ a > k + 1
  <2>1. a - 1 \in 1 .. n /\ b - 1 \in 1 .. n /\ a - 1 < b - 1 /\ r[a] = s[a - 1] /\ r[b] = s[b - 1]
    BY <1>1, <1>2, <1>8
  <2> QED
    BY <1>3, <2>1
<1> QED
  BY <1>1, <1>4, <1>5, <1>6, <1>7, <1>8

(* ble_npl_callout_insert, of a callout that is not active.                *)
LEMMA CalloutEnters ==
  ASSUME NEW x, NEW h, NEW s, Timed(x, h, s), NEW c \in Callout, ~x[c].active, NEW t \in Int,
         NEW l, Sorted(s, l), l[c] \in Span, x[c].ticks = (t + l[c]) % TickMod,
         \A d \in Callout : x[d].active => l[d] \in Span /\ x[d].ticks = (t + l[d]) % TickMod,
         NEW p, p = CalloutInsert(Tab(x, h), c)
  PROVE  /\ \A d \in Callout : p.co[d].ticks = x[d].ticks /\ (p.co[d].active <=> x[d].active \/ d = c)
         /\ \E r : Timed(p.co, p.head, r) /\ Sorted(r, l)
<1> DEFINE n == Len(s)
           k == Place(x, s, c)
           after == IF k = n THEN NULL ELSE s[k + 1]
           co1 == [x EXCEPT ![c].next = after, ![c].active = TRUE]
           co2 == IF k = 0 THEN co1 ELSE [co1 EXCEPT ![s[k]].next = c]
           h2 == IF k = 0 THEN c ELSE h
           r == Insert(s, k, c)
<1>1. /\ x \in [Callout -> CalloutRec] /\ DOMAIN x = Callout /\ IsList(s, h, x) /\ s \in Seq(Callout)
      /\ \A d \in Callout : x[d].active <=> Has(s, d)
  BY DEF Timed, IsList
<1>2. /\ n \in Nat /\ \A j \in 1 .. n : s[j] \in Callout /\ Has(s, s[j])
      /\ \A j, i \in 1 .. n : s[j] = s[i] => j = i
  BY <1>1, ListUnfold DEF Has
<1>3. k \in 0 .. n /\ \A i \in 1 .. n : i <= k <=> l[s[i]] <= l[c]
  BY <1>1, PlaceIs
<1>4. p = [co |-> co2, head |-> h2]
  <2>1. Walk(h, x) = s
    BY <1>1, CalloutFacts, WalkFinds
  <2>2. p = IF k = 0 THEN [co |-> co1, head |-> c]
            ELSE [co |-> [co1 EXCEPT ![s[k]].next = c], head |-> h]
    BY ZenonT(30), <2>1 DEF CalloutInsert, Tab, Place
  <2> HIDE DEF k, co1
  <2> QED
    BY <2>2
<1>5. after \in Callout \cup {NULL} /\ ~Has(s, c)
  <2>1. k # n => k + 1 \in 1 .. n
    BY <1>2, <1>3
  <2> HIDE DEF k, n
  <2> QED
    BY <1>1, <1>2, <2>1
<1> HIDE DEF k, after
<1>6. /\ co1 \in [Callout -> CalloutRec] /\ co1[c].active /\ co1[c].ticks = x[c].ticks /\ co1[c].next = after
      /\ \A d \in Callout : d # c => co1[d] = x[d]
  <2>1. [[x[c] EXCEPT !.next = after] EXCEPT !.active = TRUE] \in CalloutRec
    BY <1>1, <1>5 DEF CalloutRec
  <2>2. co1 = [x EXCEPT ![c] = [[x[c] EXCEPT !.next = after] EXCEPT !.active = TRUE]]
    BY <1>1, <1>5
  <2> QED
    BY <1>1, <1>5, <2>1, <2>2 DEF CalloutRec
<1> HIDE DEF co1
<1>7. k > 0 => s[k] \in Callout /\ s[k] # c
  <2>1. k > 0 => k \in 1 .. n
    BY <1>2, <1>3
  <2> QED
    BY <1>2, <1>5, <2>1
<1>8. /\ co2 \in [Callout -> CalloutRec] /\ co2[c].next = after
      /\ \A d \in Callout : /\ co2[d].ticks = x[d].ticks
                            /\ co2[d].active <=> x[d].active \/ d = c
                            /\ d # c => co2[d].next = IF k > 0 /\ d = s[k] THEN c ELSE x[d].next
  <2>1. CASE k = 0
    BY <1>3, <1>6, <2>1
  <2>2. CASE k # 0
    <3> DEFINE b == s[k]
    <3>1. co2 = [co1 EXCEPT ![b].next = c] /\ b \in Callout /\ b # c /\ k > 0
      BY <1>3, <1>7, <2>2
    <3>2. b = s[k]
      OBVIOUS
    <3> HIDE DEF co2, b
    <3>3. [co1[b] EXCEPT !.next = c] \in CalloutRec
      BY <1>6, <3>1 DEF CalloutRec
    <3>4. co2 \in [Callout -> CalloutRec] /\ \A d \in Callout : d # b => co2[d] = co1[d]
      BY <1>6, <3>1, <3>3
    <3>5. co2[b].next = c /\ (co2[b].active <=> co1[b].active) /\ co2[b].ticks = co1[b].ticks
      BY <1>6, <3>1 DEF CalloutRec
    <3>6. ASSUME NEW d \in Callout, d # b
          PROVE  /\ co2[d].ticks = x[d].ticks
                 /\ co2[d].active <=> x[d].active \/ d = c
                 /\ d # c => co2[d].next = x[d].next
      <4>1. co2[d] = co1[d]
        BY <3>4, <3>6
      <4> QED
        BY <1>6, <4>1
    <3>7. /\ co2[b].ticks = x[b].ticks
          /\ co2[b].active <=> x[b].active \/ b = c
          /\ co2[b].next = c
      BY <1>6, <3>1, <3>5
    <3>8. co2[c].next = after
      BY <1>6, <3>1, <3>4
    <3> QED
      BY <3>1, <3>2, <3>4, <3>6, <3>7, <3>8
  <2> QED
    BY <2>1, <2>2
<1> HIDE DEF co2, h2
<1>9. IsList(r, h2, co2)
  <2>1. DOMAIN co2 = Callout /\ k \in 0 .. Len(s)
    BY <1>3, <1>8
  <2>2. co2[c].next = IF k = Len(s) THEN NULL ELSE s[k + 1]
    BY <1>8 DEF after
  <2>3. \A d \in Callout : Has(s, d) => co2[d].next = IF k > 0 /\ d = s[k] THEN c ELSE x[d].next
    BY <1>5, <1>8
  <2>4. IsList(Insert(s, k, c), IF k = 0 THEN c ELSE h, co2)
    BY <1>1, <1>5, <2>1, <2>2, <2>3, ListInserts
  <2> QED
    BY <2>4 DEF h2
<1>10. \A d \in Callout : Has(r, d) <=> Has(s, d) \/ d = c
  <2> SUFFICES ASSUME NEW d \in Callout PROVE Has(r, d) <=> Has(s, d) \/ d = c
    OBVIOUS
  <2> QED
    BY <1>1, <1>3, HasInserted
<1>11. Timed(co2, h2, r)
  <2>1. \A d \in Callout : co2[d].active <=> Has(r, d)
    BY <1>1, <1>8, <1>10
  <2> QED
    BY <1>8, <1>9, <2>1 DEF Timed
<1>12. Sorted(r, l)
  <2>1. (\A i \in 1 .. n : l[s[i]] \in Int) /\ l[c] \in Int
    BY <1>1, <1>2, TimeFacts
  <2> QED
    BY <1>1, <1>3, <2>1, SortedInsert
<1> QED
  BY <1>4, <1>8, <1>11, <1>12

-----------------------------------------------------------------------------
(* What the operations do to the queues as sequences.                      *)

Fifo(v, w) == [q \in Queue |-> Walk(w[q].head, v)]

LEMMA FifoIs ==
  ASSUME NEW v, NEW w, NEW f, Linked(v, w, f)
  PROVE  f = Fifo(v, w) /\ Linked(v, w, Fifo(v, w))
<1>1. f \in [Queue -> Seq(Event)] /\ DOMAIN v = Event /\ IsFiniteSet(Event) /\ NULL \notin Event
  BY NplAssumption, EventFacts DEF Linked
<1>2. ASSUME NEW q \in Queue PROVE Walk(w[q].head, v) = f[q]
  <2>1. IsList(f[q], w[q].head, v)
    BY DEF Linked
  <2> QED
    BY <1>1, <2>1, WalkFinds
<1>3. f = Fifo(v, w)
  BY <1>1, <1>2 DEF Fifo
<1> QED
  BY <1>3

LEMMA ContainsIs ==
  ASSUME NEW s, NEW e
  PROVE  Abs!Contains(s, e) <=> Has(s, e)
BY DEF Abs!Contains, Has

LEMMA WithoutIs ==
  ASSUME NEW D, NEW s \in Seq(D), NoRepeat(s)
  PROVE  /\ \A i \in 1 .. Len(s) : Abs!Without(s, s[i]) = Cut(s, i)
         /\ \A e : ~Has(s, e) => Abs!Without(s, e) = s
<1>1. DOMAIN s = 1 .. Len(s)
  BY LenProperties
<1>2. ASSUME NEW i \in 1 .. Len(s) PROVE Abs!Without(s, s[i]) = Cut(s, i)
  <2>1. Abs!Contains(s, s[i])
    BY ContainsIs DEF Has
  <2>2. (CHOOSE j \in DOMAIN s : s[j] = s[i]) = i
    BY <1>1 DEF NoRepeat
  <2> QED
    BY <2>1, <2>2 DEF Abs!Without, Abs!RemoveAt, Cut
<1>3. ASSUME NEW e, ~Has(s, e) PROVE Abs!Without(s, e) = s
  BY <1>3, ContainsIs DEF Abs!Without
<1> QED
  BY <1>2, <1>3

LEMMA TailIs ==
  ASSUME NEW D, NEW s \in Seq(D), s # <<>>
  PROVE  Tail(s) = Cut(s, 1)
<1> DEFINE n == Len(s)
<1>1. n \in Nat /\ n # 0 /\ 1 \in 1 .. n
  BY LenProperties, EmptySeq
<1>2. Cut(s, 1) \in Seq(D) /\ Len(Cut(s, 1)) = n - 1 /\ \A j \in 1 .. n - 1 : Cut(s, 1)[j] = IF j < 1 THEN s[j] ELSE s[j + 1]
  BY <1>1, CutFacts
<1>3. Tail(s) \in Seq(D) /\ Len(Tail(s)) = n - 1 /\ \A j \in 1 .. n - 1 : Tail(s)[j] = s[j + 1]
  BY <1>1, HeadTailProperties
<1> QED
  BY <1>2, <1>3, SeqEqual

LEMMA PutDoes ==
  ASSUME NEW v, NEW w, Linked(v, w, Fifo(v, w)), NEW q \in Queue, NEW e \in Event,
         NEW p, p = EventqPut(Pair(v, w), q, e)
  PROVE  /\ Linked(p.ev, p.evq, Fifo(p.ev, p.evq))
         /\ v[e].queued => p.ev = v /\ p.evq = w
         /\ ~v[e].queued => Fifo(p.ev, p.evq) = [Fifo(v, w) EXCEPT ![q] = Append(@, e)]
<1>1. CASE v[e].queued
  <2>1. p = Pair(v, w)
    BY <1>1 DEF EventqPut, Pair
  <2> QED
    BY <1>1, <2>1 DEF Pair
<1>2. CASE ~v[e].queued
  <2>1. Linked(p.ev, p.evq, [Fifo(v, w) EXCEPT ![q] = Append(@, e)])
    BY <1>2, PutLinks
  <2> QED
    BY <1>2, <2>1, FifoIs
<1> QED
  BY <1>1, <1>2

LEMMA RemoveDoes ==
  ASSUME NEW v, NEW w, Linked(v, w, Fifo(v, w)), NEW q \in Queue, NEW e \in Event,
         NEW p, p = EventqRemove(Pair(v, w), q, e)
  PROVE  /\ Linked(p.ev, p.evq, Fifo(p.ev, p.evq))
         /\ Fifo(p.ev, p.evq) = [Fifo(v, w) EXCEPT ![q] = Abs!Without(@, e)]
<1> DEFINE f == Fifo(v, w)
<1>1. f \in [Queue -> Seq(Event)] /\ f[q] \in Seq(Event) /\ NoRepeat(f[q])
  BY DEF Linked, IsList
<1> HIDE DEF f
<1>2. CASE Has(f[q], e)
  <2>1. PICK i \in 1 .. Len(f[q]) : f[q][i] = e
    BY <1>2 DEF Has
  <2>2. Linked(p.ev, p.evq, [f EXCEPT ![q] = Cut(@, i)])
    BY <2>1, RemoveLinks DEF f
  <2>3. Abs!Without(f[q], e) = Cut(f[q], i)
    BY <1>1, <2>1, WithoutIs
  <2> QED
    BY <2>2, <2>3, FifoIs DEF f
<1>3. CASE ~Has(f[q], e)
  <2>1. p = Pair(v, w)
    BY <1>3, RemoveMisses DEF f
  <2>2. Abs!Without(f[q], e) = f[q]
    BY <1>1, <1>3, WithoutIs
  <2>3. p.ev = v /\ p.evq = w
    BY <2>1 DEF Pair
  <2>4. f = [f EXCEPT ![q] = Abs!Without(@, e)]
    BY <1>1, <2>2
  <2> QED
    BY <2>3, <2>4 DEF f
<1> QED
  BY <1>2, <1>3

LEMMA PopDoes ==
  ASSUME NEW v, NEW w, Linked(v, w, Fifo(v, w)), NEW q \in Queue, w[q].head # NULL,
         NEW p, p = EventqPop(Pair(v, w), q)
  PROVE  /\ Linked(p.ev, p.evq, Fifo(p.ev, p.evq)) /\ Fifo(v, w)[q] # <<>>
         /\ Fifo(p.ev, p.evq) = [Fifo(v, w) EXCEPT ![q] = Tail(@)]
<1> DEFINE f == Fifo(v, w)
<1>1. 1 \in 1 .. Len(f[q]) /\ p = EventqRemove(Pair(v, w), q, f[q][1])
  BY PopRemoves
<1>2. f[q] \in Seq(Event)
  BY DEF Linked
<1> HIDE DEF f
<1>3. Linked(p.ev, p.evq, [f EXCEPT ![q] = Cut(@, 1)])
  BY <1>1, RemoveLinks DEF f
<1>4. f[q] # <<>> /\ Tail(f[q]) = Cut(f[q], 1)
  <2>1. f[q] # <<>>
    BY <1>1, <1>2, EmptySeq
  <2> QED
    BY <1>2, <2>1, TailIs
<1> QED
  BY <1>3, <1>4, FifoIs DEF f

-----------------------------------------------------------------------------
(* What the operations do to the callouts.                                 *)

Ticking(x, h, l, t) ==
    /\ Timed(x, h, Walk(h, x)) /\ Sorted(Walk(h, x), l) /\ Clocked(x, l, t)
    /\ l \in [Callout -> Span \cup {Never}] /\ t \in 0 .. TickMod - 1

LEMMA TimedWalk ==
  ASSUME NEW x, NEW h, NEW s, Timed(x, h, s)
  PROVE  Walk(h, x) = s
<1>1. IsList(s, h, x) /\ DOMAIN x = Callout
  BY DEF Timed
<1> QED
  BY <1>1, CalloutFacts, WalkFinds

LEMMA TickingFrom ==
  ASSUME NEW x, NEW h, NEW s, NEW l, NEW t, Timed(x, h, s), Sorted(s, l), Clocked(x, l, t),
         l \in [Callout -> Span \cup {Never}], t \in 0 .. TickMod - 1
  PROVE  Ticking(x, h, l, t)
<1>1. Walk(h, x) = s
  BY TimedWalk
<1> QED
  BY <1>1 DEF Ticking

LEMMA SortedSame ==
  ASSUME NEW x, NEW h, NEW s, Timed(x, h, s), NEW l, Sorted(s, l), NEW m,
         \A d \in Callout : x[d].active => m[d] = l[d]
  PROVE  Sorted(s, m)
<1> SUFFICES ASSUME NEW i \in 1 .. Len(s), NEW j \in 1 .. Len(s), i < j PROVE m[s[i]] <= m[s[j]]
  BY DEF Sorted
<1>1. IsList(s, h, x) /\ DOMAIN x = Callout
  BY DEF Timed
<1>2. \A k \in 1 .. Len(s) : s[k] \in Callout /\ Has(s, s[k])
  BY <1>1, ListUnfold DEF Has
<1>3. m[s[i]] = l[s[i]] /\ m[s[j]] = l[s[j]]
  BY <1>2 DEF Timed
<1> QED
  BY <1>3 DEF Sorted

(* ble_npl_callout_stop.                                                   *)
LEMMA StopTicks ==
  ASSUME NEW x, NEW h, NEW l, NEW t, Ticking(x, h, l, t), NEW c \in Callout,
         NEW p, p = CalloutRemove(Tab(x, h), c)
  PROVE  Ticking(p.co, p.head, [l EXCEPT ![c] = Never], t) /\ ~p.co[c].active /\ p = Tab(p.co, p.head)
<1> DEFINE m == [l EXCEPT ![c] = Never]
<1>1. /\ Timed(x, h, Walk(h, x)) /\ Sorted(Walk(h, x), l) /\ Clocked(x, l, t)
      /\ l \in [Callout -> Span \cup {Never}] /\ t \in 0 .. TickMod - 1
  BY DEF Ticking
<1>2. /\ \A d \in Callout : p.co[d].ticks = x[d].ticks /\ (p.co[d].active <=> x[d].active /\ d # c)
      /\ p = Tab(p.co, p.head)
  BY <1>1, CalloutLeaves
<1>3. PICK r : Timed(p.co, p.head, r) /\ Sorted(r, l)
  BY <1>1, CalloutLeaves
<1>4. m \in [Callout -> Span \cup {Never}] /\ m[c] = Never /\ \A d \in Callout : d # c => m[d] = l[d]
  BY <1>1
<1> HIDE DEF m
<1>5. Sorted(r, m)
  <2>1. \A d \in Callout : p.co[d].active => m[d] = l[d]
    BY <1>2, <1>4
  <2> QED
    BY <1>3, <2>1, SortedSame
<1>6. Clocked(p.co, m, t)
  BY <1>1, <1>2, <1>4 DEF Clocked
<1>7. Ticking(p.co, p.head, m, t)
  BY <1>1, <1>3, <1>4, <1>5, <1>6, TickingFrom
<1> QED
  BY <1>2, <1>7 DEF m

(* A callout that is not active gets another time.                         *)
LEMMA SetTicks ==
  ASSUME NEW x, NEW h, NEW l, NEW t, Ticking(x, h, l, t), NEW c \in Callout, ~x[c].active,
         NEW k \in 0 .. TickMod - 1
  PROVE  Ticking([x EXCEPT ![c].ticks = k], h, l, t)
<1> DEFINE y == [x EXCEPT ![c].ticks = k]
           s == Walk(h, x)
<1>1. /\ x \in [Callout -> CalloutRec] /\ DOMAIN x = Callout /\ IsList(s, h, x)
      /\ \A d \in Callout : x[d].active <=> Has(s, d)
      /\ Sorted(s, l) /\ Clocked(x, l, t)
      /\ l \in [Callout -> Span \cup {Never}] /\ t \in 0 .. TickMod - 1
  BY DEF Ticking, Timed
<1> HIDE DEF s
<1>2. [x[c] EXCEPT !.ticks = k] \in CalloutRec
  BY <1>1 DEF CalloutRec
<1>3. /\ y \in [Callout -> CalloutRec] /\ \A d \in Callout : d # c => y[d] = x[d]
      /\ y[c].next = x[c].next /\ (y[c].active <=> x[c].active)
  BY <1>1, <1>2 DEF CalloutRec
<1> HIDE DEF y
<1>4. IsList(s, h, y)
  <2>1. DOMAIN y = DOMAIN x /\ \A d \in DOMAIN x : Has(s, d) => y[d].next = x[d].next
    BY <1>1, <1>3
  <2> QED
    BY <1>1, <2>1, ListStays
<1>5. Timed(y, h, s)
  BY <1>1, <1>3, <1>4 DEF Timed
<1>6. Clocked(y, l, t)
  <2> SUFFICES ASSUME NEW d \in Callout
               PROVE  IF y[d].active THEN l[d] \in Span /\ y[d].ticks = (t + l[d]) % TickMod ELSE l[d] = Never
    BY DEF Clocked
  <2>1. CASE d # c
    BY <1>1, <1>3, <2>1 DEF Clocked
  <2>2. CASE d = c
    BY <1>1, <1>3, <2>2 DEF Clocked
  <2> QED
    BY <2>1, <2>2
<1> QED
  BY <1>1, <1>5, <1>6, TickingFrom DEF y

(* ble_npl_callout_insert, of a callout that has been given its time.      *)
LEMMA StartTicks ==
  ASSUME NEW x, NEW h, NEW l, NEW t, Ticking(x, h, l, t), NEW c \in Callout, ~x[c].active,
         NEW n \in Span, x[c].ticks = (t + n) % TickMod,
         NEW p, p = CalloutInsert(Tab(x, h), c)
  PROVE  Ticking(p.co, p.head, [l EXCEPT ![c] = n], t)
<1> DEFINE m == [l EXCEPT ![c] = n]
           s == Walk(h, x)
<1>1. /\ Timed(x, h, s) /\ Sorted(s, l) /\ Clocked(x, l, t)
      /\ l \in [Callout -> Span \cup {Never}] /\ t \in 0 .. TickMod - 1
  BY DEF Ticking
<1> HIDE DEF s
<1>2. m \in [Callout -> Span \cup {Never}] /\ m[c] = n /\ \A d \in Callout : d # c => m[d] = l[d]
  BY <1>1
<1> HIDE DEF m
<1>3. Sorted(s, m)
  <2>1. \A d \in Callout : x[d].active => m[d] = l[d]
    BY <1>2
  <2> QED
    BY <1>1, <2>1, SortedSame
<1>4. \A d \in Callout : x[d].active => m[d] \in Span /\ x[d].ticks = (t + m[d]) % TickMod
  BY <1>1, <1>2 DEF Clocked
<1>5. /\ \A d \in Callout : p.co[d].ticks = x[d].ticks /\ (p.co[d].active <=> x[d].active \/ d = c)
      /\ \E r : Timed(p.co, p.head, r) /\ Sorted(r, m)
  <2>1. t \in Int /\ m[c] \in Span /\ x[c].ticks = (t + m[c]) % TickMod
    BY <1>1, <1>2
  <2> QED
    BY SMTT(30), <1>1, <1>3, <1>4, <2>1, CalloutEnters
<1>6. Clocked(p.co, m, t)
  BY <1>1, <1>2, <1>4, <1>5 DEF Clocked
<1>7. PICK r : Timed(p.co, p.head, r) /\ Sorted(r, m)
  BY <1>5
<1> QED
  BY <1>1, <1>2, <1>6, <1>7, TickingFrom DEF m

(* The head is due the longest.                                            *)
LEMMA HeadLeast ==
  ASSUME NEW x, NEW h, NEW l, NEW t, Ticking(x, h, l, t)
  PROVE  /\ h \in Callout \cup {NULL}
         /\ h = NULL => \A d \in Callout : ~x[d].active
         /\ h # NULL => h \in Callout /\ x[h].active /\ \A d \in Callout : x[d].active => l[h] <= l[d]
<1> DEFINE s == Walk(h, x)
           n == Len(s)
<1>1. /\ x \in [Callout -> CalloutRec] /\ DOMAIN x = Callout /\ IsList(s, h, x)
      /\ \A d \in Callout : x[d].active <=> Has(s, d)
      /\ Sorted(s, l) /\ Clocked(x, l, t)
  BY DEF Ticking, Timed
<1> HIDE DEF s
<1>2. /\ n \in Nat /\ \A i \in 1 .. n : s[i] \in Callout /\ Has(s, s[i])
      /\ h = IF n = 0 THEN NULL ELSE s[1]
  BY <1>1, ListUnfold DEF Has
<1>3. CASE n = 0
  BY <1>1, <1>2, <1>3 DEF Has
<1>4. CASE n # 0
  <2>1. 1 \in 1 .. n /\ h = s[1] /\ h \in Callout /\ h # NULL
    BY <1>2, <1>4, CalloutFacts
  <2>2. x[h].active
    BY <1>1, <1>2, <2>1
  <2>3. ASSUME NEW d \in Callout, x[d].active PROVE l[h] <= l[d]
    <3>1. PICK i \in 1 .. n : s[i] = d
      BY <1>1, <2>3 DEF Has
    <3>2. l[h] \in Int
      BY <1>1, <2>1, <2>2, TimeFacts DEF Clocked
    <3>3. CASE i = 1
      BY <2>1, <3>1, <3>2, <3>3
    <3>4. CASE i # 1
      <4>1. 1 < i
        BY <1>2, <3>1, <3>4
      <4> QED
        BY <1>1, <2>1, <3>1, <4>1 DEF Sorted
    <3> QED
      BY <3>3, <3>4
  <2> QED
    BY <2>1, <2>2, <2>3
<1> QED
  BY <1>3, <1>4

(* A callout is due when no tick is left.                                  *)
LEMMA DueIs ==
  ASSUME NEW x, NEW h, NEW l, NEW t, Ticking(x, h, l, t), NEW c \in Callout, x[c].active
  PROVE  l[c] \in Int /\ l[c] # Never /\ (Delta(x[c].ticks, t) > 0 <=> l[c] > 0)
<1>1. l[c] \in Span /\ x[c].ticks = (t + l[c]) % TickMod /\ t \in 0 .. TickMod - 1
  BY DEF Ticking, Clocked
<1>2. t = (t + 0) % TickMod /\ t \in Int /\ 0 \in Span
  BY <1>1, NowIs, TimeFacts
<1>3. Delta((t + l[c]) % TickMod, (t + 0) % TickMod) = l[c] - 0
  BY <1>1, <1>2, DeltaIs
<1>4. Delta(x[c].ticks, t) = l[c] - 0
  BY <1>1, <1>2, <1>3
<1>5. l[c] \in Int /\ l[c] # Never
  BY <1>1, TimeFacts
<1> QED
  BY <1>4, <1>5

(* ble_npl_process_callouts takes the head as ble_npl_callout_remove would.*)
LEMMA HeadTaken ==
  ASSUME NEW x, NEW h, NEW l, NEW t, Ticking(x, h, l, t), h # NULL
  PROVE  CalloutRemove(Tab(x, h), h) =
             Tab([x EXCEPT ![h].next = NULL, ![h].active = FALSE], x[h].next)
<1> DEFINE s == Walk(h, x)
<1>1. Timed(x, h, s) /\ IsList(s, h, x)
  BY DEF Ticking, Timed
<1> HIDE DEF s
<1>2. 1 \in 1 .. Len(s) /\ h = s[1]
  <2>1. Len(s) \in Nat /\ h = IF Len(s) = 0 THEN NULL ELSE s[1]
    BY <1>1, ListUnfold
  <2> QED
    BY <2>1
<1>3. CalloutRemove(Tab(x, h), s[1]) = TakenOff(x, h, s, 1)
  BY <1>1, <1>2, CalloutFinds
<1> QED
  BY <1>2, <1>3 DEF TakenOff, Tab

(* A sum can wrap twice.                                                   *)
LEMMA ModPlus ==
  ASSUME NEW m \in Nat \ {0}, NEW a \in Int, NEW b \in Int
  PROVE  ((a % m) + b) % m = (a + b) % m /\ (a % m) \in 0 .. m - 1
<1> DEFINE q == a \div m
           r == a % m
           k == (r + b) \div m
           z == (r + b) % m
<1>1. q \in Int /\ r \in 0 .. m - 1 /\ a = m * q + r
  BY DivMod
<1> HIDE DEF q, r
<1>2. k \in Int /\ z \in 0 .. m - 1 /\ r + b = m * k + z
  <2>1. r + b \in Int
    BY <1>1
  <2> QED
    BY <2>1, DivMod
<1> HIDE DEF k
<1>3. (r + b) % m = z
  OBVIOUS
<1> HIDE DEF z
<1>4. q + k \in Int /\ m * (q + k) = m * q + m * k
  BY <1>1, <1>2
<1>5. a + b = m * (q + k) + z
  <2>1. m * q \in Int /\ m * k \in Int
    BY <1>1, <1>2
  <2> QED
    BY <1>1, <1>2, <1>4, <2>1
<1>6. (m * (q + k) + z) % m = z
  BY <1>2, <1>4, ModOf
<1> QED
  BY <1>1, <1>3, <1>5, <1>6 DEF r

LEMMA TimePasses ==
  ASSUME NEW x, NEW h, NEW l, NEW t, Ticking(x, h, l, t), \A c \in Callout : l[c] > -MaxLate
  PROVE  Ticking(x, h, [c \in Callout |-> IF l[c] = Never THEN Never ELSE l[c] - 1], (t + 1) % TickMod)
<1> DEFINE m == [c \in Callout |-> IF l[c] = Never THEN Never ELSE l[c] - 1]
           s == Walk(h, x)
           u == (t + 1) % TickMod
<1>1. /\ Timed(x, h, s) /\ Sorted(s, l) /\ Clocked(x, l, t)
      /\ l \in [Callout -> Span \cup {Never}] /\ t \in 0 .. TickMod - 1 /\ t \in Int
  BY DEF Ticking
<1> HIDE DEF s
<1>2. \A c \in Callout : m[c] = IF l[c] = Never THEN Never ELSE l[c] - 1
  OBVIOUS
<1>3. \A c \in Callout : l[c] \in Span => l[c] \in Int /\ l[c] - 1 \in Span /\ l[c] # Never
  BY TimeFacts
<1>4. m \in [Callout -> Span \cup {Never}]
  BY <1>1, <1>2, <1>3
<1> HIDE DEF m
<1>5. u \in 0 .. TickMod - 1 /\ \A b \in Int : (u + b) % TickMod = ((t + 1) + b) % TickMod
  <2>1. TickMod \in Nat \ {0} /\ t + 1 \in Int
    BY <1>1, TimeFacts
  <2>2. ASSUME NEW b \in Int PROVE (u + b) % TickMod = ((t + 1) + b) % TickMod
    BY <2>1, ModPlus
  <2>3. u \in 0 .. TickMod - 1
    BY <2>1, DivMod
  <2> QED
    BY <2>2, <2>3
<1> HIDE DEF u
<1>6. Clocked(x, m, u)
  <2> SUFFICES ASSUME NEW c \in Callout
               PROVE  IF x[c].active THEN m[c] \in Span /\ x[c].ticks = (u + m[c]) % TickMod ELSE m[c] = Never
    BY DEF Clocked
  <2>1. CASE x[c].active
    <3>1. l[c] \in Span /\ x[c].ticks = (t + l[c]) % TickMod
      BY <1>1, <2>1 DEF Clocked
    <3>2. l[c] \in Int /\ l[c] - 1 \in Span /\ m[c] = l[c] - 1 /\ l[c] - 1 \in Int
      BY <1>2, <1>3, <3>1
    <3>3. (u + (l[c] - 1)) % TickMod = ((t + 1) + (l[c] - 1)) % TickMod
      BY <1>5, <3>2
    <3>4. (t + 1) + (l[c] - 1) = t + l[c]
      BY <1>1, <3>2
    <3> QED
      BY <2>1, <3>1, <3>2, <3>3, <3>4
  <2>2. CASE ~x[c].active
    BY <1>1, <1>2, <2>2 DEF Clocked
  <2> QED
    BY <2>1, <2>2
<1>7. Sorted(s, m)
  <2> SUFFICES ASSUME NEW i \in 1 .. Len(s), NEW j \in 1 .. Len(s), i < j PROVE m[s[i]] <= m[s[j]]
    BY DEF Sorted
  <2>1. IsList(s, h, x) /\ DOMAIN x = Callout
    BY <1>1 DEF Timed
  <2>2. \A k \in 1 .. Len(s) : s[k] \in Callout /\ Has(s, s[k])
    BY <2>1, ListUnfold DEF Has
  <2>3. \A k \in 1 .. Len(s) : l[s[k]] \in Span
    BY <1>1, <2>2 DEF Timed, Clocked
  <2>4. l[s[i]] <= l[s[j]]
    BY <1>1 DEF Sorted
  <2>5. l[s[i]] \in Int /\ l[s[j]] \in Int /\ m[s[i]] = l[s[i]] - 1 /\ m[s[j]] = l[s[j]] - 1
    BY <1>2, <1>3, <2>2, <2>3
  <2> QED
    BY <2>4, <2>5
<1> QED
  BY <1>1, <1>4, <1>5, <1>6, <1>7, TickingFrom DEF m, u

-----------------------------------------------------------------------------
(* The inductive invariant: the links are lists, what is on them agrees    *)
(* with the flags and pointers of the elements, and the callouts' times    *)
(* say, in the clock that wraps, how many ticks are really left.           *)

NplInv ==
    /\ Linked(ev, evq, Fifo(ev, evq))
    /\ Ticking(co, coHead, left, now)
    /\ serving \in Queue \cup {"wait", "no"}

LEMMA InitNpl ==
  ASSUME Init
  PROVE  NplInv
<1>1. /\ ev = [e \in Event |-> NoEvent] /\ evq = [q \in Queue |-> [head |-> NULL, tail |-> NULL]]
      /\ co = [c \in Callout |-> Idle] /\ coHead = NULL /\ now = 0 /\ serving = "no"
      /\ left = [c \in Callout |-> Never]
  BY DEF Init
<1>2. /\ \A D : <<>> \in Seq(D) /\ Len(<<>>) = 0 /\ NoRepeat(<<>>)
      /\ \A e : ~Has(<<>>, e)
  BY EmptySeq DEF NoRepeat, Has
<1>3. \A rec : IsList(<<>>, NULL, rec)
  BY <1>2 DEF IsList
<1>4. Linked(ev, evq, [q \in Queue |-> <<>>])
  <2>1. ev \in [Event -> EventRec] /\ \A e \in Event : ev[e] = NoEvent /\ ~ev[e].queued
    BY <1>1, EventFacts
  <2>2. evq \in [Queue -> QueueRec] /\ \A q \in Queue : evq[q].head = NULL /\ evq[q].tail = NULL
    BY <1>1 DEF QueueRec
  <2>3. [q \in Queue |-> <<>>] \in [Queue -> Seq(Event)]
    BY <1>2
  <2>4. TailOf(<<>>) = NULL
    BY DEF TailOf
  <2> QED
    BY <1>2, <1>3, <2>1, <2>2, <2>3, <2>4 DEF Linked
<1>5. Linked(ev, evq, Fifo(ev, evq))
  BY <1>4, FifoIs
<1>6. co \in [Callout -> CalloutRec] /\ \A c \in Callout : ~co[c].active
  BY <1>1, TimeFacts DEF Idle, CalloutRec
<1>7. Timed(co, coHead, <<>>)
  BY <1>1, <1>2, <1>3, <1>6 DEF Timed
<1>8. Sorted(<<>>, left) /\ Clocked(co, left, now)
  BY <1>1, <1>2, <1>6 DEF Sorted, Clocked
<1>9. left \in [Callout -> Span \cup {Never}] /\ now \in 0 .. TickMod - 1
  BY <1>1, TimeFacts
<1>10. Ticking(co, coHead, left, now)
  BY <1>7, <1>8, <1>9, TickingFrom
<1> QED
  BY <1>1, <1>5, <1>10 DEF NplInv

(* What the abstract service sees.                                         *)
LEMMA Seen ==
  /\ [q \in Queue |-> Events(q)] = Fifo(ev, evq)
  /\ [q \in Queue |-> Events(q)]' = Fifo(ev', evq')
BY DEF Events, Fifo

LEMMA QueuedIs ==
  ASSUME NplInv, NEW e \in Event
  PROVE  Abs!Queued(e) <=> ev[e].queued
<1>1. Abs!Queued(e) <=> \E q \in Queue : Abs!Contains(Fifo(ev, evq)[q], e)
  BY Seen DEF Abs!Queued
<1>2. \A s : Abs!Contains(s, e) <=> Has(s, e)
  BY ContainsIs
<1>3. ev[e].queued <=> \E q \in Queue : Has(Fifo(ev, evq)[q], e)
  BY DEF NplInv, Linked
<1> QED
  BY <1>1, <1>2, <1>3

(* From one state to the next: the invariant holds again, and the service  *)
(* has taken a step of its own or none.                                    *)
Good == NplInv' /\ (Abs!Next \/ UNCHANGED Abs!vars)

LEMMA StepPut ==
  ASSUME NplInv, NEW q \in Queue, NEW e \in Event, Put(q, e)
  PROVE  Good
<1> DEFINE f == Fifo(ev, evq)
           p == EventqPut(Pair(ev, evq), q, e)
<1>1. ev' = p.ev /\ evq' = p.evq /\ co' = co /\ coHead' = coHead /\ now' = now /\ serving' = serving /\ left' = left
  BY DEF Put, Becomes, Lists, Pair
<1>2. Linked(ev, evq, f) /\ Ticking(co, coHead, left, now) /\ serving \in Queue \cup {"wait", "no"}
  BY DEF NplInv
<1>3. /\ Linked(p.ev, p.evq, Fifo(p.ev, p.evq))
      /\ ev[e].queued => p.ev = ev /\ p.evq = evq
      /\ ~ev[e].queued => Fifo(p.ev, p.evq) = [f EXCEPT ![q] = Append(@, e)]
  BY <1>2, PutDoes
<1> HIDE DEF p, f
<1>4. NplInv'
  BY <1>1, <1>2, <1>3 DEF NplInv
<1>5. CASE ev[e].queued
  <2>1. Fifo(ev', evq') = Fifo(ev, evq)
    BY <1>1, <1>3, <1>5
  <2>2. UNCHANGED Abs!vars
    BY <1>1, <2>1, Seen DEF Abs!vars
  <2> QED
    BY <1>4, <2>2 DEF Good
<1>6. CASE ~ev[e].queued
  <2>1. Fifo(ev', evq') = [Fifo(ev, evq) EXCEPT ![q] = Append(@, e)]
    BY <1>1, <1>3, <1>6 DEF f
  <2>2. ~Abs!Queued(e)
    BY <1>6, QueuedIs
  <2>3. Abs!Put(q, e)
    BY <1>1, <2>1, <2>2, Seen DEF Abs!Put
  <2> QED
    BY <1>4, <2>3 DEF Good, Abs!Next, Abs!Event, Event
<1> QED
  BY <1>5, <1>6

(* ble_npl_eventq_remove, from wherever it is called.                      *)
LEMMA StepTakeOut ==
  ASSUME NplInv, NEW q \in Queue, NEW e \in Event, Becomes(EventqRemove(Lists, q, e)),
         UNCHANGED <<co, coHead, now, serving, left>>
  PROVE  Good
<1> DEFINE p == EventqRemove(Pair(ev, evq), q, e)
<1>1. ev' = p.ev /\ evq' = p.evq
  BY DEF Becomes, Lists, Pair
<1>2. Linked(ev, evq, Fifo(ev, evq)) /\ Ticking(co, coHead, left, now) /\ serving \in Queue \cup {"wait", "no"}
  BY DEF NplInv
<1>3. /\ Linked(p.ev, p.evq, Fifo(p.ev, p.evq))
      /\ Fifo(p.ev, p.evq) = [Fifo(ev, evq) EXCEPT ![q] = Abs!Without(@, e)]
  BY <1>2, RemoveDoes
<1> HIDE DEF p
<1>4. NplInv'
  BY <1>1, <1>2, <1>3 DEF NplInv
<1>5. Abs!TakeOut(q, e)
  <2>1. Fifo(ev', evq') = [Fifo(ev, evq) EXCEPT ![q] = Abs!Without(@, e)]
    BY <1>1, <1>3
  <2> QED
    BY <2>1, Seen DEF Abs!TakeOut
<1> QED
  BY <1>4, <1>5 DEF Good, Abs!Next, Abs!Event, Event

LEMMA StepEventDeinit ==
  ASSUME NplInv, NEW e \in Event, EventDeinit(e)
  PROVE  Good
<1>1. ev[e].evq \in Queue
  BY DEF NplInv, Linked, EventRec, EventDeinit
<1> QED
  BY <1>1, StepTakeOut DEF EventDeinit

LEMMA StepCalloutReset ==
  ASSUME NplInv, NEW c \in Callout, NEW n \in 0 .. MaxTicks, CalloutReset(c, n)
  PROVE  Good
<1> DEFINE off == CalloutRemove(Tab(co, coHead), c)
           k == (now + n) % TickMod
           y == [off.co EXCEPT ![c].ticks = k]
           p == CalloutInsert(Tab(y, off.head), c)
           l == [left EXCEPT ![c] = Never]
<1>1. Linked(ev, evq, Fifo(ev, evq)) /\ Ticking(co, coHead, left, now) /\ serving \in Queue \cup {"wait", "no"}
  BY DEF NplInv
<1>2. Ticking(off.co, off.head, l, now) /\ ~off.co[c].active /\ off = Tab(off.co, off.head)
  BY <1>1, StopTicks
<1>3. co' = p.co /\ coHead' = p.head
  <2>1. [off EXCEPT !.co[c].ticks = Expiry(n)] = Tab(y, off.head)
    <3> HIDE DEF off
    <3> QED
      BY <1>2 DEF Tab, Expiry
  <2>2. Tab(co, coHead) = Table
    BY DEF Tab, Table
  <2> QED
    BY <2>1, <2>2 DEF CalloutReset, TableBecomes
<1>4. now \in 0 .. TickMod - 1 /\ now \in Int /\ n \in Span /\ k \in 0 .. TickMod - 1
  <2>1. now \in 0 .. TickMod - 1 /\ TickMod \in Nat \ {0} /\ n \in Int /\ n \in Span
    BY <1>1, TimeFacts DEF Ticking
  <2> QED
    BY <2>1, DivMod
<1> HIDE DEF off, p
<1>5. Ticking(y, off.head, l, now)
  <2> HIDE DEF k, l
  <2> QED
    BY <1>2, <1>4, SetTicks
<1>6. ~y[c].active /\ y[c].ticks = k
  BY <1>2 DEF Ticking, Timed, CalloutRec
<1> HIDE DEF y
<1>7. Ticking(p.co, p.head, [l EXCEPT ![c] = n], now)
  <2>1. now \in Int /\ y[c].ticks = (now + n) % TickMod
    BY <1>4, <1>6
  <2> HIDE DEF l
  <2> QED
    BY <1>4, <1>5, <1>6, <2>1, StartTicks DEF p
<1>8. [l EXCEPT ![c] = n] = [left EXCEPT ![c] = n]
  BY <1>1 DEF Ticking
<1>9. left' = [left EXCEPT ![c] = n] /\ ev' = ev /\ evq' = evq /\ now' = now /\ serving' = serving
  BY DEF CalloutReset
<1>10. NplInv'
  BY <1>1, <1>3, <1>7, <1>8, <1>9 DEF NplInv
<1>11. Abs!Set(c, n)
  <2>1. Fifo(ev', evq') = Fifo(ev, evq)
    BY <1>9
  <2> QED
    BY <1>9, <2>1, Seen DEF Abs!Set
<1>12. n \in 0 .. Never - 1
  BY TimeFacts
<1> QED
  BY <1>10, <1>11, <1>12 DEF Good, Abs!Next

LEMMA StepCalloutStop ==
  ASSUME NplInv, NEW c \in Callout, CalloutStop(c)
  PROVE  Good
<1> DEFINE p == CalloutRemove(Tab(co, coHead), c)
<1>1. Linked(ev, evq, Fifo(ev, evq)) /\ Ticking(co, coHead, left, now) /\ serving \in Queue \cup {"wait", "no"}
  BY DEF NplInv
<1>2. Ticking(p.co, p.head, [left EXCEPT ![c] = Never], now)
  BY <1>1, StopTicks
<1>3. /\ co' = p.co /\ coHead' = p.head /\ left' = [left EXCEPT ![c] = Never]
      /\ ev' = ev /\ evq' = evq /\ now' = now /\ serving' = serving
  BY DEF CalloutStop, TableBecomes, Table, Tab
<1> HIDE DEF p
<1>4. NplInv'
  BY <1>1, <1>2, <1>3 DEF NplInv
<1>5. Abs!Set(c, Never)
  <2>1. Fifo(ev', evq') = Fifo(ev, evq)
    BY <1>3
  <2> QED
    BY <1>3, <2>1, Seen DEF Abs!Set
<1> QED
  BY <1>4, <1>5 DEF Good, Abs!Next

(* ble_npl_callout_deinit: wherever its event stands, it is gone from all  *)
(* queues.                                                                 *)
LEMMA StepCalloutDeinit ==
  ASSUME NplInv, NEW c \in Callout, CalloutDeinit(c)
  PROVE  Good
<1> DEFINE off == CalloutRemove(Tab(co, coHead), c)
           y == [off.co EXCEPT ![c].ticks = 0]
           l == [left EXCEPT ![c] = Never]
           f == Fifo(ev, evq)
           r == EventqRemove(Pair(ev, evq), ev[c].evq, c)
           g == [q \in Queue |-> Abs!Without(f[q], c)]
<1>1. Linked(ev, evq, f) /\ Ticking(co, coHead, left, now) /\ serving \in Queue \cup {"wait", "no"}
  BY DEF NplInv
<1>2. Ticking(off.co, off.head, l, now) /\ ~off.co[c].active /\ off = Tab(off.co, off.head)
  BY <1>1, StopTicks
<1>3. co' = y /\ coHead' = off.head
  <2>1. off = CalloutRemove(Table, c)
    BY DEF Tab, Table
  <2>2. co' = [off EXCEPT !.co[c].ticks = 0].co /\ coHead' = [off EXCEPT !.co[c].ticks = 0].head
    BY <2>1 DEF CalloutDeinit, TableBecomes
  <2> HIDE DEF off
  <2> QED
    BY <1>2, <2>2 DEF Tab
<1>4. 0 \in 0 .. TickMod - 1
  BY TimeFacts
<1> HIDE DEF off, l
<1>5. Ticking(y, off.head, l, now)
  BY <1>2, <1>4, SetTicks
<1>6. left' = l /\ now' = now /\ serving' = serving
  BY DEF CalloutDeinit, l
<1>7. c \in Event /\ f \in [Queue -> Seq(Event)]
  BY <1>1, CalloutFacts DEF Linked
<1>8. \A q \in Queue : f[q] \in Seq(Event) /\ NoRepeat(f[q]) /\ (Has(f[q], c) => ev[c].evq = q)
  BY <1>1, <1>7 DEF Linked, IsList
<1>9. \A q \in Queue : ev[c].evq # q => Abs!Without(f[q], c) = f[q]
  BY <1>8, WithoutIs
<1>10. Linked(ev', evq', Fifo(ev', evq')) /\ Fifo(ev', evq') = g
  <2>1. CASE ev[c].evq = NULL
    <3>1. ev' = ev /\ evq' = evq
      BY <2>1 DEF CalloutDeinit, Becomes, Lists
    <3>2. g = f
      BY <1>7, <1>9, <2>1, EventFacts
    <3> QED
      BY <1>1, <3>1, <3>2
  <2>2. CASE ev[c].evq # NULL
    <3>1. ev' = r.ev /\ evq' = r.evq
      BY <2>2 DEF CalloutDeinit, Becomes, Lists, Pair
    <3>2. ev[c].evq \in Queue
      BY <1>1, <1>7, <2>2 DEF Linked, EventRec
    <3>3. /\ Linked(r.ev, r.evq, Fifo(r.ev, r.evq))
          /\ Fifo(r.ev, r.evq) = [f EXCEPT ![ev[c].evq] = Abs!Without(@, c)]
      <4> DEFINE b == ev[c].evq
      <4>1. Linked(ev, evq, Fifo(ev, evq)) /\ c \in Event /\ b \in Queue
        BY <1>1, <1>7, <3>2
      <4> HIDE DEF b, y, g
      <4>2. /\ Linked(r.ev, r.evq, Fifo(r.ev, r.evq))
            /\ Fifo(r.ev, r.evq) = [Fifo(ev, evq) EXCEPT ![b] = Abs!Without(@, c)]
        <5>1. r = EventqRemove(Pair(ev, evq), b, c)
          BY DEF b
        <5> HIDE DEF r
        <5> QED
          BY <4>1, <5>1, RemoveDoes
      <4> HIDE DEF r
      <4> QED
        BY <4>2 DEF b
    <3>4. [f EXCEPT ![ev[c].evq] = Abs!Without(@, c)] = g
      <4> HIDE DEF f
      <4> QED
        BY <1>7, <1>9, <3>2
    <3> HIDE DEF r, g
    <3> QED
      BY <3>1, <3>3, <3>4
  <2> QED
    BY <2>1, <2>2
<1> HIDE DEF y, f
<1>11. NplInv'
  BY <1>1, <1>3, <1>5, <1>6, <1>10 DEF NplInv
<1>12. Abs!Forget(c)
  BY <1>6, <1>10, Seen DEF Abs!Forget, l, f
<1> QED
  BY <1>11, <1>12 DEF Good, Abs!Next

LEMMA StepServiceBegin ==
  ASSUME NplInv, NEW w \in Queue \cup {"wait"}, ServiceBegin(w)
  PROVE  Good
<1>1. ev' = ev /\ evq' = evq /\ co' = co /\ coHead' = coHead /\ now' = now /\ serving' = w /\ left' = left
  BY DEF ServiceBegin
<1>2. NplInv'
  BY <1>1 DEF NplInv
<1>3. UNCHANGED Abs!vars
  <2>1. Fifo(ev', evq') = Fifo(ev, evq)
    BY <1>1
  <2> QED
    BY <1>1, <2>1, Seen DEF Abs!vars
<1> QED
  BY <1>2, <1>3 DEF Good

LEMMA DueAre ==
  ASSUME NplInv, NEW c \in Callout
  PROVE  c \in Abs!Due <=> co[c].active /\ left[c] <= 0
<1>1. Ticking(co, coHead, left, now) /\ Clocked(co, left, now)
  BY DEF NplInv, Ticking
<1>2. CASE co[c].active
  <2>1. left[c] # Never
    BY <1>1, <1>2, DueIs
  <2> QED
    BY <1>2, <2>1 DEF Abs!Due
<1>3. CASE ~co[c].active
  BY <1>1, <1>3 DEF Abs!Due, Clocked
<1> QED
  BY <1>2, <1>3

LEMMA StepExpire ==
  ASSUME NplInv, Expire
  PROVE  Good
<1> DEFINE c == coHead
           x == [co EXCEPT ![c].next = NULL, ![c].active = FALSE]
           off == CalloutRemove(Tab(co, coHead), c)
           f == Fifo(ev, evq)
           p == EventqPut(Pair(ev, evq), Home[c], c)
<1>1. Linked(ev, evq, f) /\ Ticking(co, coHead, left, now) /\ serving \in Queue \cup {"wait", "no"}
  BY DEF NplInv
<1>2. /\ c # NULL /\ ~(Delta(co[c].ticks, now) > 0) /\ coHead' = co[c].next /\ co' = x
      /\ left' = [left EXCEPT ![c] = Never] /\ now' = now /\ serving' = serving
      /\ ev' = p.ev /\ evq' = p.evq
  BY DEF Expire, IsDue, Becomes, Lists, Pair
<1>3. c \in Callout /\ co[c].active /\ \A d \in Callout : co[d].active => left[c] <= left[d]
  BY <1>1, <1>2, HeadLeast
<1>4. left[c] \in Int /\ left[c] <= 0
  <2>1. left[c] \in Int /\ (Delta(co[c].ticks, now) > 0 <=> left[c] > 0)
    BY <1>1, <1>3, DueIs
  <2> QED
    BY <1>2, <2>1
<1>5. Home[c] \in Queue /\ c \in Event
  BY <1>3, CalloutFacts
<1>6. off = Tab(x, co[c].next)
  BY <1>1, <1>2, HeadTaken
<1>7. Ticking(x, co[c].next, [left EXCEPT ![c] = Never], now)
  <2>1. Ticking(off.co, off.head, [left EXCEPT ![c] = Never], now)
    BY <1>1, <1>3, StopTicks
  <2> HIDE DEF off, x
  <2>2. off.co = x /\ off.head = co[c].next
    BY <1>6 DEF Tab
  <2> HIDE DEF c
  <2> QED
    BY <2>1, <2>2
<1>8. /\ Linked(p.ev, p.evq, Fifo(p.ev, p.evq))
      /\ ev[c].queued => p.ev = ev /\ p.evq = evq
      /\ ~ev[c].queued => Fifo(p.ev, p.evq) = [f EXCEPT ![Home[c]] = Append(@, c)]
  BY <1>1, <1>5, PutDoes
<1> HIDE DEF p, x, off
<1>9. NplInv'
  BY <1>1, <1>2, <1>7, <1>8 DEF NplInv
<1>10. Abs!Expire(c)
  <2>1. c \in Abs!Due /\ \A d \in Abs!Due : left[c] <= left[d]
    <3>1. \A d \in Abs!Due : d \in Callout
      BY DEF Abs!Due
    <3> QED
      BY <1>3, <1>4, <3>1, DueAre
  <2>2. Fifo(ev', evq') = IF Abs!Queued(c) THEN f ELSE [f EXCEPT ![Home[c]] = Append(@, c)]
    <3>1. Abs!Queued(c) <=> ev[c].queued
      BY <1>5, QueuedIs
    <3> QED
      BY <1>2, <1>8, <3>1
  <2> HIDE DEF f
  <2> QED
    BY <1>2, <2>1, <2>2, Seen DEF Abs!Expire, f
<1> QED
  BY <1>3, <1>9, <1>10 DEF Good, Abs!Next

LEMMA StepServiceEnd ==
  ASSUME NplInv, ServiceEnd
  PROVE  Good
<1> DEFINE f == Fifo(ev, evq)
           p == EventqPop(Pair(ev, evq), serving)
<1>1. Linked(ev, evq, f) /\ Ticking(co, coHead, left, now)
  BY DEF NplInv
<1>2. /\ coHead # NULL => Delta(co[coHead].ticks, now) > 0
      /\ co' = co /\ coHead' = coHead /\ now' = now /\ left' = left /\ serving' = "no"
  BY DEF ServiceEnd, IsDue
<1>3. CASE UNCHANGED <<ev, evq>>
  <2>1. NplInv'
    BY <1>1, <1>2, <1>3 DEF NplInv
  <2>2. Fifo(ev', evq') = Fifo(ev, evq)
    BY <1>3
  <2>3. UNCHANGED Abs!vars
    BY <1>2, <2>2, Seen DEF Abs!vars
  <2> QED
    BY <2>1, <2>3 DEF Good
<1>4. CASE serving \in Queue /\ evq[serving].head # NULL /\ Becomes(EventqPop(Lists, serving))
  <2>1. ev' = p.ev /\ evq' = p.evq
    BY <1>4 DEF Becomes, Lists, Pair
  <2>2. Linked(p.ev, p.evq, Fifo(p.ev, p.evq)) /\ f[serving] # <<>> /\ Fifo(p.ev, p.evq) = [f EXCEPT ![serving] = Tail(@)]
    BY <1>1, <1>4, PopDoes
  <2> HIDE DEF p
  <2>3. NplInv'
    BY <1>1, <1>2, <2>1, <2>2 DEF NplInv
  <2>4. Abs!Due = {}
    <3> SUFFICES ASSUME NEW c \in Abs!Due PROVE FALSE
      OBVIOUS
    <3>1. c \in Callout /\ co[c].active /\ left[c] <= 0
      <4>1. c \in Callout
        BY DEF Abs!Due
      <4> QED
        BY <4>1, DueAre
    <3>2. coHead \in Callout /\ co[coHead].active /\ left[coHead] <= left[c] /\ coHead # NULL
      BY <1>1, <3>1, HeadLeast
    <3>3. left[coHead] > 0 /\ left[coHead] \in Int /\ left[c] \in Int
      BY <1>1, <1>2, <3>1, <3>2, DueIs
    <3> QED
      BY <3>1, <3>2, <3>3
  <2>5. Abs!Get(serving)
    <3>1. Fifo(ev', evq') = [f EXCEPT ![serving] = Tail(@)]
      BY <2>1, <2>2
    <3> HIDE DEF f
    <3> QED
      BY <1>2, <2>2, <2>4, <3>1, Seen DEF Abs!Get, f
  <2> QED
    BY <1>4, <2>3, <2>5 DEF Good, Abs!Next
<1> QED
  BY <1>3, <1>4 DEF ServiceEnd

LEMMA StepTick ==
  ASSUME NplInv, Tick
  PROVE  Good
<1>1. /\ ev' = ev /\ evq' = evq /\ co' = co /\ coHead' = coHead /\ serving' = serving /\ now' = (now + 1) % TickMod
      /\ \A c \in Callout : left[c] > -MaxLate
      /\ left' = [c \in Callout |-> IF left[c] = Never THEN Never ELSE left[c] - 1]
  BY DEF Tick
<1>2. Linked(ev, evq, Fifo(ev, evq)) /\ Ticking(co, coHead, left, now) /\ serving \in Queue \cup {"wait", "no"}
  BY DEF NplInv
<1>3. Ticking(co, coHead, [c \in Callout |-> IF left[c] = Never THEN Never ELSE left[c] - 1], (now + 1) % TickMod)
  BY <1>1, <1>2, TimePasses
<1>4. NplInv'
  BY <1>1, <1>2, <1>3 DEF NplInv
<1>5. Abs!Tick
  <2>1. Fifo(ev', evq') = Fifo(ev, evq)
    BY <1>1
  <2> QED
    BY <1>1, <2>1, Seen DEF Abs!Tick
<1> QED
  BY <1>4, <1>5 DEF Good, Abs!Next

LEMMA StepNpl ==
  ASSUME NplInv, [Next]_vars
  PROVE  Good
<1>1. CASE UNCHANGED vars
  <2>1. /\ ev' = ev /\ evq' = evq /\ co' = co /\ coHead' = coHead /\ now' = now
        /\ serving' = serving /\ left' = left
    BY <1>1 DEF vars
  <2>2. NplInv' /\ Fifo(ev', evq') = Fifo(ev, evq)
    BY <2>1 DEF NplInv
  <2>3. UNCHANGED Abs!vars
    BY <2>1, <2>2, Seen DEF Abs!vars
  <2> QED
    BY <2>2, <2>3 DEF Good
<1>2. CASE \E q \in Queue, e \in Event : Put(q, e)
  BY <1>2, StepPut
<1>3. CASE \E q \in Queue, e \in Event : Remove(q, e)
  BY <1>3, StepTakeOut DEF Remove
<1>4. CASE \E e \in Event : EventDeinit(e)
  BY <1>4, StepEventDeinit
<1>5. CASE \E c \in Callout : CalloutStop(c)
  BY <1>5, StepCalloutStop
<1>6. CASE \E c \in Callout : CalloutDeinit(c)
  BY <1>6, StepCalloutDeinit
<1>7. CASE \E c \in Callout, t \in 0 .. MaxTicks : CalloutReset(c, t)
  BY <1>7, StepCalloutReset
<1>8. CASE \E w \in Queue \cup {"wait"} : ServiceBegin(w)
  BY <1>8, StepServiceBegin
<1>9. CASE Expire
  BY <1>9, StepExpire
<1>10. CASE ServiceEnd
  BY <1>10, StepServiceEnd
<1>11. CASE Tick
  BY <1>11, StepTick
<1> QED
  BY <1>1, <1>2, <1>3, <1>4, <1>5, <1>6, <1>7, <1>8, <1>9, <1>10, <1>11 DEF Next

LEMMA NplHolds ==
  Spec => []NplInv
<1>1. NplInv /\ [Next]_vars => NplInv'
  BY StepNpl DEF Good
<1> QED
  BY <1>1, InitNpl, PTL DEF Spec

-----------------------------------------------------------------------------
(* Theorems.                                                               *)

(* Every pointer, flag and time has its type: no queue leads to a callout  *)
(* that is none, and the clock and the times of expiry are 32 bits wide.   *)
THEOREM NplTypes == Spec => []TypeOK
<1>1. NplInv => TypeOK
  <2> SUFFICES ASSUME NplInv PROVE TypeOK
    OBVIOUS
  <2>1. Linked(ev, evq, Fifo(ev, evq)) /\ Ticking(co, coHead, left, now) /\ serving \in Queue \cup {"wait", "no"}
    BY DEF NplInv
  <2>2. ev \in [Event -> EventRec] /\ evq \in [Queue -> QueueRec]
    BY <2>1 DEF Linked
  <2>3. co \in [Callout -> CalloutRec] /\ now \in 0 .. TickMod - 1 /\ left \in [Callout -> Span \cup {Never}]
    BY <2>1 DEF Ticking, Timed
  <2>4. coHead \in Callout \cup {NULL}
    BY <2>1, HeadLeast
  <2>5. Span \cup {Never} \subseteq -MaxLate .. Never
    BY TimeFacts
  <2>6. left \in [Callout -> -MaxLate .. Never]
    BY <2>3, <2>5
  <2> QED
    BY <2>1, <2>2, <2>3, <2>4, <2>6 DEF TypeOK, EventRec, QueueRec, CalloutRec
<1> QED
  BY <1>1, NplHolds, PTL

(* However put, remove, get, deinit and the callouts' own expiry alternate *)
(* the lists of ble_npl_baremetal.c stay lists: each ends at its tail, no  *)
(* event is on two, flag and pointer say where an event is, and the list   *)
(* of callouts holds the active ones, sorted by the time that is really    *)
(* left although the clock wraps.                                          *)
THEOREM NplQueuesLinked == Spec => []QueuesLinked
<1>1. NplInv => QueuesLinked
  <2> SUFFICES ASSUME NplInv PROVE QueuesLinked
    OBVIOUS
  <2>1. Linked(ev, evq, Fifo(ev, evq)) /\ Ticking(co, coHead, left, now)
    BY DEF NplInv
  <2>2. EventsLinked
    <3>1. ASSUME NEW q \in Queue
          PROVE  /\ Fifo(ev, evq)[q] = Events(q) /\ NoRepeat(Events(q)) /\ evq[q].tail = TailOf(Events(q))
                 /\ DOMAIN Events(q) = 1 .. Len(Events(q))
                 /\ \A i \in DOMAIN Events(q) : Events(q)[i] \in Event
                 /\ \A e \in Event : Has(Events(q), e) => ev[e].queued /\ ev[e].evq = q
      <4>1. Fifo(ev, evq)[q] = Events(q)
        BY DEF Fifo, Events
      <4>2. IsList(Events(q), evq[q].head, ev) /\ evq[q].tail = TailOf(Events(q)) /\ DOMAIN ev = Event
        BY <2>1, <4>1 DEF Linked
      <4>3. DOMAIN Events(q) = 1 .. Len(Events(q)) /\ \A i \in 1 .. Len(Events(q)) : Events(q)[i] \in Event
        BY <4>2, ListUnfold
      <4>4. NoRepeat(Events(q))
        BY <4>2 DEF IsList
      <4>5. \A e \in Event : Has(Fifo(ev, evq)[q], e) => ev[e].queued /\ ev[e].evq = q
        BY <2>1 DEF Linked
      <4> QED
        BY <4>1, <4>2, <4>3, <4>4, <4>5
    <3>2. ASSUME NEW q \in Queue, NEW i \in DOMAIN Events(q) PROVE ev[Events(q)[i]].evq = q
      <4>1. Has(Events(q), Events(q)[i]) /\ Events(q)[i] \in Event
        BY <3>1 DEF Has
      <4> QED
        BY <3>1, <4>1
    <3>3. ASSUME NEW e \in Event
          PROVE  ev[e].queued <=> \E q \in Queue : \E i \in DOMAIN Events(q) : Events(q)[i] = e
      <4>1. ev[e].queued <=> \E q \in Queue : Has(Fifo(ev, evq)[q], e)
        BY <2>1 DEF Linked
      <4>2. \A q \in Queue : Has(Fifo(ev, evq)[q], e) <=> \E i \in DOMAIN Events(q) : Events(q)[i] = e
        BY <3>1 DEF Has
      <4> QED
        BY <4>1, <4>2
    <3>4. \A e \in Event : ~ev[e].queued => ev[e] = NoEvent
      BY <2>1 DEF Linked
    <3> QED
      BY <3>1, <3>2, <3>3, <3>4 DEF EventsLinked, TailOf
  <2>3. CalloutsSorted
    <3>1. Callouts = Walk(coHead, co)
      BY DEF Callouts
    <3>2. /\ IsList(Callouts, coHead, co) /\ DOMAIN co = Callout /\ Sorted(Callouts, left) /\ Clocked(co, left, now)
          /\ \A c \in Callout : co[c].active <=> Has(Callouts, c)
      BY <2>1, <3>1 DEF Ticking, Timed
    <3>3. NoRepeat(Callouts) /\ DOMAIN Callouts = 1 .. Len(Callouts)
      BY <3>2, ListUnfold DEF IsList
    <3>4. \A c \in Callout : co[c].active <=> left[c] # Never
      BY <3>2, TimeFacts DEF Clocked
    <3> QED
      BY <3>2, <3>3, <3>4 DEF CalloutsSorted, Sorted, Has
  <2> QED
    BY <2>2, <2>3 DEF QueuesLinked
<1> QED
  BY <1>1, NplHolds, PTL

(* Seen from NimBLE the porting layer is the abstract service: queues that *)
(* hold each event at most once and in order, callouts that expire when    *)
(* they are due, the one that is longest overdue first, and no event that  *)
(* is handed out while a callout is due.                                   *)
THEOREM NplRefinesService == Spec => RefinesService
<1>1. Init => Abs!Init
  <2> SUFFICES ASSUME Init PROVE Abs!Init
    OBVIOUS
  <2>1. ev = [e \in Event |-> NoEvent] /\ left = [c \in Callout |-> Never] /\ \A q \in Queue : evq[q].head = NULL
    BY DEF Init
  <2>2. IsList(<<>>, NULL, ev)
    BY EmptySeq DEF IsList, NoRepeat
  <2>3. Walk(NULL, ev) = <<>>
    BY <2>1, <2>2, WalkFinds, NplAssumption, EventFacts
  <2>4. Fifo(ev, evq) = [q \in Queue |-> <<>>]
    BY <2>1, <2>3 DEF Fifo
  <2> QED
    BY <2>1, <2>4, Seen DEF Abs!Init
<1>2. NplInv /\ [Next]_vars => [Abs!Next]_(Abs!vars)
  BY StepNpl DEF Good
<1> QED
  BY <1>1, <1>2, NplHolds, PTL DEF Spec, RefinesService, Abs!Spec
=============================================================================
