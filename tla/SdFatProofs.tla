----------------------------- MODULE SdFatProofs ----------------------------
(***************************************************************************)
(* Proofs about SdFat for every size of sectors, clusters, directory and   *)
(* volume, every set of names and lengths, and every number of failures    *)
(* and losses of power: types, chains, directory and handles by FatInv,    *)
(* the files on the card, as FileStore states them, by StoreInv.           *)
(***************************************************************************)
EXTENDS SdFat, FiniteSetTheorems, SequenceTheorems, TLAPS

-----------------------------------------------------------------------------
(* Numbers.  A set of numbers that holds zero and with each number the     *)
(* next is all of Nat: if n were missing, what it holds below n would be   *)
(* finite and yet be mapped into itself without its zero.                  *)

LEMMA AllNumbers ==
  ASSUME NEW D \in SUBSET Nat, 0 \in D, \A n \in D : n + 1 \in D
  PROVE  D = Nat
<1> SUFFICES ASSUME NEW n \in Nat, n \notin D PROVE FALSE
  OBVIOUS
<1> DEFINE B == {m \in D : \A k \in Nat \ D : m < k}
           f == [m \in B |-> m + 1]
<1>1. 0 \in B /\ B \subseteq 0 .. n
  <2>1. \A k \in Nat \ D : 0 < k
    OBVIOUS
  <2>2. 0 \in B
    BY <2>1
  <2>3. ASSUME NEW m \in B PROVE m \in 0 .. n
    OBVIOUS
  <2> QED
    BY <2>2, <2>3
<1>2. IsFiniteSet(B)
  <2>1. IsFiniteSet(0 .. n)
    BY FS_Interval
  <2> QED
    BY <1>1, <2>1, FS_Subset
<1>3. IsFiniteSet(B \ {0}) /\ Cardinality(B \ {0}) = Cardinality(B) - 1 /\ Cardinality(B) \in Nat
  BY <1>1, <1>2, FS_RemoveElement, FS_CardinalityType
<1>4. f \in [B -> B \ {0}]
  <2> SUFFICES ASSUME NEW m \in B PROVE m + 1 \in B \ {0}
    OBVIOUS
  <2>1. m + 1 \in D /\ m + 1 # 0
    OBVIOUS
  <2>2. ASSUME NEW k \in Nat \ D PROVE m + 1 < k
    BY <2>1
  <2> QED
    BY <2>1, <2>2
<1>5. Cardinality(B \ {0}) < Cardinality(B)
  BY <1>3
<1>6. \E x, y \in B : x # y /\ f[x] = f[y]
  <2> HIDE DEF B, f
  <2> QED
    BY <1>2, <1>3, <1>4, <1>5, FS_PigeonHole
<1> QED
  BY <1>6

LEMMA LeastNumber ==
  ASSUME NEW T \in SUBSET Nat, T # {}
  PROVE  \E m \in T : \A k \in T : m <= k
<1> SUFFICES ASSUME \A m \in T : \E k \in T : k < m PROVE FALSE
  OBVIOUS
<1> DEFINE D == {n \in Nat : \A k \in T : n < k}
<1>1. 0 \in D
  <2> SUFFICES ASSUME NEW k \in T PROVE 0 < k
    OBVIOUS
  <2>1. PICK i \in T : i < k
    OBVIOUS
  <2> QED
    BY <2>1
<1>2. ASSUME NEW n \in D PROVE n + 1 \in D
  <2> SUFFICES ASSUME NEW k \in T PROVE n + 1 < k
    OBVIOUS
  <2>1. PICK i \in T : i < k
    OBVIOUS
  <2> QED
    BY <2>1
<1>3. D = Nat
  <2>1. D \in SUBSET Nat
    OBVIOUS
  <2> HIDE DEF D
  <2> QED
    BY <1>1, <1>2, <2>1, AllNumbers
<1>4. PICK t \in T : TRUE
  OBVIOUS
<1>5. t \in D
  BY <1>3
<1> QED
  BY <1>5

(* What a set of positions that goes down to the first has is a prefix.    *)
LEMMA Prefix ==
  ASSUME NEW n \in Nat, NEW P \in SUBSET (1 .. n),
         \A i \in P : \A j \in 1 .. i : j \in P
  PROVE  Cardinality(P) \in 0 .. n /\ P = 1 .. Cardinality(P)
<1> DEFINE T == {k \in Nat : k + 1 \notin P}
<1>1. n \in T
  OBVIOUS
<1>2. PICK m \in T : \A k \in T : m <= k
  <2>1. T \in SUBSET Nat /\ T # {}
    BY <1>1
  <2> HIDE DEF T
  <2> QED
    BY <2>1, LeastNumber
<1>3. m \in Nat /\ m <= n /\ m + 1 \notin P
  BY <1>1, <1>2
<1>4. P = 1 .. m
  <2>1. ASSUME NEW i \in P PROVE i \in 1 .. m
    <3>1. CASE i > m
      <4>1. m + 1 \in 1 .. i
        BY <1>3, <3>1
      <4> QED
        BY <1>3, <4>1
    <3> QED
      BY <1>3, <3>1
  <2>2. ASSUME NEW i \in 1 .. m PROVE i \in P
    <3>1. i - 1 \in Nat /\ i - 1 < m /\ (i - 1) + 1 = i
      BY <1>3
    <3>2. i - 1 \notin T
      BY <1>2, <3>1
    <3> QED
      BY <3>1, <3>2
  <2> QED
    BY <2>1, <2>2
<1>5. Cardinality(1 .. m) = m
  BY <1>3, FS_Interval
<1> QED
  BY <1>3, <1>4, <1>5

LEMMA Counted ==
  ASSUME NEW n \in Nat
  PROVE  Cardinality(1 .. n) = n /\ Cardinality(0 .. n - 1) = n /\ IsFiniteSet(1 .. n)
<1>1. 0 \in Int /\ 1 \in Int /\ n \in Int /\ n - 1 \in Int
  OBVIOUS
<1>2. IsFiniteSet(1 .. n) /\ Cardinality(1 .. n) = IF 1 > n THEN 0 ELSE n - 1 + 1
  BY <1>1, FS_Interval
<1>3. Cardinality(0 .. n - 1) = IF 0 > n - 1 THEN 0 ELSE n - 1 - 0 + 1
  BY <1>1, FS_Interval
<1> QED
  BY <1>2, <1>3

LEMMA ListFits ==
  ASSUME NEW D, IsFiniteSet(D), NEW s \in Seq(D), \A i, j \in 1 .. Len(s) : s[i] = s[j] => i = j
  PROVE  Len(s) <= Cardinality(D)
<1>1. s \in [1 .. Len(s) -> D] /\ Len(s) \in Nat
  BY LenProperties
<1>2. s \in Injection(1 .. Len(s), D)
  <2>1. \A a, b \in 1 .. Len(s) : s[a] = s[b] => a = b
    BY <1>1
  <2> QED
    BY <1>1, <2>1 DEF Injection, IsInjective
<1>3. Cardinality(1 .. Len(s)) = Len(s)
  BY <1>1, Counted
<1>4. Cardinality(1 .. Len(s)) <= Cardinality(D)
  BY <1>2, FS_Injection
<1> QED
  BY <1>3, <1>4

LEMMA MinIs ==
  ASSUME NEW T \in SUBSET Nat, T # {}
  PROVE  Min(T) \in T /\ \A x \in T : Min(T) <= x
<1>1. \E m \in T : \A x \in T : m <= x
  BY LeastNumber
<1> QED
  BY <1>1 DEF Min

-----------------------------------------------------------------------------
(* Following the FAT.  v is a FAT, and WalkIn what Walk is on it.          *)

FatValue == Cluster \cup {Free, Eoc}

Reach(v, c, w, k) ==
    IF k = 0 THEN c ELSE IF w[k - 1] \in Cluster THEN v[w[k - 1]] ELSE w[k - 1]

Follows(w, v, c, n) == w = [k \in 0..n |-> Reach(v, c, w, k)]

WalkIn(v, c, n) ==
    LET w[k \in 0..n] == IF k = 0 THEN c
                         ELSE IF w[k - 1] \in Cluster THEN v[w[k - 1]] ELSE w[k - 1]
    IN  w[n]
ChainIn(v, c) == {WalkIn(v, c, n) : n \in 0..LastCluster} \cap Cluster

LEMMA WalkIs ==
  /\ \A c, n : Walk(c, n) = WalkIn(fat, c, n)
  /\ \A c : Chain(c) = ChainIn(fat, c)
<1>1. \A c, n : Walk(c, n) = WalkIn(fat, c, n)
  BY DEF Walk, WalkIn
<1>2. \A c : Chain(c) = ChainIn(fat, c)
  BY <1>1 DEF Chain, ChainIn
<1> QED
  BY <1>1, <1>2

LEMMA FollowsFirst ==
  ASSUME NEW v, NEW c, NEW n \in Nat, NEW w, Follows(w, v, c, n)
  PROVE  w[0] = c
<1>1. 0 \in 0..n
  OBVIOUS
<1> QED
  BY <1>1 DEF Follows, Reach

LEMMA FollowsNext ==
  ASSUME NEW v, NEW c, NEW n \in Nat, NEW w, Follows(w, v, c, n), NEW k \in 0..n, k # 0
  PROVE  k - 1 \in 0..n /\ w[k] = IF w[k - 1] \in Cluster THEN v[w[k - 1]] ELSE w[k - 1]
BY DEF Follows, Reach

LEMMA FollowsFrom ==
  ASSUME NEW v, NEW c, NEW n \in Nat, NEW w, w = [k \in 0..n |-> w[k]], w[0] = c,
         \A k \in 0..n : k # 0 => w[k] = IF w[k - 1] \in Cluster THEN v[w[k - 1]] ELSE w[k - 1]
  PROVE  Follows(w, v, c, n)
<1>1. \A k \in 0..n : w[k] = Reach(v, c, w, k)
  BY DEF Reach
<1> QED
  BY <1>1 DEF Follows

LEMMA FollowsUnique ==
  ASSUME NEW v, NEW c, NEW n \in Nat, NEW f, NEW g, Follows(f, v, c, n), Follows(g, v, c, n)
  PROVE  f = g
<1> DEFINE T == {i \in 0..n : f[i] # g[i]}
<1> SUFFICES ASSUME T # {} PROVE FALSE
  BY DEF Follows
<1>1. PICK m \in T : \A k \in T : m <= k
  <2>1. T \in SUBSET Nat
    OBVIOUS
  <2> HIDE DEF T
  <2> QED
    BY <2>1, LeastNumber
<1>2. m \in 0..n /\ f[m] # g[m]
  OBVIOUS
<1>3. m # 0
  <2>1. f[0] = c
    BY FollowsFirst
  <2>2. g[0] = c
    BY FollowsFirst
  <2> QED
    BY <1>2, <2>1, <2>2
<1>4. m - 1 \in 0..n /\ ~(m <= m - 1)
  BY <1>2, <1>3
<1>5. f[m - 1] = g[m - 1]
  BY <1>1, <1>4
<1> HIDE DEF T
<1>6. f[m] = IF f[m - 1] \in Cluster THEN v[f[m - 1]] ELSE f[m - 1]
  BY <1>2, <1>3, FollowsNext
<1>7. g[m] = IF g[m - 1] \in Cluster THEN v[g[m - 1]] ELSE g[m - 1]
  BY <1>2, <1>3, FollowsNext
<1> QED
  BY <1>2, <1>5, <1>6, <1>7

LEMMA FollowsExists ==
  ASSUME NEW v, NEW c, NEW n \in Nat
  PROVE  \E w : Follows(w, v, c, n)
<1> DEFINE D == {m \in Nat : \E w : Follows(w, v, c, m)}
<1>1. 0 \in D
  <2> DEFINE w == [k \in 0..0 |-> c]
  <2>1. Follows(w, v, c, 0)
    <3>1. w = [k \in 0..0 |-> w[k]] /\ w[0] = c /\ \A k \in 0..0 : k = 0
      OBVIOUS
    <3> HIDE DEF w
    <3> QED
      BY <3>1, FollowsFrom
  <2> QED
    BY <2>1
<1>2. ASSUME NEW m \in D PROVE m + 1 \in D
  <2>1. PICK w : Follows(w, v, c, m)
    OBVIOUS
  <2>2. /\ m \in Nat /\ w[0] = c
        /\ \A k \in 0..m : k # 0 => k - 1 \in 0..m /\ w[k] = IF w[k - 1] \in Cluster THEN v[w[k - 1]] ELSE w[k - 1]
    <3>1. w[0] = c
      BY <2>1, FollowsFirst
    <3> QED
      BY <2>1, <3>1, FollowsNext
  <2> DEFINE x == IF w[m] \in Cluster THEN v[w[m]] ELSE w[m]
             u == [k \in 0..(m + 1) |-> IF k = m + 1 THEN x ELSE w[k]]
  <2>3. u = [k \in 0..(m + 1) |-> u[k]] /\ u[0] = c /\ u[m + 1] = x /\ \A k \in 0..m : u[k] = w[k]
    BY <2>2
  <2> HIDE DEF u
  <2>4. ASSUME NEW k \in 0..(m + 1), k # 0 PROVE u[k] = IF u[k - 1] \in Cluster THEN v[u[k - 1]] ELSE u[k - 1]
    <3>1. CASE k = m + 1
      <4>1. k - 1 = m /\ m \in 0..m
        BY <3>1
      <4> QED
        BY <2>3, <3>1, <4>1
    <3>2. CASE k # m + 1
      <4>1. k \in 0..m
        BY <3>2
      <4> QED
        BY <2>2, <2>3, <2>4, <4>1
    <3> QED
      BY <3>1, <3>2
  <2>5. Follows(u, v, c, m + 1)
    <3>1. m + 1 \in Nat
      BY <2>2
    <3> QED
      BY <2>3, <2>4, <3>1, FollowsFrom
  <2> QED
    BY <2>5
<1>3. D = Nat
  <2>1. D \in SUBSET Nat
    OBVIOUS
  <2> HIDE DEF D
  <2> QED
    BY <1>1, <1>2, <2>1, AllNumbers
<1> QED
  BY <1>3

(* A walk, step by step.                                                   *)
LEMMA WalkSteps ==
  ASSUME NEW v, NEW c
  PROVE  /\ WalkIn(v, c, 0) = c
         /\ \A n \in Nat : WalkIn(v, c, n + 1) =
                IF WalkIn(v, c, n) \in Cluster THEN v[WalkIn(v, c, n)] ELSE WalkIn(v, c, n)
<1>1. ASSUME NEW n \in Nat, NEW w, Follows(w, v, c, n) PROVE WalkIn(v, c, n) = w[n]
  <2> DEFINE u == CHOOSE u : u = [k \in 0..n |-> Reach(v, c, u, k)]
  <2>1. WalkIn(v, c, n) = u[n]
    BY DEF WalkIn, Reach
  <2>2. Follows(u, v, c, n)
    BY <1>1 DEF Follows
  <2> HIDE DEF u
  <2>3. u = w
    BY <1>1, <2>2, FollowsUnique
  <2> QED
    BY <2>1, <2>3
<1>2. WalkIn(v, c, 0) = c
  <2>1. PICK w : Follows(w, v, c, 0)
    BY FollowsExists
  <2>2. w[0] = c
    BY <2>1, FollowsFirst
  <2>3. WalkIn(v, c, 0) = w[0]
    BY <1>1, <2>1
  <2> QED
    BY <2>2, <2>3
<1>3. ASSUME NEW n \in Nat
      PROVE  WalkIn(v, c, n + 1) = IF WalkIn(v, c, n) \in Cluster THEN v[WalkIn(v, c, n)] ELSE WalkIn(v, c, n)
  <2>1. PICK w : Follows(w, v, c, n + 1)
    BY FollowsExists
  <2>2. /\ w[0] = c
        /\ \A k \in 0..(n + 1) : k # 0 => w[k] = IF w[k - 1] \in Cluster THEN v[w[k - 1]] ELSE w[k - 1]
    <3>1. n + 1 \in Nat
      OBVIOUS
    <3>2. w[0] = c
      BY <2>1, <3>1, FollowsFirst
    <3> QED
      BY <2>1, <3>1, <3>2, FollowsNext
  <2>3. PICK u : Follows(u, v, c, n)
    BY FollowsExists
  <2> DEFINE z == [k \in 0..n |-> w[k]]
  <2>4. Follows(z, v, c, n)
    <3>1. z = [k \in 0..n |-> z[k]] /\ \A k \in 0..n : z[k] = w[k]
      OBVIOUS
    <3>2. ASSUME NEW k \in 0..n, k # 0 PROVE k \in 0..(n + 1) /\ k - 1 \in 0..n
      BY <3>2
    <3> HIDE DEF z
    <3>3. z[0] = c
      BY <2>2, <3>1
    <3>4. \A k \in 0..n : k # 0 => z[k] = IF z[k - 1] \in Cluster THEN v[z[k - 1]] ELSE z[k - 1]
      BY <2>2, <3>1, <3>2
    <3> QED
      BY <3>1, <3>3, <3>4, FollowsFrom
  <2>5. WalkIn(v, c, n) = w[n]
    <3>1. WalkIn(v, c, n) = z[n]
      <4> HIDE DEF z
      <4> QED
        BY <1>1, <2>4
    <3> QED
      BY <3>1
  <2>6. WalkIn(v, c, n + 1) = w[n + 1]
    BY <1>1, <2>1
  <2>7. n + 1 \in 0..(n + 1) /\ n + 1 # 0 /\ (n + 1) - 1 = n
    OBVIOUS
  <2>8. w[n + 1] = IF w[n] \in Cluster THEN v[w[n]] ELSE w[n]
    BY <2>2, <2>7
  <2> QED
    BY <2>5, <2>6, <2>8
<1> QED
  BY <1>2, <1>3

LEMMA WalkType ==
  ASSUME NEW v \in [Cluster -> FatValue], NEW c \in FatValue, NEW n \in Nat
  PROVE  WalkIn(v, c, n) \in FatValue
<1> DEFINE D == {m \in Nat : WalkIn(v, c, m) \in FatValue}
<1>1. 0 \in D
  BY WalkSteps
<1>2. ASSUME NEW m \in D PROVE m + 1 \in D
  <2>1. WalkIn(v, c, m) \in FatValue /\ m \in Nat
    OBVIOUS
  <2>2. WalkIn(v, c, m + 1) = IF WalkIn(v, c, m) \in Cluster THEN v[WalkIn(v, c, m)] ELSE WalkIn(v, c, m)
    BY <2>1, WalkSteps
  <2> QED
    BY <2>1, <2>2
<1>3. D = Nat
  <2>1. D \in SUBSET Nat
    OBVIOUS
  <2> HIDE DEF D
  <2> QED
    BY <1>1, <1>2, <2>1, AllNumbers
<1> QED
  BY <1>3

-----------------------------------------------------------------------------
(* Chains.  p is a way from c to an end mark that comes by no cluster      *)
(* twice, and c has a good chain when there is one.                        *)

Path(v, p, c) ==
    /\ p \in Seq(Cluster) /\ Len(p) # 0 /\ p[1] = c
    /\ \A i, j \in 1..Len(p) : p[i] = p[j] => i = j
    /\ \A i \in 1..Len(p) : v[p[i]] = IF i = Len(p) THEN Eoc ELSE p[i + 1]

Good(v, c) == \E p : Path(v, p, c)

LEMMA Volume ==
  /\ LastCluster \in Nat /\ LastCluster >= 3 /\ Eoc = LastCluster + 1 /\ Free = 0
  /\ Cluster \subseteq Nat /\ 3 \in Cluster /\ Free \notin Cluster /\ Eoc \notin Cluster /\ Eoc # Free
  /\ \A c : c \in Cluster <=> c \in Nat /\ 3 <= c /\ c <= LastCluster
  /\ FatValue \subseteq Nat
  /\ IsFiniteSet(Cluster) /\ Cardinality(Cluster) = LastCluster - 2
<1>1. LastCluster \in Nat /\ LastCluster >= 3
  BY VolumeAssumption
<1>2. IsFiniteSet(3..LastCluster) /\ Cardinality(3..LastCluster) = LastCluster - 2
  <2>1. 3 \in Int /\ LastCluster \in Int /\ ~(3 > LastCluster) /\ LastCluster - 3 + 1 = LastCluster - 2
    BY <1>1
  <2> QED
    BY <2>1, FS_Interval
<1> QED
  BY <1>1, <1>2 DEF Cluster, Eoc, Free, FatValue

LEMMA PathFacts ==
  ASSUME NEW v, NEW c, NEW p, Path(v, p, c)
  PROVE  /\ p \in Seq(Cluster) /\ Len(p) \in Nat /\ Len(p) >= 1 /\ Len(p) <= LastCluster - 2
         /\ p[1] = c /\ c \in Cluster
         /\ \A i \in 1..Len(p) : p[i] \in Cluster
         /\ \A i, j \in 1..Len(p) : p[i] = p[j] => i = j
         /\ \A i \in 1..Len(p) : v[p[i]] = IF i = Len(p) THEN Eoc ELSE p[i + 1]
<1>1. /\ p \in Seq(Cluster) /\ Len(p) # 0 /\ p[1] = c
      /\ \A i, j \in 1..Len(p) : p[i] = p[j] => i = j
      /\ \A i \in 1..Len(p) : v[p[i]] = IF i = Len(p) THEN Eoc ELSE p[i + 1]
  BY DEF Path
<1>2. Len(p) \in Nat /\ \A i \in 1..Len(p) : p[i] \in Cluster
  BY <1>1, LenProperties, ElementOfSeq
<1>3. Len(p) <= Cardinality(Cluster)
  BY <1>1, Volume, ListFits
<1>4. 1 \in 1..Len(p)
  BY <1>1, <1>2
<1> QED
  BY <1>1, <1>2, <1>3, <1>4, Volume

(* Where a walk is on a path.                                              *)
LEMMA WalkOnPath ==
  ASSUME NEW v, NEW c, NEW p, Path(v, p, c), NEW n \in Nat
  PROVE  WalkIn(v, c, n) = IF n < Len(p) THEN p[n + 1] ELSE Eoc
<1> DEFINE L == Len(p)
           D == {m \in Nat : WalkIn(v, c, m) = IF m < L THEN p[m + 1] ELSE Eoc}
<1>1. /\ L \in Nat /\ L >= 1 /\ p[1] = c /\ \A i \in 1..L : p[i] \in Cluster
      /\ \A i \in 1..L : v[p[i]] = IF i = L THEN Eoc ELSE p[i + 1]
  BY PathFacts
<1> HIDE DEF L
<1>2. 0 \in D
  BY <1>1, WalkSteps
<1>3. ASSUME NEW m \in D PROVE m + 1 \in D
  <2>1. m \in Nat /\ WalkIn(v, c, m) = IF m < L THEN p[m + 1] ELSE Eoc
    OBVIOUS
  <2>2. WalkIn(v, c, m + 1) = IF WalkIn(v, c, m) \in Cluster THEN v[WalkIn(v, c, m)] ELSE WalkIn(v, c, m)
    <3> HIDE DEF D
    <3> QED
      BY <2>1, WalkSteps
  <2>3. CASE m < L
    <3>1. m + 1 \in 1..L /\ (m + 1 = L <=> ~(m + 1 < L))
      BY <1>1, <2>1, <2>3
    <3> QED
      BY <1>1, <2>1, <2>2, <2>3, <3>1
  <2>4. CASE ~(m < L)
    <3>1. ~(m + 1 < L)
      BY <1>1, <2>1, <2>4
    <3> QED
      BY <2>1, <2>2, <2>4, <3>1, Volume
  <2> QED
    BY <2>3, <2>4
<1>4. D = Nat
  <2>1. D \in SUBSET Nat
    OBVIOUS
  <2> HIDE DEF D
  <2> QED
    BY <1>2, <1>3, <2>1, AllNumbers
<1> QED
  BY <1>4 DEF L

LEMMA ChainIs ==
  ASSUME NEW v, NEW c, NEW p, Path(v, p, c)
  PROVE  /\ ChainIn(v, c) = {p[i] : i \in 1..Len(p)}
         /\ WalkIn(v, c, LastCluster) = Eoc
         /\ Cardinality(ChainIn(v, c)) = Len(p)
<1> DEFINE L == Len(p)
           R == {p[i] : i \in 1..L}
<1>1. /\ L \in Nat /\ L >= 1 /\ L <= LastCluster - 2 /\ p \in Seq(Cluster)
      /\ \A i \in 1..L : p[i] \in Cluster
      /\ \A i, j \in 1..L : p[i] = p[j] => i = j
  BY PathFacts
<1>2. \A n \in Nat : WalkIn(v, c, n) = IF n < L THEN p[n + 1] ELSE Eoc
  BY WalkOnPath
<1> HIDE DEF L
<1>3. ASSUME NEW d \in ChainIn(v, c) PROVE d \in R
  <2>1. PICK n \in 0..LastCluster : d = WalkIn(v, c, n)
    BY DEF ChainIn
  <2>2. d \in Cluster
    BY DEF ChainIn
  <2>3. n \in Nat /\ n < L
    BY <1>2, <2>1, <2>2, Volume
  <2>4. n + 1 \in 1..L /\ d = p[n + 1]
    BY <1>1, <1>2, <2>1, <2>3
  <2> QED
    BY <2>4
<1>4. ASSUME NEW i \in 1..L PROVE p[i] \in ChainIn(v, c)
  <2>1. i - 1 \in 0..LastCluster /\ i - 1 < L /\ (i - 1) + 1 = i /\ i - 1 \in Nat
    BY <1>1, Volume
  <2>2. WalkIn(v, c, i - 1) = p[i]
    BY <1>2, <2>1
  <2> QED
    BY <1>1, <2>1, <2>2 DEF ChainIn
<1>5. ChainIn(v, c) = R
  BY <1>3, <1>4
<1>6. WalkIn(v, c, LastCluster) = Eoc
  BY <1>1, <1>2, Volume
<1>7. Cardinality(R) = L
  <2> DEFINE f == [i \in 1..L |-> p[i]]
  <2>1. f \in Bijection(1..L, R)
    <3>1. f \in [1..L -> R] /\ \A i \in 1..L : f[i] = p[i]
      OBVIOUS
    <3>2. \A r \in R : \E i \in 1..L : f[i] = r
      OBVIOUS
    <3> HIDE DEF f, R
    <3>3. f \in Injection(1..L, R)
      BY <1>1, <3>1 DEF Injection, IsInjective
    <3>4. f \in Surjection(1..L, R)
      BY <3>1, <3>2 DEF Surjection
    <3> QED
      BY <3>3, <3>4 DEF Bijection
  <2>2. IsFiniteSet(1..L) /\ Cardinality(1..L) = L
    BY <1>1, Counted
  <2> HIDE DEF f, R
  <2>3. Cardinality(1..L) = Cardinality(R)
    BY <2>1, <2>2, FS_Bijection DEF ExistsBijection
  <2> QED
    BY <2>2, <2>3
<1> QED
  BY <1>5, <1>6, <1>7 DEF L

LEMMA ChainFirst ==
  ASSUME NEW v, NEW c, Good(v, c)
  PROVE  /\ c \in Cluster /\ c \in ChainIn(v, c) /\ ChainIn(v, c) \subseteq Cluster
         /\ Cardinality(ChainIn(v, c)) \in Nat \ {0}
         /\ WalkIn(v, c, LastCluster) = Eoc
         /\ \A d \in ChainIn(v, c) : v[d] # Free
<1>1. PICK p : Path(v, p, c)
  BY DEF Good
<1> DEFINE L == Len(p)
<1>2. /\ L \in Nat /\ L >= 1 /\ p[1] = c /\ c \in Cluster
      /\ \A i \in 1..L : p[i] \in Cluster
      /\ \A i \in 1..L : v[p[i]] = IF i = L THEN Eoc ELSE p[i + 1]
  BY <1>1, PathFacts
<1>3. /\ ChainIn(v, c) = {p[i] : i \in 1..L} /\ WalkIn(v, c, LastCluster) = Eoc
      /\ Cardinality(ChainIn(v, c)) = L
  BY <1>1, ChainIs
<1> HIDE DEF L
<1>4. 1 \in 1..L /\ \A i \in 1..L : i # L => i + 1 \in 1..L
  BY <1>2
<1>5. \A d \in ChainIn(v, c) : v[d] # Free
  BY <1>2, <1>3, <1>4, Volume
<1> QED
  BY <1>2, <1>3, <1>4, <1>5

(* A chain no link of which has changed is what it was.                    *)
LEMMA ChainKept ==
  ASSUME NEW v, NEW c, Good(v, c), NEW u, \A d \in ChainIn(v, c) : u[d] = v[d]
  PROVE  Good(u, c) /\ ChainIn(u, c) = ChainIn(v, c)
<1>1. PICK p : Path(v, p, c)
  BY DEF Good
<1>2. ChainIn(v, c) = {p[i] : i \in 1..Len(p)}
  BY <1>1, ChainIs
<1>3. Path(u, p, c)
  BY <1>1, <1>2 DEF Path
<1>4. ChainIn(u, c) = {p[i] : i \in 1..Len(p)}
  BY <1>3, ChainIs
<1> QED
  BY <1>2, <1>3, <1>4 DEF Good

LEMMA ChainOne ==
  ASSUME NEW v, NEW c \in Cluster, v[c] = Eoc
  PROVE  Good(v, c) /\ ChainIn(v, c) = {c}
<1> DEFINE p == <<c>>
<1>1. p \in Seq(Cluster) /\ Len(p) = 1 /\ p[1] = c
  OBVIOUS
<1> HIDE DEF p
<1>2. Path(v, p, c)
  BY <1>1 DEF Path
<1>3. ChainIn(v, c) = {p[i] : i \in 1..Len(p)}
  BY <1>2, ChainIs
<1>4. ChainIn(v, c) = {c}
  BY <1>1, <1>3
<1> QED
  BY <1>2, <1>4 DEF Good

(* Where the FAT leads from a cluster to no other, there is no chain but   *)
(* the cluster.                                                            *)
LEMMA ChainAlone ==
  ASSUME NEW v, NEW c \in Cluster, v[c] \in {Free, Eoc}
  PROVE  ChainIn(v, c) \subseteq {c}
<1> DEFINE D == {m \in Nat : WalkIn(v, c, m) \in {c, v[c]}}
<1>1. v[c] \notin Cluster
  BY Volume
<1>2. 0 \in D
  BY WalkSteps
<1>3. ASSUME NEW m \in D PROVE m + 1 \in D
  <2>1. WalkIn(v, c, m) \in {c, v[c]} /\ m \in Nat
    OBVIOUS
  <2>2. WalkIn(v, c, m + 1) = IF WalkIn(v, c, m) \in Cluster THEN v[WalkIn(v, c, m)] ELSE WalkIn(v, c, m)
    BY <2>1, WalkSteps
  <2> QED
    BY <1>1, <2>1, <2>2
<1>4. D = Nat
  <2>1. D \in SUBSET Nat
    OBVIOUS
  <2> HIDE DEF D
  <2> QED
    BY <1>2, <1>3, <2>1, AllNumbers
<1>5. \A n \in 0..LastCluster : WalkIn(v, c, n) \in {c, v[c]}
  BY <1>4
<1> QED
  BY <1>1, <1>5 DEF ChainIn

(* What follows the first cluster of a chain.                              *)
LEMMA ChainRest ==
  ASSUME NEW v, NEW c, Good(v, c)
  PROVE  \/ v[c] = Eoc /\ ChainIn(v, c) = {c}
         \/ /\ v[c] # Eoc /\ Good(v, v[c]) /\ c \notin ChainIn(v, v[c])
            /\ ChainIn(v, c) = {c} \cup ChainIn(v, v[c])
<1>1. PICK p : Path(v, p, c)
  BY DEF Good
<1> DEFINE L == Len(p)
<1>2. /\ p \in Seq(Cluster) /\ L \in Nat /\ L >= 1 /\ p[1] = c /\ c \in Cluster
      /\ \A i \in 1..L : p[i] \in Cluster
      /\ \A i, j \in 1..L : p[i] = p[j] => i = j
      /\ \A i \in 1..L : v[p[i]] = IF i = L THEN Eoc ELSE p[i + 1]
  BY <1>1, PathFacts
<1>3. ChainIn(v, c) = {p[i] : i \in 1..L}
  BY <1>1, ChainIs
<1> HIDE DEF L
<1>4. CASE L = 1
  <2>1. v[c] = Eoc
    BY <1>2, <1>4
  <2> QED
    BY <1>2, <2>1, ChainOne
<1>5. CASE L # 1
  <2> DEFINE r == Tail(p)
             M == L - 1
  <2>1. r \in Seq(Cluster) /\ Len(r) = M /\ \A i \in 1..M : r[i] = p[i + 1]
    <3>1. p # <<>>
      BY <1>2, EmptySeq DEF L
    <3> QED
      BY <1>2, <3>1, HeadTailProperties DEF L
  <2> HIDE DEF r
  <2>2. M \in Nat /\ M # 0 /\ 1 \in 1..M /\ 1 \in 1..L /\ \A i \in 1..M : i + 1 \in 1..L /\ (i + 1 = L <=> i = M)
    BY <1>2, <1>5
  <2>3. v[c] = p[2] /\ r[1] = p[2] /\ v[c] \in Cluster
    BY <1>2, <1>5, <2>1, <2>2
  <2>4. \A i, j \in 1..M : r[i] = r[j] => i = j
    <3> SUFFICES ASSUME NEW i \in 1..M, NEW j \in 1..M, r[i] = r[j] PROVE i = j
      OBVIOUS
    <3>1. i + 1 \in 1..L /\ j + 1 \in 1..L /\ p[i + 1] = p[j + 1]
      BY <2>1, <2>2
    <3>2. i + 1 = j + 1
      BY <1>2, <3>1
    <3> QED
      BY <3>2
  <2>5. \A i \in 1..M : v[r[i]] = IF i = M THEN Eoc ELSE r[i + 1]
    <3> SUFFICES ASSUME NEW i \in 1..M PROVE v[r[i]] = IF i = M THEN Eoc ELSE r[i + 1]
      OBVIOUS
    <3>1. r[i] = p[i + 1] /\ i + 1 \in 1..L /\ (i + 1 = L <=> i = M)
      BY <2>1, <2>2
    <3>2. i # M => i + 1 \in 1..M
      BY <2>2
    <3> QED
      BY <1>2, <2>1, <3>1, <3>2
  <2>6. Path(v, r, v[c])
    <3> HIDE DEF M
    <3> QED
      BY <2>1, <2>2, <2>3, <2>4, <2>5 DEF Path
  <2>7. ChainIn(v, v[c]) = {r[i] : i \in 1..M}
    BY <2>1, <2>6, ChainIs
  <2>8. ASSUME NEW d PROVE d \in ChainIn(v, c) <=> d = c \/ d \in ChainIn(v, v[c])
    <3>1. ASSUME d \in ChainIn(v, c), d # c PROVE d \in ChainIn(v, v[c])
      <4>1. PICK i \in 1..L : d = p[i]
        BY <1>3, <3>1
      <4>2. i # 1
        BY <1>2, <3>1, <4>1
      <4>3. i - 1 \in 1..M /\ (i - 1) + 1 = i
        BY <1>2, <4>1, <4>2
      <4>4. d = r[i - 1]
        BY <2>1, <4>1, <4>3
      <4> QED
        BY <2>7, <4>3, <4>4
    <3>2. ASSUME d \in ChainIn(v, v[c]) PROVE d \in ChainIn(v, c)
      <4>1. PICK i \in 1..M : d = r[i]
        BY <2>7, <3>2
      <4>2. i + 1 \in 1..L /\ d = p[i + 1]
        BY <2>1, <2>2, <4>1
      <4> QED
        BY <1>3, <4>2
    <3>3. c \in ChainIn(v, c)
      BY <1>2, <1>3, <2>2
    <3> QED
      BY <3>1, <3>2, <3>3
  <2>9. c \notin ChainIn(v, v[c])
    <3> SUFFICES ASSUME NEW i \in 1..M, c = r[i] PROVE FALSE
      BY <2>7
    <3>1. i + 1 \in 1..L /\ p[i + 1] = p[1] /\ i + 1 # 1
      BY <1>2, <2>1, <2>2
    <3> QED
      BY <1>2, <2>2, <3>1
  <2> HIDE DEF r, M
  <2>10. v[c] # Eoc
    BY <2>3, Volume
  <2>11. ChainIn(v, c) = {c} \cup ChainIn(v, v[c])
    BY <2>8
  <2> QED
    BY <2>6, <2>9, <2>10, <2>11 DEF Good
<1> QED
  BY <1>4, <1>5

-----------------------------------------------------------------------------
(* Sectors and slots.                                                      *)

LEMMA ConstantFacts ==
  /\ SectorSize \in Nat /\ SectorSize >= 2 /\ SectorSize \in Nat \ {0}
  /\ Sectors \in Nat /\ Sectors >= 2 /\ Sectors \in Nat \ {0}
  /\ Slots \in Nat /\ Slots >= 2 /\ Slots \in Nat \ {0}
  /\ ClusterSize \in Nat \ {0} /\ ClusterSize = Sectors * SectorSize
  /\ None \in Nat /\ None >= 4 /\ None = Sectors * Slots
  /\ Slot = 0..(None - 1) /\ 0 \in Slot /\ 1 \in Slot
  /\ \A s : s \in Slot <=> s \in Nat /\ s < None
<1>1. /\ SectorSize \in Nat /\ SectorSize >= 2 /\ SectorSize \in Nat \ {0}
      /\ Sectors \in Nat /\ Sectors >= 2 /\ Sectors \in Nat \ {0}
      /\ Slots \in Nat /\ Slots >= 2 /\ Slots \in Nat \ {0}
  BY SizesAssumption
<1>2. \A a, b \in Nat : a >= 2 /\ b >= 2 => a * b \in Nat /\ a * b >= 4
  OBVIOUS
<1>3. Sectors * SectorSize \in Nat /\ Sectors * SectorSize >= 4 /\ Sectors * Slots \in Nat /\ Sectors * Slots >= 4
  BY <1>1, <1>2
<1> QED
  BY <1>1, <1>3 DEF ClusterSize, None, Slot

(* The same without the products, which arithmetic is easier without.      *)
LEMMA SizeFacts ==
  /\ SectorSize \in Nat \ {0} /\ SectorSize >= 2 /\ Sectors \in Nat \ {0} /\ Sectors >= 2
  /\ Slots \in Nat \ {0} /\ Slots >= 2 /\ ClusterSize \in Nat \ {0} /\ None \in Nat /\ None >= 4
  /\ Slot = 0..(None - 1) /\ 0 \in Slot /\ 1 \in Slot
  /\ \A s : s \in Slot <=> s \in Nat /\ s < None
BY ConstantFacts

LEMMA DivMod ==
  ASSUME NEW m \in Nat \ {0}, NEW a \in Nat
  PROVE  a % m \in 0 .. m - 1 /\ a \div m \in Nat /\ a = m * (a \div m) + (a % m)
OBVIOUS

LEMMA DivModOf ==
  ASSUME NEW m \in Nat \ {0}, NEW q \in Nat, NEW r \in 0 .. m - 1
  PROVE  (m * q + r) % m = r /\ (m * q + r) \div m = q
OBVIOUS

LEMMA TimesGrows ==
  ASSUME NEW m \in Nat, NEW a \in Int, NEW b \in Int, a <= b
  PROVE  m * a <= m * b
OBVIOUS

(* A place before m times n is in one of the first n pieces of length m.   *)
LEMMA PieceOf ==
  ASSUME NEW m \in Nat \ {0}, NEW n \in Nat, NEW a \in Nat, a < m * n
  PROVE  a \div m \in Nat /\ a \div m < n
<1>1. a % m \in 0 .. m - 1 /\ a \div m \in Nat /\ a = m * (a \div m) + (a % m)
  BY DivMod
<1> DEFINE q == a \div m
<1> HIDE DEF q
<1>2. SUFFICES ASSUME n <= q PROVE FALSE
  BY <1>1 DEF q
<1>3. m * n <= m * q
  BY <1>1, <1>2, TimesGrows DEF q
<1>4. m * q \in Nat /\ m * n \in Nat
  BY <1>1 DEF q
<1> QED
  BY <1>1, <1>3, <1>4 DEF q

(* The sector after a slot begins behind it, and if it is in the directory *)
(* it has two slots.                                                       *)
LEMMA NextSectorIs ==
  ASSUME NEW s \in Slot
  PROVE  /\ NextSector(s) \in Nat /\ s < NextSector(s)
         /\ NextSector(s) \in Slot => NextSector(s) + 1 \in Slot
<1>1. s \in Nat /\ s < Slots * Sectors /\ Sectors \in Nat /\ Slots \in Nat \ {0} /\ Slots >= 2
  BY ConstantFacts
<1> DEFINE q == s \div Slots
<1>2. q \in Nat /\ q < Sectors
  BY <1>1, PieceOf
<1>3. s % Slots \in 0 .. Slots - 1 /\ s = Slots * q + (s % Slots)
  BY <1>1, DivMod
<1>4. NextSector(s) = Slots * (q + 1)
  <2>1. (q + 1) * Slots = Slots * (q + 1)
    BY <1>1, <1>2
  <2> QED
    BY <2>1 DEF NextSector
<1> HIDE DEF q
<1>5. Slots * (q + 1) = Slots * q + Slots /\ Slots * q \in Nat
  BY <1>1, <1>2
<1>6. NextSector(s) \in Nat /\ s < NextSector(s)
  BY <1>1, <1>3, <1>4, <1>5
<1>7. ASSUME NextSector(s) \in Slot PROVE NextSector(s) + 1 \in Slot
  <2>1. Slots * (q + 1) < Slots * Sectors
    BY <1>1, <1>4, <1>7, ConstantFacts
  <2>2. q + 1 < Sectors
    <3>1. SUFFICES ASSUME Sectors <= q + 1 PROVE FALSE
      BY <1>1, <1>2
    <3>2. Slots * Sectors <= Slots * (q + 1)
      BY <1>1, <1>2, <3>1, TimesGrows
    <3> QED
      BY <1>1, <1>2, <2>1, <3>2
  <2>3. Slots * ((q + 1) + 1) <= Slots * Sectors
    BY <1>1, <1>2, <2>2, TimesGrows
  <2>4. Slots * ((q + 1) + 1) = Slots * (q + 1) + Slots
    BY <1>1, <1>2
  <2>5. NextSector(s) + 1 < Slots * Sectors
    <3> DEFINE x == Slots * (q + 1)
               y == Slots * Sectors
    <3>1. x \in Nat /\ y \in Nat
      BY <1>1, <1>2
    <3> HIDE DEF x, y
    <3> QED
      BY <1>1, <1>4, <2>3, <2>4, <3>1 DEF x, y
  <2>6. Slots * Sectors = None
    BY <1>1, ConstantFacts
  <2> QED
    BY <1>6, <2>5, <2>6, SizeFacts
<1> QED
  BY <1>6, <1>7

(* A slot with the next one in the same sector.                            *)
LEMMA SameSector ==
  ASSUME NEW s \in Slot, s % Slots # Slots - 1
  PROVE  s + 1 \in Slot
<1>1. s \in Nat /\ s < Slots * Sectors /\ Sectors \in Nat /\ Slots \in Nat \ {0} /\ Slots >= 2
  BY ConstantFacts
<1> DEFINE q == s \div Slots
<1>2. q \in Nat /\ q < Sectors
  BY <1>1, PieceOf
<1>3. s % Slots \in 0 .. Slots - 1 /\ s = Slots * q + (s % Slots)
  BY <1>1, DivMod
<1> HIDE DEF q
<1>4. Slots * (q + 1) <= Slots * Sectors
  BY <1>1, <1>2, TimesGrows
<1>5. Slots * (q + 1) = Slots * q + Slots /\ Slots * q \in Nat
  BY <1>1, <1>2
<1>6. s + 1 < Slots * Sectors
  <2> DEFINE x == Slots * q
             y == Slots * Sectors
             r == s % Slots
  <2>1. x \in Nat /\ y \in Nat /\ r \in Nat /\ r + 1 < Slots
    BY <1>1, <1>2, <1>3
  <2> HIDE DEF x, y, r
  <2> QED
    BY <1>1, <1>3, <1>4, <1>5, <2>1 DEF x, y, r
<1>7. Slots * Sectors = None
  BY <1>1, ConstantFacts
<1> QED
  BY <1>1, <1>6, <1>7, SizeFacts

-----------------------------------------------------------------------------
(* Where a new file's entries go.  g has the slot that getFreeEntry finds  *)
(* from each slot on, which depends on what it finds from later ones.      *)

Look(g, n, s) ==
    IF s >= None THEN None
    ELSE IF dir[s].kind = "end" THEN s
    ELSE IF dir[s].kind # "free" THEN g[s + 1]
    ELSE IF n = 1 \/ (~(s % Slots = Slots - 1) /\ dir[s + 1].kind = "free") THEN s
    ELSE IF s % Slots = Slots - 1 THEN g[s + 1] ELSE g[s + 2]

Looks(g, n) == g = [s \in 0..(None + 1) |-> Look(g, n, s)]

Suits(n, s) ==
    \/ s = None
    \/ /\ s \in Slot
       /\ \/ dir[s].kind = "end"
          \/ /\ dir[s].kind = "free"
             /\ n = 1 \/ (s % Slots # Slots - 1 /\ dir[s + 1].kind = "free")

LEMMA LooksExists ==
  ASSUME NEW n
  PROVE  \E g : Looks(g, n)
<1> DEFINE M == None + 1
           D == {j \in Nat : \E g : g = [s \in 0..M |-> g[s]]
                                    /\ \A s \in 0..M : s > M - j => g[s] = Look(g, n, s)}
<1>1. M \in Nat /\ M = None + 1 /\ None \in Nat
  BY SizeFacts
<1> HIDE DEF M
<1>2. 0 \in D
  <2> DEFINE g == [s \in 0..M |-> 0]
  <2>1. g = [s \in 0..M |-> g[s]]
    OBVIOUS
  <2>2. \A s \in 0..M : ~(s > M - 0)
    BY <1>1
  <2> QED
    BY <2>1, <2>2
<1>3. ASSUME NEW j \in D PROVE j + 1 \in D
  <2>1. j \in Nat
    OBVIOUS
  <2>2. PICK g : g = [s \in 0..M |-> g[s]] /\ \A s \in 0..M : s > M - j => g[s] = Look(g, n, s)
    OBVIOUS
  <2> DEFINE h == [s \in 0..M |-> IF s = M - j THEN Look(g, n, s) ELSE g[s]]
  <2>3. h = [s \in 0..M |-> h[s]] /\ \A s \in 0..M : h[s] = IF s = M - j THEN Look(g, n, s) ELSE g[s]
    OBVIOUS
  <2> HIDE DEF h
  <2>4. ASSUME NEW s \in 0..M, s >= M - j PROVE Look(h, n, s) = Look(g, n, s)
    <3>1. CASE s >= None
      BY <3>1 DEF Look
    <3>2. CASE ~(s >= None)
      <4>1. s + 1 \in 0..M /\ s + 2 \in 0..M /\ s + 1 # M - j /\ s + 2 # M - j
        BY <1>1, <2>1, <2>4, <3>2
      <4>2. h[s + 1] = g[s + 1] /\ h[s + 2] = g[s + 2]
        BY <2>3, <4>1
      <4> QED
        BY <4>2 DEF Look
    <3> QED
      BY <3>1, <3>2
  <2>5. ASSUME NEW s \in 0..M, s > M - (j + 1) PROVE h[s] = Look(h, n, s)
    <3>1. s >= M - j /\ (s = M - j \/ s > M - j)
      BY <1>1, <2>1, <2>5
    <3>2. Look(h, n, s) = Look(g, n, s)
      BY <2>4, <3>1
    <3>3. CASE s = M - j
      BY <2>3, <3>2, <3>3
    <3>4. CASE s # M - j
      <4>1. s > M - j
        BY <3>1, <3>4
      <4> QED
        BY <2>2, <2>3, <3>2, <3>4, <4>1
    <3> QED
      BY <3>3, <3>4
  <2>6. j + 1 \in Nat
    BY <2>1
  <2> QED
    BY <2>3, <2>5, <2>6
<1>4. D = Nat
  <2>1. D \in SUBSET Nat
    OBVIOUS
  <2> HIDE DEF D
  <2> QED
    BY <1>2, <1>3, <2>1, AllNumbers
<1>5. M + 1 \in D
  <2>1. M + 1 \in Nat
    BY <1>1
  <2> HIDE DEF D
  <2> QED
    BY <1>4, <2>1
<1>6. PICK g : g = [s \in 0..M |-> g[s]] /\ \A s \in 0..M : s > M - (M + 1) => g[s] = Look(g, n, s)
  BY <1>5
<1>7. \A s \in 0..M : s > M - (M + 1)
  BY <1>1
<1>8. \A s \in 0..M : g[s] = Look(g, n, s)
  BY <1>6, <1>7
<1>9. Looks(g, n)
  BY <1>6, <1>8 DEF Looks, M
<1> QED
  BY <1>9

LEMMA LooksSuits ==
  ASSUME NEW n, NEW g, Looks(g, n)
  PROVE  Suits(n, g[0])
<1> DEFINE M == None + 1
           T == {i \in Nat : i <= M /\ ~Suits(n, g[M - i])}
<1>1. M \in Nat /\ M = None + 1 /\ None \in Nat
  BY SizeFacts
<1>2. \A s \in 0..M : g[s] = Look(g, n, s)
  BY DEF Looks
<1> HIDE DEF M
<1>3. SUFFICES ASSUME ~Suits(n, g[0]) PROVE FALSE
  OBVIOUS
<1>4. M \in T
  <2>1. M - M = 0 /\ M <= M
    BY <1>1
  <2> QED
    BY <1>1, <1>3, <2>1
<1>5. PICK m \in T : \A i \in T : m <= i
  <2>1. T \in SUBSET Nat /\ T # {}
    BY <1>4
  <2> HIDE DEF T
  <2> QED
    BY <2>1, LeastNumber
<1>6. m \in Nat /\ m <= M /\ ~Suits(n, g[M - m])
  OBVIOUS
<1> DEFINE s == M - m
<1>7. s \in 0..M
  BY <1>1, <1>6
<1>8. g[s] = Look(g, n, s)
  BY <1>2, <1>7
<1>9. ASSUME NEW t \in 0..M, t > s PROVE Suits(n, g[t])
  <2>1. M - t \in Nat /\ M - t <= M /\ M - (M - t) = t /\ ~(m <= M - t)
    BY <1>1, <1>6, <1>9
  <2>2. M - t \notin T
    BY <1>5, <2>1
  <2> QED
    BY <2>1, <2>2
<1> HIDE DEF T
<1>10. ~Suits(n, g[s])
  BY <1>6
<1> HIDE DEF s
<1>11. CASE s >= None
  BY <1>8, <1>10, <1>11 DEF Look, Suits
<1>12. CASE ~(s >= None)
  <2>1. s \in Slot /\ s + 1 \in 0..M /\ s + 1 > s /\ s + 2 \in 0..M /\ s + 2 > s
    BY <1>1, <1>7, <1>12, SizeFacts
  <2>2. Suits(n, g[s + 1]) /\ Suits(n, g[s + 2])
    BY <1>9, <2>1
  <2>3. g[s] # g[s + 1] /\ g[s] # g[s + 2]
    BY <1>10, <2>2
  <2>4. /\ dir[s].kind # "end" => dir[s].kind = "free"
        /\ g[s] = s
        /\ dir[s].kind # "end" => n = 1 \/ (~(s % Slots = Slots - 1) /\ dir[s + 1].kind = "free")
    BY <1>8, <1>12, <2>3 DEF Look
  <2>5. Suits(n, s)
    BY <2>1, <2>4 DEF Suits
  <2> QED
    BY <1>10, <2>4, <2>5
<1> QED
  BY <1>11, <1>12

(* getFreeEntry finds the end mark, or free slots enough in one sector, or *)
(* nothing.                                                                *)
LEMMA FreeEntrySuits ==
  ASSUME NEW n
  PROVE  Suits(n, FreeEntry(n))
<1> DEFINE g == CHOOSE g : g = [s \in 0..(None + 1) |-> Look(g, n, s)]
<1>1. FreeEntry(n) = g[0]
  BY DEF FreeEntry, Look
<1>2. Looks(g, n)
  BY LooksExists DEF Looks
<1> HIDE DEF g
<1> QED
  BY <1>1, <1>2, LooksSuits

-----------------------------------------------------------------------------
(* Types.  The kinds of directory entries and what they hold, the fields   *)
(* of a call in progress and which of them its program counter fills.      *)

Kind == {"label", "end", "free", "lfn", "file"}
DirRec == [kind : Kind, name : Name \cup {NULL}, start : {0} \cup Cluster, size : Nat]

Entries(d) ==
    /\ d \in [Slot -> DirRec]
    /\ \A s \in Slot : /\ d[s].kind \in {"lfn", "file"} <=> d[s].name \in Name
                       /\ d[s].kind = "file" <=> d[s].start \in Cluster

CardTypes ==
    /\ fat \in [Cluster -> FatValue]
    /\ hint \in 3..Eoc
    /\ Entries(dir)
    /\ data \in [Cluster -> [1..ClusterSize -> Byte]]

Mode == {"write", "append"}

OpRec == [pc : Pc, name : Name \cup {NULL}, mode : Mode \cup {NULL}, new : {0} \cup Cluster,
          link : FatValue, slot : Nat, cur : FatValue, sector : 0..(Sectors - 1),
          from : 0..(SectorSize - 1), sent : Nat, len : Nat]

(* A call that makes a file or writes one, one that allocates, and one     *)
(* that has an open file: fileWrite, from its walk on.                     *)
Making == {"hint", "link", "mark", "pad", "entry", "sector", "update"}
Allocating == {"hint", "link", "mark"}

CallTypes(o, h) ==
    /\ o \in OpRec
    /\ o.len # 0 => o.sent < o.len
    /\ o.pc \in Making \cup {"unlink"} => o.name \in Name
    /\ o.pc \in Making => o.mode \in Mode
    /\ o.pc \in {"link", "mark", "pad", "entry"} => o.new \in Cluster
    /\ o.pc \in Allocating => o.link \in {0} \cup Cluster
    /\ o.pc = "link" => o.link # 0
    /\ o.pc = "pad" => o.slot \in Slot
    /\ o.pc = "entry" /\ o.slot \in Slot => o.slot + Needed(o.name) - 1 \in Slot
    /\ o.pc \in {"sector", "update"} \/ (o.pc \in Allocating /\ o.link # 0) => h[o.name] \in Handle

HistoryTypes ==
    /\ writes \in 0..MaxWrites /\ losses \in 0..MaxLosses
    /\ spoiled \in BOOLEAN
    /\ lost \subseteq Cluster
    /\ ~spoiled => lost = {}

Types ==
    /\ CardTypes
    /\ handles \in [Name -> Handle \cup {NULL}]
    /\ CallTypes(op, handles)
    /\ HistoryTypes

LEMMA IdleIs ==
  /\ Idle \in OpRec /\ Idle.pc = "idle" /\ Idle.link = 0 /\ Idle.len = 0
  /\ Idle.new = 0 /\ Idle.slot = 0 /\ Idle.sent = 0
  /\ \A h : CallTypes(Idle, h)
<1>1. 0 \in 0..(Sectors - 1) /\ 0 \in 0..(SectorSize - 1)
  BY SizeFacts
<1>2. Idle \in OpRec
  BY <1>1 DEF Idle, OpRec, Pc, FatValue, Free
<1>3. /\ Idle.pc = "idle" /\ Idle.link = 0 /\ Idle.len = 0
      /\ Idle.new = 0 /\ Idle.slot = 0 /\ Idle.sent = 0
  BY DEF Idle
<1> QED
  BY <1>2, <1>3 DEF CallTypes, Making, Allocating

LEMMA EntryIs ==
  /\ End \in DirRec /\ End.kind = "end" /\ End.name = NULL /\ End.start = 0
  /\ Unused \in DirRec /\ Unused.kind = "free" /\ Unused.name = NULL /\ Unused.start = 0
  /\ \A f \in Name : /\ LfnEntry(f) \in DirRec /\ LfnEntry(f).kind = "lfn"
                     /\ LfnEntry(f).name = f /\ LfnEntry(f).start = 0
  /\ \A f \in Name, h \in Handle : /\ FileEntry(f, h) \in DirRec /\ FileEntry(f, h).kind = "file"
                                   /\ FileEntry(f, h).name = f /\ FileEntry(f, h).start = h.start
                                   /\ h.start \in Cluster /\ h.slot \in Slot
                                   /\ h.size \in Nat /\ h.mode \in Mode
                                   /\ FileEntry(f, h).size = h.size
BY DEF End, Unused, LfnEntry, FileEntry, DirRec, Kind, Handle, Mode

LEMMA NullFacts == NULL \notin Name /\ NULL \notin Handle /\ 0 \notin Cluster /\ 0 \in FatValue
BY NamesAssumption, HandleAssumption, Volume DEF FatValue

(* What the fields of a call hold.                                         *)
LEMMA OpFields ==
  ASSUME NEW o \in OpRec
  PROVE  /\ o.pc \in Pc /\ o.name \in Name \cup {NULL} /\ o.mode \in Mode \cup {NULL}
         /\ o.new \in {0} \cup Cluster /\ o.link \in FatValue /\ o.slot \in Nat /\ o.cur \in FatValue
         /\ o.sector \in 0..(Sectors - 1) /\ o.from \in 0..(SectorSize - 1)
         /\ o.sent \in Nat /\ o.len \in Nat
BY DEF OpRec

LEMMA EntryFields ==
  ASSUME NEW d, Entries(d), NEW s \in Slot
  PROVE  /\ d[s] \in DirRec /\ d[s].kind \in Kind /\ d[s].size \in Nat
         /\ d[s].kind \in {"lfn", "file"} <=> d[s].name \in Name
         /\ d[s].kind = "file" <=> d[s].start \in Cluster
<1>1. /\ d[s] \in DirRec
      /\ d[s].kind \in {"lfn", "file"} <=> d[s].name \in Name
      /\ d[s].kind = "file" <=> d[s].start \in Cluster
  BY DEF Entries
<1> QED
  BY <1>1 DEF DirRec

(* The first slot at which fileExists finds a file.                        *)
LEMMA AtIs ==
  ASSUME NEW f, Exists(f)
  PROVE  /\ At(f) \in Slot /\ dir[At(f)].kind = "file" /\ dir[At(f)].name = f
         /\ At(f) \in Find(f)
<1>1. Find(f) \in SUBSET Nat /\ Find(f) # {}
  BY SizeFacts DEF Find, Exists
<1>2. At(f) \in Find(f)
  BY <1>1, MinIs DEF At
<1> QED
  BY <1>2 DEF Find

LEMMA TypesSuffice ==
  ASSUME Types
  PROVE  TypeOK
<1> USE DEF Types
<1>1. \A s \in Slot : /\ dir[s].kind \in {"label", "end", "free", "lfn", "file"}
                      /\ dir[s].kind \in {"lfn", "file"} <=> dir[s].name \in Name
                      /\ dir[s].kind = "file" <=> dir[s].start \in Cluster
  BY EntryFields DEF CardTypes, Kind
<1>2. ASSUME NEW c \in Cluster PROVE data[c] \in Seq(Byte) /\ Len(data[c]) = ClusterSize
  <2>1. data[c] \in [1..ClusterSize -> Byte] /\ ClusterSize \in Nat
    BY SizeFacts DEF CardTypes
  <2> QED
    BY <2>1
<1>3. \A f \in Name : handles[f] # NULL => handles[f].slot \in Slot /\ handles[f].start \in Cluster
  BY DEF Handle
<1>4. op.pc \in Pc /\ (op.pc = "sector" => op.sector < Sectors /\ op.from < SectorSize)
  BY OpFields, SizeFacts DEF CallTypes
<1> QED
  BY <1>1, <1>2, <1>3, <1>4 DEF TypeOK, CardTypes, HistoryTypes, FatValue

EntryOK(e) ==
    /\ e \in DirRec
    /\ e.kind \in {"lfn", "file"} <=> e.name \in Name
    /\ e.kind = "file" <=> e.start \in Cluster

LEMMA EntriesFrom ==
  ASSUME NEW d, d = [s \in Slot |-> d[s]], \A s \in Slot : EntryOK(d[s])
  PROVE  Entries(d)
BY DEF Entries, EntryOK

LEMMA EntriesOK ==
  /\ EntryOK(End) /\ EntryOK(Unused)
  /\ \A f \in Name : EntryOK(LfnEntry(f))
  /\ \A f \in Name, h \in Handle : EntryOK(FileEntry(f, h))
  /\ \A d : Entries(d) => \A s \in Slot : EntryOK(d[s])
<1>1. EntryOK(End) /\ EntryOK(Unused)
  BY EntryIs, NullFacts DEF EntryOK
<1>2. \A f \in Name : EntryOK(LfnEntry(f))
  BY EntryIs, NullFacts DEF EntryOK
<1>3. \A f \in Name, h \in Handle : EntryOK(FileEntry(f, h))
  BY EntryIs DEF EntryOK
<1>4. \A d : Entries(d) => \A s \in Slot : EntryOK(d[s])
  BY DEF Entries, EntryOK
<1> QED
  BY <1>1, <1>2, <1>3, <1>4

-----------------------------------------------------------------------------
(* The card at the start.  A file of n bytes has the first clusters of the *)
(* volume, as many as its bytes need.                                      *)

Used(n) == {c \in Cluster : (c - 3) * ClusterSize < n}
FirstEntry(f, n) == FileEntry(f, [start |-> 3, size |-> n])
NewCard(f, n) ==
    /\ fat = [c \in Cluster |-> IF c \notin Used(n) THEN Free
                                ELSE IF c + 1 \in Used(n) THEN c + 1 ELSE Eoc]
    /\ hint = 3 + Cardinality(Used(n))
    /\ dir = [s \in Slot |-> IF s = 0 THEN [End EXCEPT !.kind = "label"]
                             ELSE IF s = 1 /\ n > 0 THEN FirstEntry(f, n)
                             ELSE End]
    /\ data = [c \in Cluster |-> [k \in 1..ClusterSize |->
                  IF (c - 3) * ClusterSize + k <= n
                  THEN Bytes(0, n)[(c - 3) * ClusterSize + k] ELSE Junk]]

LEMMA InitIs ==
  ASSUME Init
  PROVE  /\ \E f \in Name \ Long, n \in OldSize : NewCard(f, n)
         /\ handles = [f \in Name |-> NULL]
         /\ op = Idle
         /\ writes = 0 /\ losses = 0 /\ spoiled = FALSE /\ lost = {} /\ defects = {}
BY DEF Init, NewCard, Used, FirstEntry

LEMMA FirstEntryIs ==
  ASSUME NEW f \in Name, NEW n \in Nat
  PROVE  /\ EntryOK(FirstEntry(f, n)) /\ FirstEntry(f, n).kind = "file" /\ FirstEntry(f, n).name = f
         /\ FirstEntry(f, n).start = 3 /\ FirstEntry(f, n).size = n
<1> DEFINE e == FirstEntry(f, n)
<1>1. e = [kind |-> "file", name |-> f, start |-> 3, size |-> n]
  BY DEF FirstEntry, FileEntry
<1>2. e \in DirRec
  BY <1>1, Volume DEF DirRec, Kind
<1> HIDE DEF e
<1>3. e.kind = "file" /\ e.name = f /\ e.start = 3 /\ e.size = n
  BY <1>1
<1> QED
  BY <1>2, <1>3, Volume DEF EntryOK, e

LEMMA LabelIs ==
  /\ EntryOK([End EXCEPT !.kind = "label"]) /\ [End EXCEPT !.kind = "label"].kind = "label"
  /\ [End EXCEPT !.kind = "label"].name = NULL
<1> DEFINE e == [End EXCEPT !.kind = "label"]
<1>1. e = [kind |-> "label", name |-> NULL, start |-> 0, size |-> 0]
  BY DEF End
<1>2. e \in DirRec
  BY <1>1 DEF DirRec, Kind
<1> HIDE DEF e
<1>3. e.kind = "label" /\ e.name = NULL /\ e.start = 0
  BY <1>1
<1> QED
  BY <1>2, <1>3, NullFacts DEF EntryOK, e

(* The clusters used are the first ones.                                   *)
LEMMA UsedIs ==
  ASSUME NEW n \in OldSize
  PROVE  /\ n \in Nat
         /\ Cardinality(Used(n)) \in 0..(LastCluster - 2)
         /\ \A c : c \in Used(n) <=> c \in Nat /\ 3 <= c /\ c < 3 + Cardinality(Used(n))
         /\ n <= ClusterSize * Cardinality(Used(n))
         /\ n = 0 <=> Cardinality(Used(n)) = 0
<1>1. LastCluster \in Nat /\ LastCluster >= 3 /\ ClusterSize \in Nat \ {0}
  BY Volume, SizeFacts
<1> DEFINE N == LastCluster - 2
           P == {i \in 1..N : (i - 1) * ClusterSize < n}
           K == Cardinality(P)
<1>2. N \in Nat /\ LastCluster = N + 2
  BY <1>1
<1>3. n \in Nat /\ n <= N * ClusterSize
  <2>1. N * ClusterSize \in Nat
    BY <1>1, <1>2
  <2>2. n \in 0..(N * ClusterSize)
    BY OldAssumption
  <2> QED
    BY <2>1, <2>2
<1>4. \A i \in P : \A j \in 1..i : j \in P
  <2> SUFFICES ASSUME NEW i \in P, NEW j \in 1..i PROVE j \in P
    OBVIOUS
  <2>1. i \in 1..N /\ (i - 1) * ClusterSize < n /\ j \in 1..N /\ j - 1 <= i - 1 /\ j - 1 \in Nat /\ i - 1 \in Nat
    BY <1>2
  <2>2. ClusterSize * (j - 1) <= ClusterSize * (i - 1)
    BY <1>1, <2>1, TimesGrows
  <2>3. (j - 1) * ClusterSize < n
    <3> DEFINE x == ClusterSize * (j - 1)
               y == ClusterSize * (i - 1)
    <3>1. x \in Nat /\ y \in Nat /\ x = (j - 1) * ClusterSize /\ y = (i - 1) * ClusterSize
      BY <1>1, <2>1
    <3> HIDE DEF x, y
    <3>2. x <= y /\ y < n
      BY <2>1, <2>2, <3>1 DEF x, y
    <3> QED
      BY <1>3, <3>1, <3>2
  <2> QED
    BY <2>1, <2>3
<1>5. K \in 0..N /\ P = 1..K
  <2> HIDE DEF P
  <2>1. P \in SUBSET (1..N)
    BY DEF P
  <2> HIDE DEF N
  <2> QED
    BY <1>2, <1>4, <2>1, Prefix
<1>6. \A c : c \in Used(n) <=> c \in Nat /\ 3 <= c /\ c < 3 + K
  <2> SUFFICES ASSUME NEW c PROVE c \in Used(n) <=> c \in Nat /\ 3 <= c /\ c < 3 + K
    OBVIOUS
  <2>1. c \in Used(n) <=> c \in Nat /\ 3 <= c /\ c <= LastCluster /\ (c - 3) * ClusterSize < n
    BY Volume DEF Used
  <2>2. ASSUME c \in Nat, 3 <= c PROVE c \in Used(n) <=> c - 2 \in P
    <3>1. (c - 2) - 1 = c - 3 /\ (c - 2 \in 1..N <=> c <= LastCluster)
      BY <1>2, <2>2
    <3> QED
      BY <2>1, <2>2, <3>1
  <2>3. ASSUME c \in Nat, 3 <= c PROVE c - 2 \in P <=> c < 3 + K
    <3>1. c - 2 \in 1..K <=> c < 3 + K
      BY <1>2, <1>5, <2>3
    <3> QED
      BY <1>5, <3>1
  <2> QED
    BY <2>1, <2>2, <2>3
<1> HIDE DEF P, N
<1>7. Cardinality(Used(n)) = K
  <2> DEFINE g == [i \in 1..K |-> i + 2]
  <2>1. g \in Bijection(1..K, Used(n))
    <3>1. g \in [1..K -> Used(n)] /\ \A i \in 1..K : g[i] = i + 2
      <4> SUFFICES ASSUME NEW i \in 1..K PROVE i + 2 \in Used(n)
        OBVIOUS
      <4> QED
        BY <1>2, <1>5, <1>6
    <3>2. ASSUME NEW c \in Used(n) PROVE \E i \in 1..K : g[i] = c
      <4>1. c - 2 \in 1..K /\ (c - 2) + 2 = c
        BY <1>2, <1>5, <1>6
      <4> QED
        BY <3>1, <4>1
    <3> HIDE DEF g
    <3>3. \A i, j \in 1..K : g[i] = g[j] => i = j
      BY <3>1
    <3>4. g \in Injection(1..K, Used(n))
      BY <3>1, <3>3 DEF Injection, IsInjective
    <3>5. g \in Surjection(1..K, Used(n))
      BY <3>1, <3>2 DEF Surjection
    <3> QED
      BY <3>4, <3>5 DEF Bijection
  <2> HIDE DEF g
  <2>2. K \in Nat
    BY <1>2, <1>5
  <2>3. IsFiniteSet(1..K) /\ Cardinality(1..K) = K
    BY <2>2, Counted
  <2> QED
    BY <2>1, <2>3, FS_Bijection DEF ExistsBijection
<1>8. n <= ClusterSize * K
  <2>1. CASE K = N
    BY <1>1, <1>2, <1>3, <2>1
  <2>2. CASE K # N
    <3>1. K + 1 \in 1..N /\ K + 1 \notin 1..K /\ (K + 1) - 1 = K /\ K \in Nat
      BY <1>2, <1>5, <2>2
    <3>2. ~(K * ClusterSize < n)
      BY <1>5, <3>1 DEF P
    <3>3. K * ClusterSize \in Nat /\ K * ClusterSize = ClusterSize * K
      BY <1>1, <3>1
    <3> QED
      BY <1>3, <3>2, <3>3
  <2> QED
    BY <2>1, <2>2
<1>9. n = 0 <=> K = 0
  <2>1. ASSUME K = 0 PROVE n = 0
    BY <1>1, <1>3, <1>8, <2>1
  <2>2. ASSUME n = 0, K # 0 PROVE FALSE
    <3>1. 1 \in 1..K
      BY <1>2, <1>5, <2>2
    <3>2. (1 - 1) * ClusterSize < n
      BY <1>5, <3>1 DEF P
    <3> QED
      BY <1>1, <2>2, <3>2
  <2> QED
    BY <2>1, <2>2
<1> QED
  BY <1>3, <1>5, <1>6, <1>7, <1>8, <1>9 DEF N

LEMMA BytesIs ==
  ASSUME NEW call \in 0..MaxWrites, NEW len \in Nat, NEW k \in 1..len
  PROVE  Bytes(call, len)[k] \in Byte
BY DEF Bytes, Byte

LEMMA JunkIs == Junk \in Byte
<1>1. MaxWrites \in Nat
  BY BoundsAssumption
<1> QED
  BY <1>1 DEF Junk, Byte

LEMMA InitTypes ==
  ASSUME Init
  PROVE  Types
<1>1. PICK f \in Name \ Long, n \in OldSize : NewCard(f, n)
  BY InitIs
<1> DEFINE K == Cardinality(Used(n))
<1>2. /\ n \in Nat /\ K \in 0..(LastCluster - 2) /\ LastCluster \in Nat /\ LastCluster >= 3
      /\ \A c : c \in Used(n) <=> c \in Nat /\ 3 <= c /\ c < 3 + K
  BY UsedIs, Volume
<1> HIDE DEF K
<1>3. fat \in [Cluster -> FatValue]
  <2>1. fat = [c \in Cluster |-> IF c \notin Used(n) THEN Free
                                 ELSE IF c + 1 \in Used(n) THEN c + 1 ELSE Eoc]
    BY <1>1 DEF NewCard
  <2>2. \A c \in Cluster : c + 1 \in Used(n) => c + 1 \in Cluster
    BY DEF Used
  <2> QED
    BY <2>1, <2>2 DEF FatValue
<1>4. hint \in 3..Eoc
  <2>1. hint = 3 + K
    BY <1>1 DEF NewCard, K
  <2> QED
    BY <1>2, <2>1, Volume
<1>5. Entries(dir)
  <2>1. dir = [s \in Slot |-> IF s = 0 THEN [End EXCEPT !.kind = "label"]
                              ELSE IF s = 1 /\ n > 0 THEN FirstEntry(f, n)
                              ELSE End]
    BY <1>1 DEF NewCard
  <2>2. dir = [s \in Slot |-> dir[s]]
    BY <2>1
  <2>3. \A s \in Slot : EntryOK(dir[s])
    BY <1>2, <2>1, LabelIs, FirstEntryIs, EntriesOK
  <2> QED
    BY <2>2, <2>3, EntriesFrom
<1>6. data \in [Cluster -> [1..ClusterSize -> Byte]]
  <2>1. data = [c \in Cluster |-> [k \in 1..ClusterSize |->
                  IF (c - 3) * ClusterSize + k <= n
                  THEN Bytes(0, n)[(c - 3) * ClusterSize + k] ELSE Junk]]
    BY <1>1 DEF NewCard
  <2>2. ASSUME NEW c \in Cluster, NEW k \in 1..ClusterSize, (c - 3) * ClusterSize + k <= n
        PROVE  Bytes(0, n)[(c - 3) * ClusterSize + k] \in Byte
    <3>1. c - 3 \in Nat /\ ClusterSize \in Nat /\ k \in Nat /\ k >= 1 /\ 0 \in 0..MaxWrites
      BY Volume, SizeFacts, BoundsAssumption
    <3>2. (c - 3) * ClusterSize \in Nat
      BY <3>1
    <3>3. (c - 3) * ClusterSize + k \in 1..n
      BY <1>2, <2>2, <3>1, <3>2
    <3> QED
      BY <1>2, <3>1, <3>3, BytesIs
  <2> QED
    BY <2>1, <2>2, JunkIs
<1>7. handles \in [Name -> Handle \cup {NULL}]
  BY InitIs
<1>8. CallTypes(op, handles)
  BY InitIs, IdleIs
<1>9. HistoryTypes
  BY InitIs, BoundsAssumption DEF HistoryTypes
<1> QED
  BY <1>3, <1>4, <1>5, <1>6, <1>7, <1>8, <1>9 DEF Types, CardTypes

-----------------------------------------------------------------------------
(* Every step keeps the types.                                             *)

LEMMA TypesFrom ==
  ASSUME Types, fat' \in [Cluster -> FatValue], hint' \in 3..Eoc, Entries(dir'),
         data' \in [Cluster -> [1..ClusterSize -> Byte]], handles' \in [Name -> Handle \cup {NULL}],
         CallTypes(op', handles'), HistoryTypes'
  PROVE  Types'
BY DEF Types, CardTypes

LEMMA TypesAre ==
  ASSUME Types
  PROVE  /\ fat \in [Cluster -> FatValue] /\ hint \in 3..Eoc /\ Entries(dir)
         /\ data \in [Cluster -> [1..ClusterSize -> Byte]] /\ handles \in [Name -> Handle \cup {NULL}]
         /\ CallTypes(op, handles) /\ op \in OpRec /\ HistoryTypes
BY DEF Types, CardTypes, CallTypes

LEMMA TypesKept ==
  ASSUME Types, UNCHANGED <<card, history>>, handles' \in [Name -> Handle \cup {NULL}],
         CallTypes(op', handles')
  PROVE  Types'
BY TypesFrom, TypesAre DEF card, history, HistoryTypes

(* Every call that is given up, cut off or done leaves no call.            *)
LEMMA GiveUpTypes ==
  ASSUME Types, NEW sector, GiveUp(sector)
  PROVE  Types'
BY TypesFrom, TypesAre, IdleIs DEF GiveUp, card, HistoryTypes

LEMMA AstrayTypes ==
  ASSUME Types, NEW how, Astray(how)
  PROVE  Types'
<1>1. op \in OpRec /\ CallTypes(op, handles)
  BY TypesAre
<1> DEFINE o == [op EXCEPT !.pc = "outside"]
<1>2. o \in OpRec /\ o.pc = "outside" /\ o.len = op.len /\ o.sent = op.sent
  BY <1>1 DEF OpRec, Pc
<1>3. op' = o
  BY DEF Astray
<1> HIDE DEF o
<1>4. CallTypes(o, handles)
  BY <1>1, <1>2 DEF CallTypes, Making, Allocating
<1> QED
  BY <1>3, <1>4, TypesFrom, TypesAre DEF Astray, card, HistoryTypes

LEMMA OutsideTypes ==
  ASSUME Types, Outside
  PROVE  Types'
BY AstrayTypes DEF Outside

LEMMA MisreadTypes ==
  ASSUME Types, Misread
  PROVE  Types'
BY AstrayTypes DEF Misread

(* A write whose failure goes unnoticed.                                   *)
LEMMA UnnoticedIs ==
  ASSUME Types, NEW sector, Unnoticed(sector)
  PROVE  losses' \in 0..MaxLosses /\ spoiled' = TRUE
<1>1. losses \in 0..MaxLosses /\ losses < MaxLosses /\ losses' = losses + 1 /\ MaxLosses \in Nat
  BY TypesAre, BoundsAssumption DEF Unnoticed, HistoryTypes
<1> QED
  BY <1>1 DEF Unnoticed

LEMMA SetNextIs ==
  ASSUME Types, NEW c \in Cluster, NEW next, SetNext(c, next)
  PROVE  /\ losses' \in 0..MaxLosses /\ spoiled' \in BOOLEAN /\ (spoiled => spoiled')
         /\ \/ fat' = [fat EXCEPT ![c] = next] /\ UNCHANGED <<losses, spoiled>>
            \/ fat' = fat /\ spoiled' = TRUE
<1>1. losses \in 0..MaxLosses /\ spoiled \in BOOLEAN
  BY TypesAre DEF HistoryTypes
<1>2. CASE fat' = [fat EXCEPT ![c] = next] /\ UNCHANGED <<losses, spoiled>>
  BY <1>1, <1>2
<1>3. CASE Unnoticed("fat") /\ UNCHANGED fat
  BY <1>3, UnnoticedIs
<1> QED
  BY <1>2, <1>3 DEF SetNext

LEMMA CrashTypes ==
  ASSUME Types, Crash
  PROVE  Types'
<1>1. losses' \in 0..MaxLosses
  BY TypesAre, BoundsAssumption DEF Crash, HistoryTypes
<1>2. handles' \in [Name -> Handle \cup {NULL}]
  BY DEF Crash
<1>3. CallTypes(op', handles')
  BY IdleIs DEF Crash
<1> QED
  BY <1>1, <1>2, <1>3, TypesFrom, TypesAre DEF Crash, card, HistoryTypes

LEMMA OpenTypes ==
  ASSUME Types, NEW f \in Name, NEW mode \in Mode, Open(f, mode)
  PROVE  Types'
<1>1. handles \in [Name -> Handle \cup {NULL}] /\ op \in OpRec /\ Entries(dir) /\ op = Idle
  BY TypesAre DEF Open
<1>2. UNCHANGED <<card, history>>
  BY DEF Open
<1>3. CASE Exists(f)
  <2> DEFINE h == [slot |-> At(f), start |-> dir[At(f)].start, size |-> dir[At(f)].size, mode |-> mode]
  <2>1. At(f) \in Slot /\ dir[At(f)].start \in Cluster /\ dir[At(f)].size \in Nat
    BY <1>1, <1>3, AtIs, EntryFields
  <2>2. h \in Handle
    BY <2>1 DEF Handle, Mode
  <2>3. handles' = [handles EXCEPT ![f] = h] /\ op' = op
    BY <1>3 DEF Open
  <2> HIDE DEF h
  <2>4. handles' \in [Name -> Handle \cup {NULL}]
    BY <1>1, <2>2, <2>3
  <2>5. CallTypes(op', handles')
    BY <1>1, <2>3, IdleIs
  <2> QED
    BY <1>2, <2>4, <2>5, TypesKept
<1>4. CASE ~Exists(f)
  <2> DEFINE o == [Idle EXCEPT !.pc = "hint", !.name = f, !.mode = mode]
  <2>1. op' = o /\ handles' = handles
    BY <1>4 DEF Open
  <2>2. o \in OpRec /\ o.pc = "hint" /\ o.name = f /\ o.mode = mode /\ o.link = 0 /\ o.len = 0
    BY IdleIs DEF OpRec, Pc
  <2> HIDE DEF o
  <2>3. CallTypes(o, handles)
    BY <2>2 DEF CallTypes, Making, Allocating
  <2> QED
    BY <1>1, <1>2, <2>1, <2>3, TypesKept
<1> QED
  BY <1>3, <1>4

LEMMA CloseTypes ==
  ASSUME Types, NEW f \in Name, Close(f)
  PROVE  Types'
<1>1. handles \in [Name -> Handle \cup {NULL}] /\ op = Idle
  BY TypesAre DEF Close
<1>2. handles' = [handles EXCEPT ![f] = NULL] /\ op' = op /\ UNCHANGED <<card, history>>
  BY DEF Close
<1>3. handles' \in [Name -> Handle \cup {NULL}]
  BY <1>1, <1>2
<1> QED
  BY <1>1, <1>2, <1>3, IdleIs, TypesKept

LEMMA FreeFromIs ==
  ASSUME Types, FreeFrom(hint) # {}
  PROVE  /\ Min(FreeFrom(hint)) \in Cluster /\ fat[Min(FreeFrom(hint))] = Free
         /\ Min(FreeFrom(hint)) \in 3..Eoc
<1>1. FreeFrom(hint) \in SUBSET Nat
  BY Volume DEF FreeFrom
<1>2. Min(FreeFrom(hint)) \in FreeFrom(hint)
  BY <1>1, MinIs
<1> QED
  BY <1>2, Volume DEF FreeFrom

LEMMA AllocateTypes ==
  ASSUME Types, Allocate
  PROVE  Types'
<1>1. op \in OpRec /\ CallTypes(op, handles) /\ op.pc = "hint"
  BY TypesAre DEF Allocate
<1>2. CASE Outside
  BY <1>2, OutsideTypes
<1>3. CASE ~Outside
  <2> DEFINE m == Min(FreeFrom(hint))
             o == [op EXCEPT !.new = m, !.pc = IF op.link = 0 THEN "mark" ELSE "link"]
  <2>1. /\ FreeFrom(hint) # {} /\ hint' = m /\ op' = o
        /\ UNCHANGED <<fat, dir, data, handles, history>>
    BY <1>3 DEF Allocate
  <2>2. m \in Cluster /\ m \in 3..Eoc
    BY <2>1, FreeFromIs
  <2> HIDE DEF m
  <2>3. /\ o \in OpRec /\ o.new = m /\ o.pc = (IF op.link = 0 THEN "mark" ELSE "link")
        /\ o.name = op.name /\ o.mode = op.mode /\ o.link = op.link /\ o.len = op.len /\ o.sent = op.sent
    BY <1>1, <2>2 DEF OpRec, Pc
  <2> HIDE DEF o
  <2>4. CallTypes(o, handles)
    BY <1>1, <2>2, <2>3 DEF CallTypes, Making, Allocating
  <2> QED
    BY <2>1, <2>2, <2>4, TypesFrom, TypesAre DEF history, HistoryTypes
<1> QED
  BY <1>2, <1>3

LEMMA LinkTypes ==
  ASSUME Types, Link
  PROVE  Types'
<1>1. op \in OpRec /\ CallTypes(op, handles) /\ op.pc = "link" /\ fat \in [Cluster -> FatValue]
  BY TypesAre DEF Link
<1> DEFINE o == [op EXCEPT !.pc = "mark"]
<1>2. op' = o /\ SetNext(op.link, op.new) /\ UNCHANGED <<hint, dir, data, handles, writes, lost>>
  BY DEF Link
<1>3. o \in OpRec /\ o.pc = "mark" /\ o.new = op.new
      /\ o.name = op.name /\ o.mode = op.mode /\ o.link = op.link /\ o.len = op.len /\ o.sent = op.sent
  BY <1>1 DEF OpRec, Pc
<1> HIDE DEF o
<1>4. CallTypes(o, handles)
  BY <1>1, <1>3 DEF CallTypes, Making, Allocating
<1>5. op.new \in Cluster /\ op.link \in Cluster
  BY <1>1 DEF CallTypes, Allocating
<1>6. /\ losses' \in 0..MaxLosses /\ spoiled' \in BOOLEAN /\ (spoiled => spoiled')
      /\ fat' = [fat EXCEPT ![op.link] = op.new] \/ fat' = fat
  BY <1>2, <1>5, SetNextIs
<1>7. fat' \in [Cluster -> FatValue]
  BY <1>1, <1>5, <1>6 DEF FatValue
<1> QED
  BY <1>2, <1>4, <1>6, <1>7, TypesFrom, TypesAre DEF HistoryTypes

(* The slots of a new file, if it needs no filling, are in the directory.  *)
LEMMA EntryFits ==
  ASSUME NEW n \in {1, 2}, NEW s \in Slot, Suits(n, s), ~Pads(s, n)
  PROVE  s + n - 1 \in Slot
<1>1. s \in Nat /\ s # None /\ Slots \in Nat \ {0}
  BY SizeFacts
<1>2. CASE n = 1
  <2>1. s + n - 1 = s
    BY <1>1, <1>2
  <2> QED
    BY <2>1
<1>3. CASE n = 2
  <2>1. s % Slots \in Nat
    BY <1>1, DivMod
  <2>2. s % Slots # Slots - 1
    <3>1. CASE dir[s].kind = "end"
      <4>1. ~((s % Slots) + 2 > Slots - 1)
        BY <1>1, <1>3, <3>1 DEF Pads
      <4> QED
        BY <1>1, <2>1, <4>1
    <3>2. CASE dir[s].kind # "end"
      BY <1>1, <1>3, <3>2 DEF Suits
    <3> QED
      BY <3>1, <3>2
  <2>3. s + 1 \in Slot
    BY <2>2, SameSector
  <2>4. s + n - 1 = s + 1
    BY <1>1, <1>3
  <2> QED
    BY <2>3, <2>4
<1> QED
  BY <1>2, <1>3

LEMMA NeededIs == \A f : Needed(f) \in {1, 2} /\ (Needed(f) = 2 <=> f \in Long)
BY DEF Needed

(* Where Mark sends the making of a file.                                  *)
LEMMA MarkIs ==
  ASSUME Types, Mark, op.link = 0
  PROVE  LET n == Needed(op.name)
             s == FreeEntry(n)
         IN  /\ op' = [op EXCEPT !.slot = s, !.pc = IF Pads(s, n) THEN "pad" ELSE "entry"]
             /\ s \in Nat /\ Suits(n, s) /\ (s \in Slot \/ s = None)
             /\ Pads(s, n) => s \in Slot /\ dir[s].kind = "end"
             /\ ~Pads(s, n) /\ s \in Slot => s + n - 1 \in Slot
             /\ op'.pc \in {"pad", "entry"} /\ (op'.pc = "pad" <=> Pads(s, n))
             /\ op'.slot = s /\ op'.name = op.name /\ op'.mode = op.mode /\ op'.new = op.new
             /\ op'.link = 0 /\ op'.len = op.len /\ op'.sent = op.sent
             /\ op' \in OpRec
<1> DEFINE n == Needed(op.name)
           s == FreeEntry(n)
           o == [op EXCEPT !.slot = s, !.pc = IF Pads(s, n) THEN "pad" ELSE "entry"]
<1>1. op \in OpRec /\ n \in {1, 2}
  BY TypesAre, NeededIs
<1>2. op' = o
  BY DEF Mark
<1>3. Suits(n, s)
  BY FreeEntrySuits
<1> HIDE DEF n, s
<1>4. s \in Nat /\ (s \in Slot \/ s = None)
  BY <1>3, SizeFacts DEF Suits
<1>5. Pads(s, n) => s \in Slot /\ dir[s].kind = "end"
  BY <1>3 DEF Suits, Pads
<1>6. ~Pads(s, n) /\ s \in Slot => s + n - 1 \in Slot
  BY <1>1, <1>3, EntryFits
<1>7. /\ o \in OpRec /\ o.slot = s /\ o.name = op.name /\ o.mode = op.mode /\ o.new = op.new
      /\ o.link = op.link /\ o.len = op.len /\ o.sent = op.sent
      /\ o.pc = IF Pads(s, n) THEN "pad" ELSE "entry"
  <2> DEFINE pc == IF Pads(s, n) THEN "pad" ELSE "entry"
  <2>1. pc \in Pc
    BY DEF Pc
  <2> HIDE DEF pc
  <2>2. [op EXCEPT !.slot = s, !.pc = pc] \in OpRec
    BY <1>1, <1>4, <2>1 DEF OpRec
  <2> QED
    BY <1>1, <2>2 DEF OpRec, pc
<1> QED
  BY <1>2, <1>3, <1>4, <1>5, <1>6, <1>7 DEF n, s

LEMMA MarkTypes ==
  ASSUME Types, Mark
  PROVE  Types'
<1>1. /\ op \in OpRec /\ CallTypes(op, handles) /\ op.pc = "mark" /\ fat \in [Cluster -> FatValue]
      /\ op.new \in Cluster
  BY TypesAre DEF Mark, CallTypes
<1>2. /\ losses' \in 0..MaxLosses /\ spoiled' \in BOOLEAN /\ (spoiled => spoiled')
      /\ \/ fat' = [fat EXCEPT ![op.new] = Eoc]
         \/ fat' = fat /\ spoiled' = TRUE
  BY <1>1, SetNextIs DEF Mark
<1>3. CallTypes(op', handles)
  <2>1. CASE op.link # 0
    <3> DEFINE o == [op EXCEPT !.pc = "sector"]
    <3>1. op' = o
      BY <2>1 DEF Mark
    <3>2. o \in OpRec /\ o.pc = "sector" /\ o.name = op.name /\ o.mode = op.mode
          /\ o.len = op.len /\ o.sent = op.sent
      BY <1>1 DEF OpRec, Pc
    <3> HIDE DEF o
    <3> QED
      BY <1>1, <2>1, <3>1, <3>2 DEF CallTypes, Making, Allocating
  <2>2. CASE op.link = 0
    <3> DEFINE n == Needed(op.name)
               s == FreeEntry(n)
    <3>1. /\ Pads(s, n) => s \in Slot
          /\ ~Pads(s, n) /\ s \in Slot => s + n - 1 \in Slot
          /\ op'.pc \in {"pad", "entry"} /\ (op'.pc = "pad" <=> Pads(s, n))
          /\ op'.slot = s /\ op'.name = op.name /\ op'.mode = op.mode /\ op'.new = op.new
          /\ op'.link = 0 /\ op'.len = op.len /\ op'.sent = op.sent
          /\ op' \in OpRec
      BY <2>2, MarkIs
    <3> HIDE DEF s
    <3> QED
      BY <1>1, <3>1 DEF CallTypes, Making, Allocating
  <2> QED
    BY <2>1, <2>2
<1>4. UNCHANGED <<hint, dir, data, handles, writes>>
  BY DEF Mark
<1>5. fat' \in [Cluster -> FatValue]
  BY <1>1, <1>2 DEF FatValue
<1>6. lost' = (IF fat'[op.new] = Eoc THEN lost ELSE lost \cup {op.new})
  BY DEF Mark
<1>7. lost' \subseteq Cluster /\ (~spoiled' => lost' = {})
  BY <1>1, <1>2, <1>6, TypesAre DEF HistoryTypes
<1> QED
  BY <1>2, <1>3, <1>4, <1>5, <1>7, TypesFrom, TypesAre DEF HistoryTypes

LEMMA PadIs ==
  ASSUME Types, Pad
  PROVE  /\ op.slot \in Slot /\ op' \in OpRec /\ op'.pc = "entry" /\ op'.slot = NextSector(op.slot)
         /\ op'.name = op.name /\ op'.mode = op.mode /\ op'.new = op.new
         /\ op'.link = op.link /\ op'.len = op.len /\ op'.sent = op.sent
         /\ NextSector(op.slot) \in Nat /\ op.slot < NextSector(op.slot)
         /\ NextSector(op.slot) \in Slot => NextSector(op.slot) + 1 \in Slot
<1>1. op \in OpRec /\ op.slot \in Slot
  BY TypesAre DEF Pad, CallTypes
<1> DEFINE x == NextSector(op.slot)
           o == [op EXCEPT !.pc = "entry", !.slot = x]
<1>2. x \in Nat /\ op.slot < x /\ (x \in Slot => x + 1 \in Slot)
  BY <1>1, NextSectorIs
<1>3. op' = o
  BY DEF Pad
<1> HIDE DEF x
<1>4. /\ o \in OpRec /\ o.pc = "entry" /\ o.slot = x /\ o.name = op.name /\ o.mode = op.mode
      /\ o.new = op.new /\ o.link = op.link /\ o.len = op.len /\ o.sent = op.sent
  BY <1>1, <1>2 DEF OpRec, Pc
<1> QED
  BY <1>1, <1>2, <1>3, <1>4 DEF x

LEMMA PadTypes ==
  ASSUME Types, Pad
  PROVE  Types'
<1>1. op \in OpRec /\ CallTypes(op, handles) /\ Entries(dir) /\ op.pc = "pad"
  BY TypesAre DEF Pad
<1>2. Entries(dir')
  <2>1. CASE dir' = [s \in Slot |-> IF s >= op.slot /\ s < NextSector(op.slot) THEN Unused ELSE dir[s]]
    <3>1. dir' = [s \in Slot |-> dir'[s]]
      BY <2>1
    <3>2. \A s \in Slot : EntryOK(dir'[s])
      BY <1>1, <2>1, EntriesOK
    <3> QED
      BY <3>1, <3>2, EntriesFrom
  <2>2. CASE dir' = dir
    BY <1>1, <2>2
  <2> QED
    BY <2>1, <2>2 DEF Pad
<1>3. CallTypes(op', handles)
  <2> DEFINE x == NextSector(op.slot)
  <2>1. /\ op' \in OpRec /\ op'.pc = "entry" /\ op'.slot = x
        /\ op'.name = op.name /\ op'.mode = op.mode /\ op'.new = op.new
        /\ op'.len = op.len /\ op'.sent = op.sent
        /\ x \in Nat /\ (x \in Slot => x + 1 \in Slot)
    BY PadIs
  <2> HIDE DEF x
  <2>2. x \in Slot => x + Needed(op.name) - 1 \in Slot
    <3>1. x + 1 - 1 = x /\ x + 2 - 1 = x + 1
      BY <2>1
    <3> QED
      BY <2>1, <3>1, NeededIs
  <2> QED
    BY <1>1, <2>1, <2>2 DEF CallTypes, Making, Allocating
<1>4. losses' \in 0..MaxLosses /\ spoiled' \in BOOLEAN /\ (spoiled => spoiled')
  <2>1. CASE UNCHANGED <<losses, spoiled>>
    BY <2>1, TypesAre DEF HistoryTypes
  <2>2. CASE Unnoticed("pad")
    BY <2>2, UnnoticedIs
  <2> QED
    BY <2>1, <2>2 DEF Pad
<1> QED
  BY <1>2, <1>3, <1>4, TypesFrom, TypesAre DEF Pad, HistoryTypes

(* The entries of a new file and its structure.                            *)
NewHandle == [slot |-> op.slot + Needed(op.name) - 1, start |-> op.new, size |-> 0, mode |-> op.mode]

LEMMA PlaceEntryIs ==
  ASSUME Types, PlaceEntry
  PROVE  LET f == op.name
             s == op.slot + Needed(f) - 1
         IN  /\ f \in Name /\ op.slot \in Slot /\ s \in Slot
             /\ NewHandle \in Handle /\ NewHandle.slot = s /\ NewHandle.start = op.new /\ NewHandle.size = 0
             /\ s = op.slot \/ s = op.slot + 1
             /\ s = op.slot + 1 <=> f \in Long
             /\ dir' = [t \in Slot |-> IF t = s THEN FileEntry(f, NewHandle)
                                       ELSE IF t = op.slot THEN LfnEntry(f) ELSE dir[t]]
             /\ handles' = [handles EXCEPT ![f] = NewHandle]
             /\ op' = Idle
             /\ UNCHANGED <<fat, hint, data, history>>
<1> DEFINE f == op.name
           s == op.slot + Needed(f) - 1
<1>1. op \in OpRec /\ CallTypes(op, handles) /\ op.pc = "entry" /\ op.slot \in Slot
  BY TypesAre DEF PlaceEntry
<1>2. f \in Name /\ op.new \in Cluster /\ op.mode \in Mode /\ s \in Slot
  BY <1>1 DEF CallTypes, Making
<1>3. op.slot \in Nat
  BY <1>1, SizeFacts
<1>4. (s = op.slot \/ s = op.slot + 1) /\ (s = op.slot + 1 <=> f \in Long)
  BY <1>3, NeededIs
<1>5. NewHandle \in Handle /\ NewHandle.slot = s /\ NewHandle.start = op.new /\ NewHandle.size = 0
  BY <1>2 DEF NewHandle, Handle, Mode
<1>6. /\ dir' = [t \in Slot |-> CASE t = s -> FileEntry(f, NewHandle)
                                  [] t = op.slot /\ t < s -> LfnEntry(f)
                                  [] OTHER -> dir[t]]
      /\ handles' = [handles EXCEPT ![f] = NewHandle]
      /\ op' = Idle
      /\ UNCHANGED <<fat, hint, data, history>>
  BY DEF PlaceEntry, NewHandle
<1> HIDE DEF s
<1>7. \A t \in Slot : (CASE t = s -> FileEntry(f, NewHandle)
                         [] t = op.slot /\ t < s -> LfnEntry(f)
                         [] OTHER -> dir[t])
                      = (IF t = s THEN FileEntry(f, NewHandle)
                         ELSE IF t = op.slot THEN LfnEntry(f) ELSE dir[t])
  BY <1>3, <1>4
<1> QED
  BY <1>1, <1>2, <1>4, <1>5, <1>6, <1>7 DEF s

LEMMA PlaceEntryTypes ==
  ASSUME Types, PlaceEntry
  PROVE  Types'
<1>1. Entries(dir) /\ handles \in [Name -> Handle \cup {NULL}]
  BY TypesAre
<1> DEFINE f == op.name
           s == op.slot + Needed(f) - 1
<1>2. /\ f \in Name /\ NewHandle \in Handle
      /\ dir' = [t \in Slot |-> IF t = s THEN FileEntry(f, NewHandle)
                                ELSE IF t = op.slot THEN LfnEntry(f) ELSE dir[t]]
      /\ handles' = [handles EXCEPT ![f] = NewHandle]
      /\ op' = Idle
      /\ UNCHANGED <<fat, hint, data, history>>
  BY PlaceEntryIs
<1> HIDE DEF s
<1>3. Entries(dir')
  <2>1. dir' = [t \in Slot |-> dir'[t]]
    BY <1>2
  <2>2. \A t \in Slot : EntryOK(dir'[t])
    BY <1>1, <1>2, EntriesOK
  <2> QED
    BY <2>1, <2>2, EntriesFrom
<1>4. handles' \in [Name -> Handle \cup {NULL}]
  BY <1>1, <1>2
<1> QED
  BY <1>2, <1>3, <1>4, TypesFrom, TypesAre, IdleIs DEF history, HistoryTypes

LEMMA EntryTypes ==
  ASSUME Types, Entry
  PROVE  Types'
BY PlaceEntryTypes, GiveUpTypes, OutsideTypes DEF Entry

(* The start of fileWrite: where the call begins, and which of the two     *)
(* ways it goes.                                                           *)
First(h) == IF h.mode = "write" THEN 0 ELSE h.size

LEMMA WriteIs ==
  ASSUME Types, NEW f \in Name, NEW len \in Lens, Write(f, len)
  PROVE  LET h == handles[f]
         IN  /\ h \in Handle /\ First(h) \in Nat /\ len \in Nat /\ op = Idle
             /\ op' \in OpRec /\ op'.name = f /\ op'.mode = h.mode /\ op'.new = 0 /\ op'.slot = 0
             /\ op'.sent = 0 /\ op'.len = len
             /\ op'.from = First(h) % SectorSize
             /\ op'.sector = (First(h) \div SectorSize) % Sectors
             /\ \/ /\ First(h) \div ClusterSize = 0 /\ op'.pc = "sector" /\ op'.cur = h.start /\ op'.link = 0
                   /\ UNCHANGED defects
                \/ /\ op'.pc \in {"hint", "outside"} /\ (op'.pc = "hint" => op'.link \in Cluster)
                   /\ defects' # {}
             /\ writes' \in 0..MaxWrites /\ UNCHANGED <<card, handles, losses, spoiled, lost>>
<1> DEFINE h == handles[f]
           from == First(h) % SectorSize
           sector == (First(h) \div SectorSize) % Sectors
           count == First(h) \div ClusterSize + 1
           call == [Idle EXCEPT !.name = f, !.mode = h.mode, !.len = len,
                                !.from = from, !.sector = sector]
           link == Walk(h.start, count - 1)
           cur == Walk(h.start, count)
           pc == IF link \in Cluster THEN "hint" ELSE "outside"
<1>1. op = Idle /\ h # NULL /\ writes < MaxWrites /\ writes' = writes + 1
      /\ UNCHANGED <<card, handles, losses, spoiled, lost>>
  BY DEF Write
<1>2. /\ h \in Handle /\ h.start \in Cluster /\ h.size \in Nat /\ h.mode \in Mode
      /\ fat \in [Cluster -> FatValue] /\ len \in Nat
  <2>1. h \in Handle
    BY <1>1, TypesAre
  <2> QED
    BY <2>1, TypesAre, CallsAssumption DEF Handle, Mode
<1>3. \/ count = 1 /\ op' = [call EXCEPT !.pc = "sector", !.cur = h.start] /\ UNCHANGED defects
      \/ op' = [call EXCEPT !.pc = pc, !.link = link, !.cur = cur] /\ defects' = defects \cup {"beyond"}
  BY DEF Write, First
<1> HIDE DEF h
<1>4. First(h) \in Nat
  BY <1>2 DEF First
<1>5. from \in 0..(SectorSize - 1)
  BY <1>4, SizeFacts, DivMod
<1>6. sector \in 0..(Sectors - 1)
  <2>1. First(h) \div SectorSize \in Nat
    BY <1>4, SizeFacts, DivMod
  <2> QED
    BY <2>1, SizeFacts, DivMod
<1>7. count - 1 \in Nat /\ count \in Nat /\ count - 1 = First(h) \div ClusterSize
  <2>1. First(h) \div ClusterSize \in Nat
    BY <1>4, SizeFacts, DivMod
  <2> QED
    BY <2>1
<1>8. link \in FatValue /\ cur \in FatValue
  <2>1. h.start \in FatValue
    BY <1>2 DEF FatValue
  <2>2. WalkIn(fat, h.start, count - 1) \in FatValue /\ WalkIn(fat, h.start, count) \in FatValue
    <3> HIDE DEF count
    <3> QED
      BY <1>2, <1>7, <2>1, WalkType
  <2> QED
    BY <2>2, WalkIs
<1> HIDE DEF from, sector, count, link, cur
<1>9. pc \in {"hint", "outside"} /\ (pc = "hint" => link \in Cluster)
  OBVIOUS
<1> HIDE DEF pc
<1>10. /\ call \in OpRec /\ call.name = f /\ call.mode = h.mode /\ call.new = 0 /\ call.slot = 0
       /\ call.sent = 0 /\ call.len = len /\ call.from = from /\ call.sector = sector /\ call.link = 0
  <2>1. call \in OpRec
    BY <1>2, <1>5, <1>6, IdleIs DEF OpRec, Pc
  <2>2. /\ call.name = f /\ call.mode = h.mode /\ call.new = Idle.new /\ call.slot = Idle.slot
        /\ call.sent = Idle.sent /\ call.len = len /\ call.from = from /\ call.sector = sector
        /\ call.link = Idle.link
    BY IdleIs DEF OpRec
  <2> QED
    BY <2>1, <2>2, IdleIs
<1> HIDE DEF call
<1>11. ASSUME count = 1, op' = [call EXCEPT !.pc = "sector", !.cur = h.start]
       PROVE  /\ op' \in OpRec /\ op'.pc = "sector" /\ op'.cur = h.start /\ op'.link = 0
              /\ op'.name = f /\ op'.mode = h.mode /\ op'.new = 0 /\ op'.slot = 0
              /\ op'.sent = 0 /\ op'.len = len /\ op'.from = from /\ op'.sector = sector
              /\ First(h) \div ClusterSize = 0
  <2>1. h.start \in FatValue
    BY <1>2 DEF FatValue
  <2>2. First(h) \div ClusterSize = 0
    BY <1>7, <1>11
  <2>3. /\ op' \in OpRec /\ op'.pc = "sector" /\ op'.cur = h.start /\ op'.link = 0
        /\ op'.name = f /\ op'.mode = h.mode /\ op'.new = 0 /\ op'.slot = 0
        /\ op'.sent = 0 /\ op'.len = len /\ op'.from = from /\ op'.sector = sector
    BY <1>10, <1>11, <2>1 DEF OpRec, Pc
  <2> QED
    BY <2>2, <2>3
<1>12. ASSUME op' = [call EXCEPT !.pc = pc, !.link = link, !.cur = cur]
       PROVE  /\ op' \in OpRec /\ op'.pc = pc /\ op'.link = link
              /\ op'.name = f /\ op'.mode = h.mode /\ op'.new = 0 /\ op'.slot = 0
              /\ op'.sent = 0 /\ op'.len = len /\ op'.from = from /\ op'.sector = sector
  BY <1>8, <1>9, <1>10, <1>12 DEF OpRec, Pc
<1>13. writes' \in 0..MaxWrites
  BY <1>1, TypesAre, BoundsAssumption DEF HistoryTypes
<1> QED
  BY <1>1, <1>2, <1>3, <1>4, <1>9, <1>11, <1>12, <1>13 DEF h, from, sector

LEMMA WriteTypes ==
  ASSUME Types, NEW f \in Name, NEW len \in Lens, Write(f, len)
  PROVE  Types'
<1>1. LET h == handles[f]
      IN  /\ h \in Handle /\ len \in Nat
          /\ op' \in OpRec /\ op'.name = f /\ op'.mode = h.mode /\ op'.sent = 0 /\ op'.len = len
          /\ \/ op'.pc = "sector"
             \/ op'.pc \in {"hint", "outside"} /\ (op'.pc = "hint" => op'.link \in Cluster)
          /\ writes' \in 0..MaxWrites /\ UNCHANGED <<card, handles, losses, spoiled, lost>>
  BY WriteIs
<1>2. handles[f].mode \in Mode
  BY <1>1 DEF Handle, Mode
<1>3. CallTypes(op', handles)
  BY <1>1, <1>2 DEF CallTypes, Making, Allocating
<1> QED
  BY <1>1, <1>3, TypesFrom, TypesAre DEF card, HistoryTypes

(* One round of the loop: how many bytes go into the sector, and what is   *)
(* on the card then.                                                       *)
LEMMA TakenIs ==
  ASSUME Types
  PROVE  /\ Room \in Nat /\ Room >= 1 /\ Room = SectorSize - op.from
         /\ Taken \in Nat /\ Taken <= Room
         /\ op.len # 0 => Taken <= op.len - op.sent
         /\ MoreData => Taken = Room
         /\ ~MoreData => op.len # 0 /\ op.sent + Taken = op.len
<1>1. /\ op.from \in 0..(SectorSize - 1) /\ op.sent \in Nat /\ op.len \in Nat
      /\ op.len # 0 => op.sent < op.len
  BY TypesAre, OpFields DEF CallTypes
<1>2. Room \in Nat /\ Room >= 1 /\ Room = SectorSize - op.from
  BY <1>1, SizeFacts DEF Room
<1>3. CASE op.len = 0
  BY <1>2, <1>3 DEF Taken, MoreData
<1>4. CASE op.len # 0
  <2> DEFINE x == op.len - op.sent
  <2>1. x \in Nat /\ x >= 1
    BY <1>1, <1>4
  <2>2. Taken = Min({Room, x})
    BY <1>4 DEF Taken
  <2> HIDE DEF x
  <2>3. {Room, x} \in SUBSET Nat /\ {Room, x} # {}
    BY <1>2, <2>1
  <2>4. Taken \in {Room, x} /\ Taken <= Room /\ Taken <= x
    <3>1. Min({Room, x}) \in {Room, x} /\ \A y \in {Room, x} : Min({Room, x}) <= y
      BY <2>3, MinIs
    <3> QED
      BY <2>2, <3>1
  <2>5. MoreData <=> op.sent + Taken < op.len
    BY <1>4 DEF MoreData
  <2>6. Taken \in Nat
    BY <1>2, <2>1, <2>4
  <2>7. op.sent + Taken < op.len <=> Taken < x
    BY <1>1, <2>6 DEF x
  <2>8. Taken = x => op.sent + Taken = op.len
    BY <1>1 DEF x
  <2> QED
    BY <1>2, <1>4, <2>1, <2>4, <2>5, <2>6, <2>7, <2>8 DEF x
<1> QED
  BY <1>3, <1>4

LEMMA SectorDataIs ==
  ASSUME Types, NEW c \in Cluster
  PROVE  SectorData(c) \in [1..ClusterSize -> Byte]
<1>1. /\ op.from \in Nat /\ op.sent \in Nat /\ op.len \in Nat /\ op.sector \in Nat
      /\ data[c] \in [1..ClusterSize -> Byte] /\ writes \in 0..MaxWrites
  BY TypesAre, OpFields, SizeFacts DEF HistoryTypes
<1>2. Taken \in Nat /\ (op.len # 0 => Taken <= op.len - op.sent)
  BY TakenIs
<1>3. ASSUME NEW i \in Int, i > op.from, i <= op.from + Taken, op.len # 0
      PROVE  Bytes(writes, op.len)[op.sent + i - op.from] \in Byte
  <2> DEFINE sent == op.sent
             from == op.from
             len == op.len
             t == Taken
  <2>1. {sent, from, len, t} \subseteq Nat /\ i > from /\ i <= from + t /\ t <= len - sent
    BY <1>1, <1>2, <1>3
  <2> HIDE DEF sent, from, len, t
  <2>2. sent + i - from \in 1..len
    BY <2>1
  <2> QED
    BY <1>1, <2>2, BytesIs DEF sent, from, len
<1> DEFINE I(k) == k - op.sector * SectorSize
           x(k) == IF I(k) \notin 1..SectorSize THEN data[c][k]
                   ELSE IF I(k) > op.from /\ I(k) <= op.from + Taken
                        THEN IF op.len = 0 THEN Junk ELSE Bytes(writes, op.len)[op.sent + I(k) - op.from]
                   ELSE IF op.from # 0 THEN data[c][k] ELSE Junk
<1>4. SectorData(c) = [k \in 1..ClusterSize |-> x(k)]
  BY DEF SectorData
<1>5. ASSUME NEW k \in 1..ClusterSize PROVE x(k) \in Byte
  <2>1. I(k) \in Int
    <3>1. op.sector * SectorSize \in Int
      BY <1>1, SizeFacts
    <3> QED
      BY <3>1, SizeFacts
  <2>2. data[c][k] \in Byte
    BY <1>1
  <2> HIDE DEF I
  <2> QED
    BY <1>3, <2>1, <2>2, JunkIs
<1> HIDE DEF x
<1> QED
  BY <1>4, <1>5

(* The three ways a round ends.                                            *)
LEMMA WriteSectorIs ==
  ASSUME Types, WriteSector
  PROVE  /\ op.pc = "sector" /\ op.name \in Name /\ handles[op.name] \in Handle /\ op.mode \in Mode
         /\ op' \in OpRec /\ UNCHANGED <<fat, hint, dir, history>>
         /\ \/ /\ ~MoreData /\ op'.pc = "update" /\ op'.name = op.name /\ op'.mode = op.mode
               /\ op'.len = op.len /\ op'.sent = op.sent
               /\ handles' = [handles EXCEPT ![op.name].size = IF op.mode = "write" THEN op.len ELSE @ + op.len]
            \/ /\ MoreData /\ op.sector + 1 < Sectors /\ op'.pc = "sector" /\ op'.name = op.name
               /\ op'.mode = op.mode /\ op'.len = op.len /\ op'.sent = op.sent + Taken /\ op'.cur = op.cur
               /\ op'.sector = op.sector + 1 /\ op'.from = 0 /\ op'.link = op.link
               /\ UNCHANGED handles
            \/ op' = Idle /\ UNCHANGED handles
<1>1. op \in OpRec /\ CallTypes(op, handles) /\ op.pc = "sector" /\ UNCHANGED <<fat, hint, dir, history>>
  BY TypesAre DEF WriteSector
<1>2. op.name \in Name /\ handles[op.name] \in Handle /\ op.mode \in Mode
  BY <1>1 DEF CallTypes, Making
<1>3. CASE ~MoreData
  <2> DEFINE o == [op EXCEPT !.pc = "update"]
  <2>1. op' = o /\ handles' = [handles EXCEPT ![op.name].size = IF op.mode = "write" THEN op.len ELSE @ + op.len]
    BY <1>3 DEF WriteSector
  <2>2. o \in OpRec /\ o.pc = "update" /\ o.name = op.name /\ o.mode = op.mode
        /\ o.len = op.len /\ o.sent = op.sent
    BY <1>1 DEF OpRec, Pc
  <2> HIDE DEF o
  <2> QED
    BY <1>1, <1>2, <1>3, <2>1, <2>2
<1>4. CASE MoreData /\ op.sector + 1 < Sectors
  <2> DEFINE x == op.sent + Taken
             o == [op EXCEPT !.sector = @ + 1, !.from = 0, !.sent = x]
  <2>1. op' = o /\ UNCHANGED handles
    <3>1. op.sector \in 0..(Sectors - 1)
      BY <1>1, OpFields
    <3>2. op.sector + 1 # Sectors
      BY <1>4, <3>1, SizeFacts
    <3> QED
      BY <1>4, <3>2 DEF WriteSector
  <2>2. x \in Nat /\ op.sector + 1 \in 0..(Sectors - 1) /\ 0 \in 0..(SectorSize - 1)
    <3>1. op.sector \in 0..(Sectors - 1) /\ op.sent \in Nat
      BY <1>1, OpFields
    <3>2. Taken \in Nat
      BY TakenIs
    <3>3. 0 \in 0..(SectorSize - 1)
      BY SizeFacts
    <3>4. op.sector + 1 \in 0..(Sectors - 1)
      BY <1>4, <3>1, SizeFacts
    <3> QED
      BY <3>1, <3>2, <3>3, <3>4
  <2> HIDE DEF x
  <2>3. /\ o \in OpRec /\ o.pc = op.pc /\ o.name = op.name /\ o.mode = op.mode /\ o.len = op.len
        /\ o.sent = x /\ o.cur = op.cur /\ o.sector = op.sector + 1 /\ o.from = 0 /\ o.link = op.link
    BY <1>1, <2>2 DEF OpRec, Pc
  <2> HIDE DEF o
  <2> QED
    BY <1>1, <1>2, <1>4, <2>1, <2>3 DEF x
<1>5. CASE MoreData /\ ~(op.sector + 1 < Sectors)
  <2>1. op' = Idle /\ UNCHANGED handles
    BY <1>5 DEF WriteSector
  <2> QED
    BY <1>1, <1>2, <2>1, IdleIs
<1> QED
  BY <1>3, <1>4, <1>5

LEMMA WriteSectorTypes ==
  ASSUME Types, WriteSector
  PROVE  Types'
<1>1. /\ op \in OpRec /\ op' \in OpRec /\ CallTypes(op, handles) /\ op.pc = "sector" /\ op.name \in Name
      /\ handles[op.name] \in Handle /\ handles \in [Name -> Handle \cup {NULL}]
      /\ data \in [Cluster -> [1..ClusterSize -> Byte]] /\ op.mode \in Mode
      /\ op.len \in Nat /\ op.sent \in Nat /\ UNCHANGED <<fat, hint, dir, history>>
  BY TypesAre, WriteSectorIs, OpFields
<1>2. data' \in [Cluster -> [1..ClusterSize -> Byte]]
  <2>1. op.cur \in Cluster /\ data' = [data EXCEPT ![op.cur] = SectorData(op.cur)]
    BY DEF WriteSector
  <2> QED
    BY <1>1, <2>1, SectorDataIs
<1>3. handles' \in [Name -> Handle \cup {NULL}] /\ CallTypes(op', handles')
  <2>1. CASE op'.pc = "update"
    <3> DEFINE h == handles[op.name]
               n == IF op.mode = "write" THEN op.len ELSE h.size + op.len
               g == [h EXCEPT !.size = n]
    <3>1. /\ op'.name = op.name /\ op'.mode = op.mode /\ op'.len = op.len /\ op'.sent = op.sent
          /\ handles' = [handles EXCEPT ![op.name].size = IF op.mode = "write" THEN op.len ELSE @ + op.len]
      BY <2>1, WriteSectorIs, IdleIs
    <3>2. handles' = [handles EXCEPT ![op.name] = g]
      BY <1>1, <3>1
    <3>3. n \in Nat
      BY <1>1 DEF Handle
    <3> HIDE DEF n
    <3>4. g \in Handle
      BY <1>1, <3>3 DEF Handle
    <3> HIDE DEF g
    <3>5. handles' \in [Name -> Handle \cup {NULL}] /\ handles'[op.name] \in Handle
      BY <1>1, <3>2, <3>4
    <3>6. CallTypes(op', handles')
      BY <1>1, <2>1, <3>1, <3>5 DEF CallTypes, Making, Allocating
    <3> QED
      BY <3>5, <3>6
  <2>2. CASE op' = Idle /\ UNCHANGED handles
    BY <1>1, <2>2, IdleIs
  <2>3. CASE op'.pc = "sector"
    <3>1. /\ MoreData /\ op'.name = op.name /\ op'.mode = op.mode /\ op'.len = op.len
          /\ op'.sent = op.sent + Taken /\ UNCHANGED handles
      BY <2>3, WriteSectorIs, IdleIs
    <3>2. op'.len # 0 => op'.sent < op'.len
      BY <3>1 DEF MoreData
    <3> QED
      BY <1>1, <2>3, <3>1, <3>2 DEF CallTypes, Making, Allocating
  <2> QED
    BY <2>1, <2>2, <2>3, WriteSectorIs
<1> QED
  BY <1>1, <1>2, <1>3, TypesFrom, TypesAre DEF history, HistoryTypes

LEMMA SectorTypes ==
  ASSUME Types, SectorStep
  PROVE  Types'
BY WriteSectorTypes, GiveUpTypes, OutsideTypes DEF SectorStep

LEMMA UpdateIs ==
  ASSUME Types, Update
  PROVE  LET f == op.name
             h == handles[f]
         IN  /\ op.pc = "update" /\ f \in Name /\ h \in Handle /\ h.slot \in Slot
             /\ \/ /\ dir' = [dir EXCEPT ![h.slot] = FileEntry(f, h)] /\ op' = Idle
                   /\ UNCHANGED <<fat, hint, data, handles, history>>
                \/ GiveUp("entry")
<1>1. op.pc = "update" /\ CallTypes(op, handles)
  BY TypesAre DEF Update
<1>2. op.name \in Name /\ handles[op.name] \in Handle
  BY <1>1 DEF CallTypes, Making
<1>3. handles[op.name].slot \in Slot
  BY <1>2 DEF Handle
<1> QED
  BY <1>1, <1>2, <1>3 DEF Update

LEMMA UpdateTypes ==
  ASSUME Types, Update
  PROVE  Types'
<1> DEFINE h == handles[op.name]
<1>1. op.name \in Name /\ h \in Handle /\ h.slot \in Slot /\ Entries(dir)
  BY UpdateIs, TypesAre
<1>2. CASE GiveUp("entry")
  BY <1>2, GiveUpTypes
<1>3. CASE ~GiveUp("entry")
  <2>1. /\ dir' = [dir EXCEPT ![h.slot] = FileEntry(op.name, h)] /\ op' = Idle
        /\ UNCHANGED <<fat, hint, data, handles, history>>
    BY <1>3, UpdateIs
  <2> HIDE DEF h
  <2>2. Entries(dir')
    <3>1. dir' = [s \in Slot |-> dir'[s]]
      BY <1>1, <2>1 DEF Entries
    <3>2. \A s \in Slot : dir'[s] = IF s = h.slot THEN FileEntry(op.name, h) ELSE dir[s]
      BY <1>1, <2>1 DEF Entries
    <3>3. \A s \in Slot : EntryOK(dir'[s])
      BY <1>1, <3>2, EntriesOK
    <3> QED
      BY <3>1, <3>3, EntriesFrom
  <2> QED
    BY <2>1, <2>2, TypesFrom, TypesAre, IdleIs DEF history, HistoryTypes
<1> QED
  BY <1>2, <1>3

LEMMA DeleteIs ==
  ASSUME Types, NEW f \in Name, Delete(f), ~GiveUp("entry")
  PROVE  LET s == At(f)
         IN  /\ op = Idle /\ handles[f] = NULL /\ Exists(f)
             /\ s \in Slot /\ dir[s].kind = "file" /\ dir[s].name = f /\ dir[s].start \in Cluster
             /\ dir' = [t \in Slot |-> IF t \in (s - Needed(f) + 1)..s THEN Unused ELSE dir[t]]
             /\ op' \in OpRec /\ op'.pc = "unlink" /\ op'.name = f /\ op'.cur = dir[s].start
             /\ op'.len = 0 /\ op'.sent = 0 /\ op'.link = 0
             /\ UNCHANGED <<fat, hint, data, handles, history>>
<1> DEFINE s == At(f)
           o == [Idle EXCEPT !.pc = "unlink", !.name = f, !.cur = dir[s].start]
<1>1. /\ op = Idle /\ handles[f] = NULL /\ Exists(f)
      /\ dir' = [t \in Slot |-> IF t \in (s - Needed(f) + 1)..s THEN Unused ELSE dir[t]]
      /\ op' = o
      /\ UNCHANGED <<fat, hint, data, handles, history>>
  BY DEF Delete
<1>2. s \in Slot /\ dir[s].kind = "file" /\ dir[s].name = f /\ dir[s].start \in Cluster
  BY <1>1, AtIs, EntryFields, TypesAre
<1> HIDE DEF s
<1>3. o \in OpRec /\ o.pc = "unlink" /\ o.name = f /\ o.cur = dir[s].start
      /\ o.len = Idle.len /\ o.sent = Idle.sent /\ o.link = Idle.link
  <2>1. dir[s].start \in FatValue
    BY <1>2 DEF FatValue
  <2> QED
    BY <2>1, IdleIs DEF OpRec, Pc
<1> QED
  BY <1>1, <1>2, <1>3, IdleIs DEF s

LEMMA DeleteTypes ==
  ASSUME Types, NEW f \in Name, Delete(f)
  PROVE  Types'
<1>1. CASE GiveUp("entry")
  BY <1>1, GiveUpTypes
<1>2. CASE ~GiveUp("entry")
  <2> DEFINE x == (At(f) - Needed(f) + 1)..At(f)
  <2>1. /\ dir' = [t \in Slot |-> IF t \in x THEN Unused ELSE dir[t]]
        /\ op' \in OpRec /\ op'.pc = "unlink" /\ op'.name = f /\ op'.len = 0
        /\ UNCHANGED <<fat, hint, data, handles, history>>
    BY <1>2, DeleteIs
  <2> HIDE DEF x
  <2>2. Entries(dir')
    <3>1. dir' = [t \in Slot |-> dir'[t]]
      BY <2>1
    <3>2. \A t \in Slot : EntryOK(dir'[t])
      BY <2>1, TypesAre, EntriesOK
    <3> QED
      BY <3>1, <3>2, EntriesFrom
  <2>3. CallTypes(op', handles')
    BY <2>1 DEF CallTypes, Making, Allocating
  <2> QED
    BY <2>1, <2>2, <2>3, TypesFrom, TypesAre DEF history, HistoryTypes
<1> QED
  BY <1>1, <1>2

LEMMA UnlinkIs ==
  ASSUME Types, Unlink, op.cur \in Cluster
  PROVE  /\ op.pc = "unlink" /\ SetNext(op.cur, Free)
         /\ UNCHANGED <<hint, dir, data, handles, writes, lost, defects>>
         /\ fat[op.cur] = Eoc => op' = Idle
         /\ fat[op.cur] # Eoc => /\ op' \in OpRec /\ op'.pc = "unlink" /\ op'.cur = fat[op.cur]
                                 /\ op'.name = op.name /\ op'.len = op.len /\ op'.sent = op.sent
<1>1. op \in OpRec /\ op.pc = "unlink" /\ fat[op.cur] \in FatValue
  BY TypesAre DEF Unlink
<1> DEFINE o == [op EXCEPT !.cur = fat[op.cur]]
<1>2. /\ SetNext(op.cur, Free)
      /\ op' = IF fat[op.cur] = Eoc THEN Idle ELSE o
      /\ UNCHANGED <<hint, dir, data, handles, writes, lost, defects>>
  BY DEF Unlink
<1>3. o \in OpRec /\ o.pc = op.pc /\ o.cur = fat[op.cur] /\ o.name = op.name /\ o.len = op.len
      /\ o.sent = op.sent
  BY <1>1 DEF OpRec, Pc
<1> QED
  BY <1>1, <1>2, <1>3

LEMMA UnlinkTypes ==
  ASSUME Types, Unlink
  PROVE  Types'
<1>1. CASE op.cur \notin Cluster
  BY <1>1, OutsideTypes DEF Unlink
<1>2. CASE op.cur \in Cluster
  <2>1. /\ UNCHANGED <<hint, dir, data, handles, writes, lost>>
        /\ losses' \in 0..MaxLosses /\ spoiled' \in BOOLEAN /\ (spoiled => spoiled')
        /\ fat' = [fat EXCEPT ![op.cur] = Free] \/ fat' = fat
    BY <1>2, UnlinkIs, SetNextIs
  <2>2. fat' \in [Cluster -> FatValue]
    BY <1>2, <2>1, TypesAre DEF FatValue
  <2>3. op.pc = "unlink" /\ CallTypes(op, handles) /\ op.name \in Name
    BY <1>2, UnlinkIs, TypesAre DEF CallTypes
  <2>4. CallTypes(op', handles)
    <3>1. CASE fat[op.cur] = Eoc
      BY <1>2, <3>1, UnlinkIs, IdleIs
    <3>2. CASE fat[op.cur] # Eoc
      <4>1. /\ op' \in OpRec /\ op'.pc = "unlink" /\ op'.name = op.name
            /\ op'.len = op.len /\ op'.sent = op.sent
        BY <1>2, <3>2, UnlinkIs
      <4> QED
        BY <2>3, <4>1 DEF CallTypes, Making, Allocating
    <3> QED
      BY <3>1, <3>2
  <2> QED
    BY <2>1, <2>2, <2>4, TypesFrom, TypesAre DEF HistoryTypes
<1> QED
  BY <1>1, <1>2

LEMMA TypesStep ==
  ASSUME Types, [Next]_vars
  PROVE  Types'
<1>1. CASE UNCHANGED vars
  BY <1>1, TypesKept, TypesAre DEF vars, card, history
<1>2. ASSUME NEW f \in Name, NEW mode \in {"write", "append"}, Open(f, mode) PROVE Types'
  BY <1>2, OpenTypes DEF Mode
<1>3. ASSUME NEW f \in Name, Close(f) PROVE Types'
  BY <1>3, CloseTypes
<1>4. ASSUME NEW f \in Name, NEW len \in Lens, Write(f, len) PROVE Types'
  BY <1>4, WriteTypes
<1>5. ASSUME NEW f \in Name, Delete(f) PROVE Types'
  BY <1>5, DeleteTypes
<1>6. CASE Allocate
  BY <1>6, AllocateTypes
<1>7. CASE Mark
  BY <1>7, MarkTypes
<1>8. CASE Pad
  BY <1>8, PadTypes
<1>9. CASE Entry
  BY <1>9, EntryTypes
<1>10. CASE Link
  BY <1>10, LinkTypes
<1>11. CASE SectorStep
  BY <1>11, SectorTypes
<1>12. CASE Update
  BY <1>12, UpdateTypes
<1>13. CASE Unlink
  BY <1>13, UnlinkTypes
<1>14. CASE Misread
  BY <1>14, MisreadTypes
<1>15. CASE Crash
  BY <1>15, CrashTypes
<1> QED
  BY <1>1, <1>2, <1>3, <1>4, <1>5, <1>6, <1>7, <1>8, <1>9, <1>10, <1>11, <1>12, <1>13, <1>14, <1>15
     DEF Next

(* What the card and the memory of the application hold has its type, and  *)
(* a sector that fileWrite writes lies inside its cluster.                 *)
THEOREM SdFatTypes == Spec => []TypeOK
<1>1. Init => Types
  BY InitTypes
<1>2. Types /\ [Next]_vars => Types'
  BY TypesStep
<1>3. Types => TypeOK
  BY TypesSuffice
<1> QED
  BY <1>1, <1>2, <1>3, PTL DEF Spec

-----------------------------------------------------------------------------
(* What holds as long as the code has done nothing after which nothing is  *)
(* promised.  v is the FAT, d the directory, o the call, h the structures. *)

LiveIn(d) == {s \in Slot : d[s].kind = "file"}

(* The files whose first cluster is not in l, those with a lost mark.      *)
IntactIn(d, l) == {s \in LiveIn(d) : d[s].start \notin l}

(* Every file has a chain, long enough and its own, unless its mark is     *)
(* lost; the cluster is then free or the end of a chain.                   *)
ChainsOK(v, d, l) ==
    /\ \A s \in IntactIn(d, l) : /\ Good(v, d[s].start)
                                 /\ d[s].size <= ClusterSize * Cardinality(ChainIn(v, d[s].start))
                                 /\ ChainIn(v, d[s].start) \cap l = {}
    /\ \A s, t \in IntactIn(d, l) : s # t => ChainIn(v, d[s].start) \cap ChainIn(v, d[t].start) = {}
    /\ \A c \in l : v[c] \in {Free, Eoc}

(* Without a failure, only the call in progress has clusters of no file:   *)
(* the new one before its entry is written, the rest of a deleted chain.   *)
LeaksOK(v, d, o) ==
    \A c \in Cluster :
        \/ v[c] = Free
        \/ \E s \in LiveIn(d) : c \in ChainIn(v, d[s].start)
        \/ o.pc \in {"pad", "entry"} /\ c = o.new
        \/ o.pc = "unlink" /\ c \in ChainIn(v, o.cur)

(* Nothing is behind an end mark, names are unique, and the entry of a     *)
(* long name is in front of the file's.                                    *)
DirOK(d) ==
    /\ \A s, t \in Slot : t < s /\ d[t].kind = "end" => d[s].kind = "end"
    /\ \A s, t \in LiveIn(d) : d[s].name = d[t].name => s = t
    /\ \A s \in LiveIn(d) : d[s].name \in Long => s - 1 \in Slot /\ d[s - 1] = LfnEntry(d[s].name)

(* fileCreate makes a file there is not, of a cluster that is free and     *)
(* then no file's, in slots that are no file's.                            *)
MakingOK(v, d, o, l) ==
    /\ o.pc # "link" /\ o.pc # "outside"
    /\ o.pc \in {"hint", "mark", "pad", "entry"} => o.link = 0 /\ \A s \in LiveIn(d) : d[s].name # o.name
    /\ o.pc = "mark" => v[o.new] = Free
    /\ o.pc \in {"pad", "entry"} =>
         /\ o.new \notin l => v[o.new] = Eoc
         /\ \A s \in IntactIn(d, l) : o.new \notin ChainIn(v, d[s].start)
         /\ \A t \in Slot : t < o.slot => d[t].kind # "end"
    /\ o.pc = "pad" => d[o.slot].kind = "end"
    /\ o.pc = "entry" => \A t \in Slot : t = o.slot \/ t = o.slot + Needed(o.name) - 1 => d[t].kind \in {"end", "free"}

(* What fileDelete still has to free is a chain, and no file's, or the     *)
(* cluster of a lost mark.                                                 *)
UnlinkOK(v, d, o, l) ==
    o.pc = "unlink" /\ o.cur \in Cluster \ l =>
        /\ Good(v, o.cur) /\ ChainIn(v, o.cur) \cap l = {}
        /\ \A s \in IntactIn(d, l) : ChainIn(v, d[s].start) \cap ChainIn(v, o.cur) = {}

(* An open file's structure belongs to its entry and fits its chain.       *)
HandlesOK(v, d, h, o, sp, l) ==
    \A f \in Name : h[f] # NULL =>
        /\ h[f].slot \in LiveIn(d) /\ d[h[f].slot].name = f /\ d[h[f].slot].start = h[f].start
        /\ h[f].start \notin l => h[f].size <= ClusterSize * Cardinality(ChainIn(v, h[f].start))
        /\ sp \/ (o.pc = "update" /\ o.name = f) \/ d[h[f].slot].size = h[f].size

(* fileWrite is in its file's first cluster, at the place of its next byte.*)
WritingOK(h, o) ==
    o.pc = "sector" =>
        /\ o.cur = h[o.name].start /\ o.mode = h[o.name].mode
        /\ o.sector * SectorSize + o.from = First(h[o.name]) + o.sent

Claims ==
    /\ ChainsOK(fat, dir, lost)
    /\ ~spoiled => LeaksOK(fat, dir, op)
    /\ DirOK(dir)
    /\ MakingOK(fat, dir, op, lost)
    /\ UnlinkOK(fat, dir, op, lost)
    /\ HandlesOK(fat, dir, handles, op, spoiled, lost)
    /\ WritingOK(handles, op)

FatInv == Types /\ (Sound => Claims)

LEMMA ClaimsAre ==
  ASSUME Claims
  PROVE  /\ ChainsOK(fat, dir, lost) /\ (~spoiled => LeaksOK(fat, dir, op)) /\ DirOK(dir)
         /\ MakingOK(fat, dir, op, lost) /\ UnlinkOK(fat, dir, op, lost)
         /\ HandlesOK(fat, dir, handles, op, spoiled, lost) /\ WritingOK(handles, op)
BY DEF Claims

LEMMA ClaimsFrom ==
  ASSUME ChainsOK(fat', dir', lost'), ~spoiled' => LeaksOK(fat', dir', op'), DirOK(dir'),
         MakingOK(fat', dir', op', lost'), UnlinkOK(fat', dir', op', lost'),
         HandlesOK(fat', dir', handles', op', spoiled', lost'), WritingOK(handles', op')
  PROVE  Claims'
BY DEF Claims

(* Without a call in progress.                                             *)
LEMMA IdleOK ==
  ASSUME NEW v, NEW d, NEW h, NEW l
  PROVE  MakingOK(v, d, Idle, l) /\ UnlinkOK(v, d, Idle, l) /\ WritingOK(h, Idle)
BY IdleIs DEF MakingOK, UnlinkOK, WritingOK

(* Where no mark is lost.                                                  *)
LEMMA AllIntact ==
  ASSUME NEW d
  PROVE  IntactIn(d, {}) = LiveIn(d)
BY DEF IntactIn

LEMMA LiveAre ==
  ASSUME NEW d, Entries(d), NEW s \in LiveIn(d)
  PROVE  /\ s \in Slot /\ s \in Nat /\ d[s].kind = "file" /\ d[s].name \in Name
         /\ d[s].start \in Cluster /\ d[s].size \in Nat
<1>1. s \in Slot /\ d[s].kind = "file"
  BY DEF LiveIn
<1> QED
  BY <1>1, EntryFields, SizeFacts

(* fileExists finds the files there are, each by its name.                 *)
LEMMA FindIs ==
  ASSUME Types, DirOK(dir)
  PROVE  /\ \A s \in LiveIn(dir) : Find(dir[s].name) = {s}
         /\ \A f : Exists(f) <=> \E s \in LiveIn(dir) : dir[s].name = f
         /\ \A f : Exists(f) => At(f) \in LiveIn(dir) /\ dir[At(f)].name = f
<1>1. ASSUME NEW s \in LiveIn(dir) PROVE s \in Find(dir[s].name)
  <2>1. s \in Slot /\ s \in Nat /\ dir[s].kind = "file"
    BY LiveAre, TypesAre
  <2>2. ASSUME NEW t \in 0..(s - 1) PROVE dir[t].kind # "end"
    <3>1. t \in Slot /\ t < s
      BY <2>1, SizeFacts
    <3> QED
      BY <2>1, <3>1 DEF DirOK
  <2> QED
    BY <2>1, <2>2 DEF Find
<1>2. ASSUME NEW f, NEW s \in Find(f) PROVE s \in LiveIn(dir) /\ dir[s].name = f
  BY DEF Find, LiveIn
<1>3. ASSUME NEW s \in LiveIn(dir) PROVE Find(dir[s].name) = {s}
  <2>1. ASSUME NEW t \in Find(dir[s].name) PROVE t = s
    <3>1. t \in LiveIn(dir) /\ dir[t].name = dir[s].name
      BY <1>2
    <3> QED
      BY <3>1 DEF DirOK
  <2> QED
    BY <1>1, <2>1
<1>4. \A f : Exists(f) <=> \E s \in LiveIn(dir) : dir[s].name = f
  BY <1>1, <1>2 DEF Exists
<1>5. \A f : Exists(f) => At(f) \in LiveIn(dir) /\ dir[At(f)].name = f
  BY AtIs, <1>2
<1> QED
  BY <1>3, <1>4, <1>5

(* The properties of the runs follow.                                      *)
LEMMA ClaimsSuffice ==
  ASSUME FatInv
  PROVE  ChainsSound /\ DirectoryWhole /\ HandlesCurrent
<1> SUFFICES ASSUME Sound PROVE ChainsSound /\ DirectoryWhole /\ HandlesCurrent
  BY DEF ChainsSound, ChainsApart, NothingLeaks, DirectoryWhole, HandlesCurrent
<1>1. Types /\ Claims /\ Entries(dir)
  BY TypesAre DEF FatInv
<1>2. Live = LiveIn(dir) /\ Intact = IntactIn(dir, lost)
  BY DEF Live, LiveIn, Intact, IntactIn
<1>3. ChainsApart
  <2>1. ASSUME NEW s \in Intact
        PROVE  /\ Walk(dir[s].start, LastCluster) = Eoc
               /\ dir[s].size <= ClusterSize * Cardinality(Chain(dir[s].start))
               /\ \A t \in Live \ {s} : Chain(dir[s].start) \cap Chain(dir[t].start) = {}
    <3>1. Good(fat, dir[s].start)
      BY <1>1, <1>2 DEF Claims, ChainsOK
    <3>2. WalkIn(fat, dir[s].start, LastCluster) = Eoc
      BY <3>1, ChainFirst
    <3>3. ASSUME NEW t \in Live \ {s}
          PROVE  Chain(dir[s].start) \cap Chain(dir[t].start) = {}
      <4>1. CASE t \in Intact
        BY <1>1, <1>2, <3>3, <4>1, WalkIs DEF Claims, ChainsOK
      <4>2. CASE t \notin Intact
        <5>1. dir[t].start \in lost
          BY <1>2, <3>3, <4>2 DEF IntactIn
        <5>2. dir[t].start \in Cluster /\ fat[dir[t].start] \in {Free, Eoc}
          BY <1>1, <1>2, <5>1, LiveAre DEF Claims, ChainsOK
        <5>3. ChainIn(fat, dir[t].start) \subseteq {dir[t].start}
          BY <5>2, ChainAlone
        <5>4. ChainIn(fat, dir[s].start) \cap lost = {}
          BY <1>1, <1>2 DEF Claims, ChainsOK
        <5> QED
          BY <5>1, <5>3, <5>4, WalkIs
      <4> QED
        BY <4>1, <4>2
    <3> QED
      BY <1>1, <1>2, <3>2, <3>3, WalkIs DEF Claims, ChainsOK
  <2> QED
    BY <2>1 DEF ChainsApart
<1>4. NothingLeaks
  <2> SUFFICES ASSUME ~spoiled, op = Idle, NEW c \in Cluster
               PROVE  fat[c] = Free \/ \E s \in Live : c \in Chain(dir[s].start)
    BY DEF NothingLeaks
  <2> QED
    BY <1>1, <1>2, WalkIs, IdleIs DEF Claims, LeaksOK
<1>5. DirectoryWhole
  <2>1. ASSUME NEW s \in Live PROVE Find(dir[s].name) = {s}
    BY <1>1, <1>2, FindIs DEF Claims
  <2> QED
    BY <1>1, <1>2, <2>1 DEF DirectoryWhole, Claims, DirOK
<1>6. HandlesCurrent
  <2>1. ASSUME NEW f \in Name, handles[f] # NULL
        PROVE  /\ Find(f) = {handles[f].slot}
               /\ dir[handles[f].slot].start = handles[f].start
               /\ spoiled \/ (op.pc = "update" /\ op.name = f) \/ dir[handles[f].slot].size = handles[f].size
    <3>1. /\ handles[f].slot \in LiveIn(dir) /\ dir[handles[f].slot].name = f
          /\ dir[handles[f].slot].start = handles[f].start
          /\ spoiled \/ (op.pc = "update" /\ op.name = f) \/ dir[handles[f].slot].size = handles[f].size
      BY <1>1, <2>1 DEF Claims, HandlesOK
    <3>2. Find(dir[handles[f].slot].name) = {handles[f].slot}
      BY <1>1, <3>1, FindIs DEF Claims
    <3> QED
      BY <3>1, <3>2
  <2> QED
    BY <2>1 DEF HandlesCurrent
<1> QED
  BY <1>3, <1>4, <1>5, <1>6 DEF ChainsSound

LEMMA InitClaims ==
  ASSUME Init
  PROVE  Claims
<1>1. PICK f \in Name \ Long, n \in OldSize : NewCard(f, n)
  BY InitIs
<1> DEFINE K == Cardinality(Used(n))
           p == [i \in 1..K |-> i + 2]
<1>2. /\ n \in Nat /\ K \in 0..(LastCluster - 2) /\ LastCluster \in Nat /\ LastCluster >= 3
      /\ \A c : c \in Used(n) <=> c \in Nat /\ 3 <= c /\ c < 3 + K
      /\ n <= ClusterSize * K /\ (n = 0 <=> K = 0)
  BY UsedIs, Volume
<1> HIDE DEF K
<1>3. /\ fat = [c \in Cluster |-> IF c \notin Used(n) THEN Free
                                  ELSE IF c + 1 \in Used(n) THEN c + 1 ELSE Eoc]
      /\ dir = [s \in Slot |-> IF s = 0 THEN [End EXCEPT !.kind = "label"]
                               ELSE IF s = 1 /\ n > 0 THEN FirstEntry(f, n)
                               ELSE End]
  BY <1>1 DEF NewCard
<1>4. /\ \A s \in LiveIn(dir) : s = 1 /\ n > 0
      /\ n > 0 => 1 \in LiveIn(dir)
      /\ n > 0 => dir[1].start = 3 /\ dir[1].size = n /\ dir[1].name = f
  <2>1. f \in Name /\ 1 \in Slot
    BY SizeFacts
  <2>2. n > 0 => dir[1] = FirstEntry(f, n)
    BY <1>3, <2>1
  <2>3. /\ FirstEntry(f, n).kind = "file" /\ FirstEntry(f, n).name = f
        /\ FirstEntry(f, n).start = 3 /\ FirstEntry(f, n).size = n
    BY <1>2, <2>1, FirstEntryIs
  <2>4. ASSUME NEW s \in LiveIn(dir) PROVE s = 1 /\ n > 0
    <3>1. s \in Slot /\ dir[s].kind = "file"
      BY DEF LiveIn
    <3>2. dir[s] # [End EXCEPT !.kind = "label"] /\ dir[s] # End
      BY <3>1, LabelIs, EntryIs
    <3> QED
      BY <1>3, <3>1, <3>2
  <2>5. n > 0 => 1 \in LiveIn(dir)
    BY <2>1, <2>2, <2>3 DEF LiveIn
  <2> QED
    BY <2>2, <2>3, <2>4, <2>5
<1>5. ASSUME n > 0
      PROVE  Good(fat, 3) /\ ChainIn(fat, 3) = Used(n) /\ Cardinality(ChainIn(fat, 3)) = K
  <2>1. K \in Nat /\ K # 0
    BY <1>2, <1>5
  <2>2. /\ p \in [1..K -> Cluster] /\ \A i \in 1..K : p[i] = i + 2 /\ p[i] \in Used(n)
    <3>1. \A i \in 1..K : i + 2 \in Cluster /\ i + 2 \in Used(n)
      BY <1>2, <2>1, Volume
    <3> QED
      BY <3>1
  <2> HIDE DEF p
  <2>3. p \in Seq(Cluster) /\ Len(p) = K
    BY <2>1, <2>2
  <2>4. \A i \in 1..K : fat[p[i]] = IF i = K THEN Eoc ELSE p[i + 1]
    <3> SUFFICES ASSUME NEW i \in 1..K PROVE fat[p[i]] = IF i = K THEN Eoc ELSE p[i + 1]
      OBVIOUS
    <3>1. p[i] \in Cluster /\ p[i] = i + 2 /\ p[i] \in Used(n)
      BY <2>2
    <3>2. p[i] + 1 \in Used(n) <=> i # K
      BY <1>2, <2>1, <3>1
    <3>3. i # K => p[i + 1] = p[i] + 1
      BY <2>1, <2>2, <3>1
    <3> QED
      BY <1>3, <3>1, <3>2, <3>3
  <2>5. Path(fat, p, 3)
    <3>1. p[1] = 3
      BY <2>1, <2>2
    <3>2. \A i, j \in 1..K : p[i] = p[j] => i = j
      BY <2>2
    <3> QED
      BY <2>1, <2>3, <2>4, <3>1, <3>2 DEF Path
  <2>6. ChainIn(fat, 3) = {p[i] : i \in 1..K} /\ Cardinality(ChainIn(fat, 3)) = K
    BY <2>3, <2>5, ChainIs
  <2>7. ASSUME NEW c \in Used(n) PROVE c \in {p[i] : i \in 1..K}
    <3>1. c - 2 \in 1..K /\ p[c - 2] = c
      <4>1. c - 2 \in 1..K /\ (c - 2) + 2 = c
        BY <1>2, <2>1
      <4> QED
        BY <2>2, <4>1
    <3> QED
      BY <3>1
  <2>8. {p[i] : i \in 1..K} = Used(n)
    BY <2>2, <2>7
  <2> QED
    BY <2>5, <2>6, <2>8 DEF Good
<1>6. ChainsOK(fat, dir, lost)
  <2>1. lost = {} /\ IntactIn(dir, lost) = LiveIn(dir)
    BY InitIs, AllIntact
  <2> QED
    BY <1>2, <1>4, <1>5, <2>1 DEF ChainsOK
<1>7. LeaksOK(fat, dir, op)
  <2> SUFFICES ASSUME NEW c \in Cluster, fat[c] # Free PROVE \E s \in LiveIn(dir) : c \in ChainIn(fat, dir[s].start)
    BY DEF LeaksOK
  <2>1. c \in Used(n)
    BY <1>3
  <2>2. n > 0
    BY <1>2, <2>1
  <2> QED
    BY <1>4, <1>5, <2>1, <2>2
<1>8. DirOK(dir)
  <2>1. ASSUME NEW s \in Slot, NEW t \in Slot, t < s, dir[t].kind = "end" PROVE dir[s].kind = "end"
    <3>1. s \in Nat /\ t \in Nat
      BY SizeFacts
    <3>2. t # 0 /\ (n > 0 => t # 1)
      BY <1>2, <1>3, <2>1, LabelIs, FirstEntryIs
    <3>3. s # 0 /\ ~(s = 1 /\ n > 0)
      BY <1>2, <2>1, <3>1, <3>2
    <3>4. dir[s] = End
      BY <1>3, <3>3
    <3> QED
      BY <3>4, EntryIs
  <2> QED
    BY <1>4, <2>1 DEF DirOK
<1>9. HandlesOK(fat, dir, handles, op, spoiled, lost)
  BY InitIs DEF HandlesOK
<1> QED
  BY <1>6, <1>7, <1>8, <1>9, InitIs, IdleOK DEF Claims

-----------------------------------------------------------------------------
(* Every step keeps the claims: those without a write to the card first.   *)

LEMMA SpoiltOK ==
  ASSUME NEW v, NEW d, NEW h, NEW o, NEW sp, NEW l, HandlesOK(v, d, h, o, sp, l)
  PROVE  HandlesOK(v, d, h, Idle, TRUE, l)
BY DEF HandlesOK

LEMMA GiveUpClaims ==
  ASSUME Types, Claims, NEW sector, GiveUp(sector)
  PROVE  Claims'
<1>1. op' = Idle /\ spoiled' = TRUE /\ UNCHANGED <<fat, dir, handles, lost>>
  BY DEF GiveUp, card
<1>2. HandlesOK(fat, dir, handles, Idle, TRUE, lost)
  BY ClaimsAre, SpoiltOK
<1> QED
  BY <1>1, <1>2, ClaimsAre, ClaimsFrom, IdleOK

LEMMA CrashClaims ==
  ASSUME Types, Claims, Crash
  PROVE  Claims'
<1>1. op' = Idle /\ spoiled' = TRUE /\ UNCHANGED <<fat, dir, lost>> /\ handles' = [f \in Name |-> NULL]
  BY DEF Crash, card
<1>2. HandlesOK(fat, dir, handles', Idle, TRUE, lost)
  BY <1>1 DEF HandlesOK
<1> QED
  BY <1>1, <1>2, ClaimsAre, ClaimsFrom, IdleOK

LEMMA AstrayUnsound ==
  ASSUME NEW how, Astray(how)
  PROVE  ~Sound'
BY DEF Astray, Sound

LEMMA OutsideUnsound ==
  ASSUME Outside
  PROVE  ~Sound'
BY AstrayUnsound DEF Outside

(* A call that is no call of fileDelete's and makes no file leaves no      *)
(* cluster to it alone.                                                    *)
LEMMA LeaksKept ==
  ASSUME NEW v, NEW d, NEW o, LeaksOK(v, d, o), o.pc \notin {"pad", "entry", "unlink"}, NEW u
  PROVE  LeaksOK(v, d, u)
BY DEF LeaksOK

LEMMA OpenClaims ==
  ASSUME Types, Claims, NEW f \in Name, NEW mode \in Mode, Open(f, mode)
  PROVE  Claims'
<1>1. op = Idle /\ UNCHANGED <<card, history>> /\ Idle.pc = "idle"
  BY IdleIs DEF Open
<1>2. UNCHANGED <<fat, dir, spoiled, lost>>
  BY <1>1 DEF card, history
<1>3. CASE Exists(f)
  <2> DEFINE s == At(f)
             h == [slot |-> s, start |-> dir[s].start, size |-> dir[s].size, mode |-> mode]
  <2>1. handles' = [handles EXCEPT ![f] = h] /\ op' = Idle
    BY <1>1, <1>3 DEF Open
  <2>2. s \in LiveIn(dir) /\ dir[s].name = f
    BY <1>3, ClaimsAre, FindIs
  <2> HIDE DEF s
  <2>3. h.slot = s /\ h.start = dir[s].start /\ h.size = dir[s].size
    OBVIOUS
  <2> HIDE DEF h
  <2>4. HandlesOK(fat, dir, handles', Idle, spoiled, lost)
    <3> SUFFICES ASSUME NEW g \in Name, handles'[g] # NULL
                 PROVE  /\ handles'[g].slot \in LiveIn(dir) /\ dir[handles'[g].slot].name = g
                        /\ dir[handles'[g].slot].start = handles'[g].start
                        /\ handles'[g].start \notin lost =>
                             handles'[g].size <= ClusterSize * Cardinality(ChainIn(fat, handles'[g].start))
                        /\ spoiled \/ dir[handles'[g].slot].size = handles'[g].size
      BY DEF HandlesOK
    <3>1. CASE g = f
      <4>1. handles'[g] = h
        BY <2>1, <3>1, TypesAre
      <4> QED
        BY <2>2, <2>3, <3>1, <4>1, ClaimsAre DEF ChainsOK, IntactIn
    <3>2. CASE g # f
      <4>1. handles'[g] = handles[g]
        BY <2>1, <3>2, TypesAre
      <4> QED
        BY <1>1, <4>1, ClaimsAre DEF HandlesOK
    <3> QED
      BY <3>1, <3>2
  <2> QED
    BY <1>1, <1>2, <2>1, <2>4, ClaimsAre, ClaimsFrom, IdleOK
<1>4. CASE ~Exists(f)
  <2> DEFINE o == [Idle EXCEPT !.pc = "hint", !.name = f, !.mode = mode]
  <2>1. op' = o /\ handles' = handles
    BY <1>4 DEF Open
  <2>2. o.pc = "hint" /\ o.name = f /\ o.link = 0
    BY IdleIs DEF OpRec
  <2> HIDE DEF o
  <2>3. \A s \in LiveIn(dir) : dir[s].name # f
    BY <1>4, ClaimsAre, FindIs
  <2>4. MakingOK(fat, dir, o, lost)
    BY <2>2, <2>3 DEF MakingOK
  <2>5. UnlinkOK(fat, dir, o, lost) /\ WritingOK(handles, o)
    BY <2>2 DEF UnlinkOK, WritingOK
  <2>6. HandlesOK(fat, dir, handles, o, spoiled, lost)
    BY <1>1, ClaimsAre DEF HandlesOK
  <2>7. ~spoiled => LeaksOK(fat, dir, o)
    BY <1>1, ClaimsAre, LeaksKept
  <2> QED
    BY <1>2, <2>1, <2>4, <2>5, <2>6, <2>7, ClaimsAre, ClaimsFrom
<1> QED
  BY <1>3, <1>4

LEMMA CloseClaims ==
  ASSUME Types, Claims, NEW f \in Name, Close(f)
  PROVE  Claims'
<1>1. op = Idle /\ op' = Idle /\ handles' = [handles EXCEPT ![f] = NULL] /\ UNCHANGED <<fat, dir, spoiled, lost>>
  BY DEF Close, card, history
<1>2. HandlesOK(fat, dir, handles', Idle, spoiled, lost)
  <2>1. \A g \in Name : handles'[g] # NULL => handles'[g] = handles[g]
    BY <1>1, TypesAre
  <2> QED
    BY <1>1, <2>1, ClaimsAre DEF HandlesOK
<1> QED
  BY <1>1, <1>2, ClaimsAre, ClaimsFrom, IdleOK

LEMMA WriteClaims ==
  ASSUME Types, Claims, NEW f \in Name, NEW len \in Lens, Write(f, len), Sound'
  PROVE  Claims'
<1> DEFINE h == handles[f]
           n == First(h)
<1>1. /\ n \in Nat /\ op = Idle /\ op'.name = f /\ op'.mode = h.mode /\ op'.sent = 0
      /\ op'.from = n % SectorSize /\ op'.sector = (n \div SectorSize) % Sectors
      /\ n \div ClusterSize = 0 /\ op'.pc = "sector" /\ op'.cur = h.start
      /\ UNCHANGED <<card, handles, spoiled, lost>>
  BY WriteIs DEF Sound
<1>2. UNCHANGED <<fat, dir, handles, spoiled, lost>>
  BY <1>1 DEF card
<1> HIDE DEF n
<1>3. op'.sector * SectorSize + op'.from = n
  <2> DEFINE q == n \div SectorSize
             r == n % SectorSize
  <2>1. q \in Nat /\ r \in 0 .. SectorSize - 1 /\ n = SectorSize * q + r
    BY <1>1, SizeFacts, DivMod
  <2>2. n < SectorSize * Sectors
    <3>1. n % ClusterSize \in 0 .. ClusterSize - 1 /\ n = ClusterSize * (n \div ClusterSize) + (n % ClusterSize)
      BY <1>1, SizeFacts, DivMod
    <3>2. ClusterSize * 0 = 0 /\ SectorSize * Sectors = ClusterSize /\ ClusterSize \in Nat
      BY ConstantFacts
    <3> DEFINE m == n % ClusterSize
    <3>3. n = m /\ m \in 0 .. ClusterSize - 1
      BY <1>1, <3>1, <3>2
    <3> HIDE DEF m
    <3> QED
      BY <3>2, <3>3
  <2>3. q < Sectors
    BY <1>1, <2>2, SizeFacts, PieceOf
  <2> HIDE DEF q, r
  <2>4. q % Sectors = q
    <3>1. q \in 0 .. Sectors - 1 /\ Sectors * 0 + q = q
      BY <2>1, <2>3, SizeFacts
    <3>2. (Sectors * 0 + q) % Sectors = q
      BY <3>1, SizeFacts, DivModOf
    <3> QED
      BY <3>1, <3>2
  <2>5. q * SectorSize = SectorSize * q
    BY <2>1, SizeFacts
  <2> QED
    BY <1>1, <2>1, <2>4, <2>5 DEF q, r
<1>4. WritingOK(handles, op')
  <2>1. n + 0 = n
    BY <1>1
  <2> QED
    BY <1>1, <1>3, <2>1 DEF WritingOK, n
<1>5. MakingOK(fat, dir, op', lost) /\ UnlinkOK(fat, dir, op', lost)
  BY <1>1 DEF MakingOK, UnlinkOK
<1>6. HandlesOK(fat, dir, handles, op', spoiled, lost)
  BY <1>1, IdleIs, ClaimsAre DEF HandlesOK
<1>7. ~spoiled => LeaksOK(fat, dir, op')
  BY <1>1, IdleIs, ClaimsAre, LeaksKept
<1> QED
  BY <1>2, <1>4, <1>5, <1>6, <1>7, ClaimsAre, ClaimsFrom

LEMMA AllocateClaims ==
  ASSUME Types, Claims, Allocate, Sound'
  PROVE  Claims'
<1> DEFINE m == Min(FreeFrom(hint))
           o == [op EXCEPT !.new = m, !.pc = IF op.link = 0 THEN "mark" ELSE "link"]
<1>1. /\ op.pc = "hint" /\ FreeFrom(hint) # {} /\ op' = o
      /\ UNCHANGED <<fat, dir, data, handles, history>>
  BY OutsideUnsound DEF Allocate
<1>2. m \in Cluster /\ fat[m] = Free
  BY <1>1, FreeFromIs
<1> HIDE DEF m
<1>3. op.link = 0 /\ \A s \in LiveIn(dir) : dir[s].name # op.name
  BY <1>1, ClaimsAre DEF MakingOK
<1>4. o.pc = "mark" /\ o.new = m /\ o.name = op.name /\ o.link = 0
  BY <1>3, TypesAre DEF OpRec
<1> HIDE DEF o
<1>5. MakingOK(fat, dir, o, lost)
  BY <1>2, <1>3, <1>4 DEF MakingOK
<1>6. UnlinkOK(fat, dir, o, lost) /\ WritingOK(handles, o)
  BY <1>4 DEF UnlinkOK, WritingOK
<1>7. HandlesOK(fat, dir, handles, o, spoiled, lost)
  BY <1>1, ClaimsAre DEF HandlesOK
<1>8. ~spoiled => LeaksOK(fat, dir, o)
  BY <1>1, ClaimsAre, LeaksKept
<1> QED
  BY <1>1, <1>5, <1>6, <1>7, <1>8, ClaimsAre, ClaimsFrom DEF history

-----------------------------------------------------------------------------
(* Steps that write to the FAT.                                            *)

(* Chains no link of which changes stay, and the structures fit them.      *)
LEMMA ChainsStay ==
  ASSUME NEW v, NEW d, NEW l, ChainsOK(v, d, l), NEW u,
         \A s \in IntactIn(d, l) : \A c \in ChainIn(v, d[s].start) : u[c] = v[c],
         \A c \in l : u[c] \in {Free, Eoc}
  PROVE  /\ ChainsOK(u, d, l)
         /\ \A s \in IntactIn(d, l) : Good(u, d[s].start) /\ ChainIn(u, d[s].start) = ChainIn(v, d[s].start)
         /\ \A h, o, sp : HandlesOK(v, d, h, o, sp, l) => HandlesOK(u, d, h, o, sp, l)
<1>1. ASSUME NEW s \in IntactIn(d, l)
      PROVE  Good(u, d[s].start) /\ ChainIn(u, d[s].start) = ChainIn(v, d[s].start)
  <2>1. Good(v, d[s].start)
    BY DEF ChainsOK
  <2> QED
    BY <2>1, ChainKept
<1>2. ChainsOK(u, d, l)
  BY <1>1 DEF ChainsOK
<1>3. ASSUME NEW h, NEW o, NEW sp, HandlesOK(v, d, h, o, sp, l)
      PROVE  HandlesOK(u, d, h, o, sp, l)
  BY <1>1, <1>3 DEF HandlesOK, IntactIn
<1> QED
  BY <1>1, <1>2, <1>3

LEMMA SuitableSlots ==
  ASSUME Types, DirOK(dir), NEW n \in {1, 2}, NEW s \in Nat, Suits(n, s), NEW t \in Slot,
         t = s \/ t = s + n - 1
  PROVE  dir[t].kind \in {"end", "free"}
<1>1. t \in Nat /\ t < None
  BY SizeFacts
<1>2. s \in Slot
  <2>1. s # None
    BY <1>1
  <2> QED
    BY <2>1 DEF Suits
<1>3. t = s \/ (n = 2 /\ t = s + 1)
  BY <1>1
<1>4. dir[s].kind \in {"end", "free"}
  BY <1>2, SizeFacts DEF Suits
<1>5. CASE t # s
  <2>1. n = 2 /\ t = s + 1 /\ s < t
    BY <1>3, <1>5
  <2>2. CASE dir[s].kind = "end"
    BY <1>2, <2>1, <2>2 DEF DirOK
  <2>3. CASE dir[s].kind # "end"
    BY <1>2, <2>1, <2>3, SizeFacts DEF Suits
  <2> QED
    BY <2>2, <2>3
<1> QED
  BY <1>4, <1>5

LEMMA MarkClaims ==
  ASSUME Types, Claims, Mark, Sound'
  PROVE  Claims'
<1>1. /\ op.pc = "mark" /\ op.link = 0 /\ fat[op.new] = Free /\ op.new \in Cluster
      /\ \A s \in LiveIn(dir) : dir[s].name # op.name
  BY TypesAre, ClaimsAre DEF Mark, MakingOK, CallTypes
<1>2. /\ UNCHANGED <<dir, handles>> /\ (spoiled => spoiled')
      /\ lost' = (IF fat'[op.new] = Eoc THEN lost ELSE lost \cup {op.new})
      /\ \/ fat' = [fat EXCEPT ![op.new] = Eoc] /\ spoiled' = spoiled
         \/ fat' = fat /\ spoiled' = TRUE
  BY <1>1, SetNextIs DEF Mark
<1> DEFINE n == Needed(op.name)
           s == FreeEntry(n)
<1>3. /\ s \in Nat /\ Suits(n, s)
      /\ Pads(s, n) => s \in Slot /\ dir[s].kind = "end"
      /\ op'.pc \in {"pad", "entry"} /\ (op'.pc = "pad" <=> Pads(s, n))
      /\ op'.slot = s /\ op'.name = op.name /\ op'.new = op.new /\ op'.link = 0
  BY <1>1, MarkIs
<1>4. \A t \in Slot : t < s => dir[t].kind # "end"
  <2>1. ~\E t \in 0..(s - 1) : dir[t].kind = "end"
    <3>1. defects' = IF \E t \in 0..(s - 1) : dir[t].kind = "end"
                     THEN defects \cup {"hidden"} ELSE defects
      BY <1>1 DEF Mark
    <3> HIDE DEF s
    <3> QED
      BY <3>1 DEF Sound
  <2> HIDE DEF s
  <2>2. \A t \in Slot : t < s => t \in 0..(s - 1)
    BY <1>3, SizeFacts
  <2> QED
    BY <2>1, <2>2
<1> HIDE DEF s
<1>5. \A t \in IntactIn(dir, lost) : op.new \notin ChainIn(fat, dir[t].start)
  <2> SUFFICES ASSUME NEW t \in IntactIn(dir, lost) PROVE op.new \notin ChainIn(fat, dir[t].start)
    OBVIOUS
  <2>1. Good(fat, dir[t].start)
    BY ClaimsAre DEF ChainsOK
  <2>2. \A c \in ChainIn(fat, dir[t].start) : fat[c] # Free
    BY <2>1, ChainFirst
  <2> QED
    BY <1>1, <2>2
<1>6. /\ \A c \in Cluster : c # op.new => fat'[c] = fat[c]
      /\ fat'[op.new] \in {Free, Eoc} /\ (op.new \notin lost' => fat'[op.new] = Eoc)
      /\ ~spoiled' => fat'[op.new] = Eoc /\ ~spoiled
      /\ lost \subseteq lost' /\ lost' \subseteq lost \cup {op.new}
  BY <1>1, <1>2, TypesAre DEF HistoryTypes
<1>7. \A t \in IntactIn(dir, lost) : \A c \in ChainIn(fat, dir[t].start) : fat'[c] = fat[c]
  BY <1>5, <1>6, ChainFirst, ClaimsAre DEF ChainsOK
<1>8. \A c \in lost' : fat'[c] \in {Free, Eoc}
  BY <1>6, ClaimsAre, TypesAre DEF ChainsOK, HistoryTypes
<1>9. /\ ChainsOK(fat', dir, lost)
      /\ \A t \in IntactIn(dir, lost) : ChainIn(fat', dir[t].start) = ChainIn(fat, dir[t].start)
      /\ HandlesOK(fat', dir, handles, op, spoiled, lost)
  BY <1>6, <1>7, <1>8, ClaimsAre, ChainsStay
<1>10. IntactIn(dir, lost') \subseteq IntactIn(dir, lost)
  BY <1>6 DEF IntactIn
<1>11. ChainsOK(fat', dir, lost')
  <2>1. ASSUME NEW t \in IntactIn(dir, lost') PROVE ChainIn(fat', dir[t].start) \cap lost' = {}
    BY <1>5, <1>6, <1>9, <1>10 DEF ChainsOK
  <2> QED
    BY <1>8, <1>9, <1>10, <2>1 DEF ChainsOK
<1>12. HandlesOK(fat', dir, handles, op', spoiled', lost')
  BY <1>1, <1>2, <1>6, <1>9 DEF HandlesOK
<1>13. ~spoiled' => LeaksOK(fat', dir, op')
  <2> SUFFICES ASSUME ~spoiled', NEW c \in Cluster, c # op.new, fat'[c] # Free
               PROVE  \E t \in LiveIn(dir) : c \in ChainIn(fat', dir[t].start)
    BY <1>3 DEF LeaksOK
  <2>1. ~spoiled /\ IntactIn(dir, lost) = LiveIn(dir)
    BY <1>6, TypesAre, AllIntact DEF HistoryTypes
  <2> QED
    BY <1>1, <1>6, <1>9, <2>1, ClaimsAre DEF LeaksOK
<1>14. MakingOK(fat', dir, op', lost')
  <2>1. ASSUME op'.pc = "entry", NEW t \in Slot, t = op'.slot \/ t = op'.slot + Needed(op'.name) - 1
        PROVE  dir[t].kind \in {"end", "free"}
    <3>1. n \in {1, 2} /\ (t = s \/ t = s + n - 1)
      BY <1>3, <2>1, NeededIs
    <3> HIDE DEF n
    <3> QED
      BY <1>3, <3>1, ClaimsAre, SuitableSlots
  <2>2. op'.pc = "pad" => dir[op'.slot].kind = "end"
    BY <1>3
  <2>3. \A t \in IntactIn(dir, lost') : op'.new \notin ChainIn(fat', dir[t].start)
    BY <1>3, <1>5, <1>9, <1>10
  <2> QED
    BY <1>1, <1>3, <1>4, <1>6, <2>1, <2>2, <2>3 DEF MakingOK
<1>15. UnlinkOK(fat', dir, op', lost') /\ WritingOK(handles, op')
  BY <1>3 DEF UnlinkOK, WritingOK
<1> QED
  BY <1>2, <1>11, <1>12, <1>13, <1>14, <1>15, ClaimsAre, ClaimsFrom

(* fileDelete frees the first cluster of what it still has to free.        *)
LEMMA UnlinkClaims ==
  ASSUME Types, Claims, Unlink, Sound'
  PROVE  Claims'
<1> DEFINE c == op.cur
<1>1. op.pc = "unlink" /\ c \in Cluster
  BY OutsideUnsound DEF Unlink
<1>2. /\ UNCHANGED <<dir, handles, lost>> /\ (spoiled => spoiled')
      /\ \/ fat' = [fat EXCEPT ![c] = Free] /\ spoiled' = spoiled
         \/ fat' = fat /\ spoiled' = TRUE
  BY <1>1, UnlinkIs, SetNextIs
<1>3. /\ \A x \in Cluster : x # c => fat'[x] = fat[x]
      /\ fat'[c] \in {Free, fat[c]} /\ (~spoiled' => fat'[c] = Free /\ ~spoiled)
  BY <1>1, <1>2, TypesAre DEF HistoryTypes
<1>4. c \notin lost => /\ Good(fat, c) /\ ChainIn(fat, c) \cap lost = {} /\ c \in ChainIn(fat, c)
                       /\ \A s \in IntactIn(dir, lost) : ChainIn(fat, dir[s].start) \cap ChainIn(fat, c) = {}
  BY <1>1, ClaimsAre, ChainFirst DEF UnlinkOK
<1>5. \A t \in IntactIn(dir, lost) : \A x \in ChainIn(fat, dir[t].start) : fat'[x] = fat[x]
  <2> SUFFICES ASSUME NEW t \in IntactIn(dir, lost), NEW x \in ChainIn(fat, dir[t].start) PROVE fat'[x] = fat[x]
    OBVIOUS
  <2>1. Good(fat, dir[t].start) /\ ChainIn(fat, dir[t].start) \cap lost = {}
    BY ClaimsAre DEF ChainsOK
  <2>2. x \in Cluster /\ x \notin lost
    BY <2>1, ChainFirst
  <2> QED
    BY <1>3, <1>4, <2>2
<1>6. /\ ChainsOK(fat', dir, lost)
      /\ \A t \in IntactIn(dir, lost) : ChainIn(fat', dir[t].start) = ChainIn(fat, dir[t].start)
      /\ HandlesOK(fat', dir, handles, op, spoiled, lost)
  <2>1. \A x \in lost : fat'[x] \in {Free, Eoc}
    BY <1>3, ClaimsAre, TypesAre DEF ChainsOK, HistoryTypes
  <2> QED
    BY <1>5, <2>1, ClaimsAre, ChainsStay
<1>7. ~spoiled => lost = {} /\ IntactIn(dir, lost) = LiveIn(dir)
  BY TypesAre, AllIntact DEF HistoryTypes
<1>8. CASE fat[c] = Eoc
  <2>1. op' = Idle
    BY <1>1, <1>8, UnlinkIs
  <2>2. HandlesOK(fat', dir, handles, Idle, spoiled', lost)
    BY <1>1, <1>2, <1>6 DEF HandlesOK
  <2>3. ~spoiled' => LeaksOK(fat', dir, Idle)
    <3> SUFFICES ASSUME ~spoiled', NEW x \in Cluster, fat'[x] # Free
                 PROVE  \E t \in LiveIn(dir) : x \in ChainIn(fat', dir[t].start)
      BY DEF LeaksOK
    <3>1. x # c /\ fat[x] # Free /\ ~spoiled
      BY <1>3
    <3>2. ChainIn(fat, c) = {c}
      BY <1>1, <1>8, ChainOne
    <3> QED
      BY <1>1, <1>6, <1>7, <3>1, <3>2, ClaimsAre DEF LeaksOK
  <2> QED
    BY <1>2, <1>6, <2>1, <2>2, <2>3, ClaimsAre, ClaimsFrom, IdleOK
<1>9. CASE fat[c] # Eoc
  <2> DEFINE r == fat[c]
  <2>1. op'.pc = "unlink" /\ op'.cur = r
    BY <1>1, <1>9, UnlinkIs
  <2>2. MakingOK(fat', dir, op', lost) /\ WritingOK(handles, op')
    BY <2>1 DEF MakingOK, WritingOK
  <2>3. HandlesOK(fat', dir, handles, op', spoiled', lost)
    BY <1>1, <1>2, <1>6 DEF HandlesOK
  <2>4. CASE c \in lost
    <3>1. r = Free /\ r \notin Cluster
      BY <1>9, <2>4, ClaimsAre, Volume DEF ChainsOK
    <3>2. UnlinkOK(fat', dir, op', lost)
      BY <2>1, <3>1 DEF UnlinkOK
    <3>3. spoiled'
      BY <1>2, <1>7, <2>4, TypesAre DEF HistoryTypes
    <3> QED
      BY <1>2, <1>6, <2>2, <2>3, <3>2, <3>3, ClaimsAre, ClaimsFrom
  <2>5. CASE c \notin lost
    <3>1. Good(fat, r) /\ c \notin ChainIn(fat, r) /\ ChainIn(fat, c) = {c} \cup ChainIn(fat, r)
      BY <1>4, <1>9, <2>5, ChainRest
    <3> HIDE DEF r
    <3>2. \A x \in ChainIn(fat, r) : fat'[x] = fat[x]
      BY <1>3, <3>1, ChainFirst
    <3>3. Good(fat', r) /\ ChainIn(fat', r) = ChainIn(fat, r)
      BY <3>1, <3>2, ChainKept
    <3>4. UnlinkOK(fat', dir, op', lost)
      BY <1>4, <1>6, <2>1, <2>5, <3>1, <3>3 DEF UnlinkOK
    <3>5. ~spoiled' => LeaksOK(fat', dir, op')
      <4> SUFFICES ASSUME ~spoiled', NEW x \in Cluster, fat'[x] # Free
                   PROVE  x \in ChainIn(fat', r) \/ \E t \in LiveIn(dir) : x \in ChainIn(fat', dir[t].start)
        BY <2>1 DEF LeaksOK
      <4>1. x # c /\ fat[x] # Free /\ ~spoiled
        BY <1>3
      <4> QED
        BY <1>1, <1>6, <1>7, <3>1, <3>3, <4>1, ClaimsAre DEF LeaksOK
    <3> QED
      BY <1>2, <1>6, <2>2, <2>3, <3>4, <3>5, ClaimsAre, ClaimsFrom
  <2> QED
    BY <2>4, <2>5
<1> QED
  BY <1>8, <1>9

-----------------------------------------------------------------------------
(* Steps that write to the directory.                                      *)

(* What does not touch the files' entries.                                 *)
LEMMA FilesStay ==
  ASSUME NEW v, NEW d, NEW e, NEW l, LiveIn(e) = LiveIn(d), \A s \in LiveIn(d) : e[s] = d[s]
  PROVE  /\ IntactIn(e, l) = IntactIn(d, l)
         /\ ChainsOK(v, d, l) => ChainsOK(v, e, l)
         /\ \A h, o, sp : HandlesOK(v, d, h, o, sp, l) => HandlesOK(v, e, h, o, sp, l)
<1>1. IntactIn(e, l) = IntactIn(d, l) /\ \A s \in IntactIn(d, l) : e[s] = d[s]
  BY DEF IntactIn
<1>2. ChainsOK(v, d, l) => ChainsOK(v, e, l)
  BY <1>1 DEF ChainsOK
<1>3. ASSUME NEW h, NEW o, NEW sp, HandlesOK(v, d, h, o, sp, l) PROVE HandlesOK(v, e, h, o, sp, l)
  BY <1>3 DEF HandlesOK
<1> QED
  BY <1>1, <1>2, <1>3

(* What each sector write of the directory does to the files' entries:    *)
(* filling a sector is behind all of them.                                 *)
LEMMA PadFiles ==
  ASSUME Types, Claims, Pad, Sound'
  PROVE  LiveIn(dir') = LiveIn(dir) /\ \A s \in LiveIn(dir) : dir'[s] = dir[s]
<1>1. /\ op.slot \in Slot
      /\ \A s \in Slot : s \in Nat
  BY PadIs, SizeFacts
<1>2. op.pc = "pad" /\ dir' = [s \in Slot |-> IF s >= op.slot /\ s < NextSector(op.slot) THEN Unused ELSE dir[s]]
  BY DEF Pad, Sound
<1>3. ASSUME NEW s \in Slot, s >= op.slot PROVE dir[s].kind = "end"
  <2>1. dir[op.slot].kind = "end"
    BY <1>2, ClaimsAre DEF MakingOK
  <2>2. s = op.slot \/ op.slot < s
    BY <1>1, <1>3
  <2> QED
    BY <1>1, <2>1, <2>2, ClaimsAre DEF DirOK
<1>4. ASSUME NEW s \in Slot PROVE dir'[s] = dir[s] \/ (dir[s].kind = "end" /\ dir'[s].kind = "free")
  BY <1>2, <1>3, EntryIs
<1>5. LiveIn(dir') = LiveIn(dir)
  BY <1>4 DEF LiveIn
<1>6. \A s \in LiveIn(dir) : dir'[s] = dir[s]
  BY <1>4 DEF LiveIn
<1> QED
  BY <1>5, <1>6

LEMMA PadClaims ==
  ASSUME Types, Claims, Pad, Sound'
  PROVE  Claims'
<1> DEFINE x == NextSector(op.slot)
<1>1. /\ op.slot \in Slot /\ op.slot \in Nat /\ op'.pc = "entry" /\ op'.slot = x
      /\ op'.name = op.name /\ op'.new = op.new /\ op'.link = op.link
      /\ x \in Nat /\ op.slot < x
  BY PadIs, SizeFacts
<1>2. /\ op.pc = "pad" /\ UNCHANGED <<fat, handles, spoiled, lost>>
      /\ dir' = [s \in Slot |-> IF s >= op.slot /\ s < x THEN Unused ELSE dir[s]]
  BY DEF Pad, Sound
<1> HIDE DEF x
<1>3. /\ op.link = 0 /\ \A s \in LiveIn(dir) : dir[s].name # op.name
      /\ op.new \notin lost => fat[op.new] = Eoc
      /\ \A s \in IntactIn(dir, lost) : op.new \notin ChainIn(fat, dir[s].start)
      /\ \A t \in Slot : t < op.slot => dir[t].kind # "end"
      /\ dir[op.slot].kind = "end"
  BY <1>2, ClaimsAre DEF MakingOK
<1>4. \A s \in Slot : s \in Nat
  BY SizeFacts
<1>5. \A s \in Slot : s >= op.slot => dir[s].kind = "end"
  <2> SUFFICES ASSUME NEW s \in Slot, s >= op.slot, s # op.slot PROVE dir[s].kind = "end"
    BY <1>3
  <2>1. op.slot < s
    BY <1>1, <1>4
  <2> QED
    BY <1>1, <1>3, <2>1, ClaimsAre DEF DirOK
<1>6. \A s \in Slot : dir[s].kind # "end" => dir'[s] = dir[s]
  BY <1>2, <1>5
<1>7. \A s \in Slot : s >= op.slot /\ s < x => dir'[s].kind = "free"
  BY <1>2, EntryIs
<1>8. \A s \in Slot : s >= x => dir'[s].kind = "end"
  <2> SUFFICES ASSUME NEW s \in Slot, s >= x PROVE dir'[s].kind = "end"
    OBVIOUS
  <2>1. s >= op.slot /\ ~(s < x)
    BY <1>1, <1>4
  <2> QED
    BY <1>2, <1>5, <2>1
<1>9. \A s \in Slot : dir'[s].kind = "end" => s >= x
  <2> SUFFICES ASSUME NEW s \in Slot, ~(s >= x), dir'[s].kind = "end" PROVE FALSE
    OBVIOUS
  <2>1. CASE s >= op.slot
    <3>1. s < x
      BY <1>1, <1>4
    <3> QED
      BY <1>7, <2>1, <3>1
  <2>2. CASE ~(s >= op.slot)
    <3>1. s < op.slot
      BY <1>1, <1>4, <2>2
    <3> QED
      BY <1>2, <1>3, <2>2, <3>1
  <2> QED
    BY <2>1, <2>2
<1>10. LiveIn(dir') = LiveIn(dir) /\ \A s \in LiveIn(dir) : dir'[s] = dir[s]
  BY PadFiles
<1>11. /\ ChainsOK(fat, dir', lost) /\ HandlesOK(fat, dir', handles, op, spoiled, lost)
       /\ \A s \in IntactIn(dir', lost) : op'.new \notin ChainIn(fat, dir'[s].start)
  <2>1. IntactIn(dir', lost) = IntactIn(dir, lost)
    BY <1>10, FilesStay
  <2>2. \A s \in IntactIn(dir, lost) : dir'[s] = dir[s]
    BY <1>10 DEF IntactIn
  <2> QED
    BY <1>1, <1>3, <1>10, <2>1, <2>2, ClaimsAre, FilesStay
<1>12. HandlesOK(fat, dir', handles, op', spoiled, lost)
  BY <1>2, <1>11 DEF HandlesOK
<1>13. DirOK(dir')
  <2>1. ASSUME NEW s \in Slot, NEW t \in Slot, t < s, dir'[t].kind = "end" PROVE dir'[s].kind = "end"
    <3>1. s >= x
      BY <1>1, <1>4, <1>9, <2>1
    <3> QED
      BY <1>8, <3>1
  <2>2. ASSUME NEW s \in LiveIn(dir'), dir'[s].name \in Long
        PROVE  s - 1 \in Slot /\ dir'[s - 1] = LfnEntry(dir'[s].name)
    <3>1. s \in LiveIn(dir) /\ dir'[s] = dir[s]
      BY <1>10
    <3>2. s - 1 \in Slot /\ dir[s - 1] = LfnEntry(dir[s].name) /\ dir[s].name \in Name
      BY <2>2, <3>1, ClaimsAre, TypesAre, LiveAre DEF DirOK
    <3>3. dir[s - 1].kind # "end"
      BY <3>2, EntryIs
    <3> QED
      BY <1>6, <3>1, <3>2, <3>3
  <2>3. \A s, t \in LiveIn(dir') : dir'[s].name = dir'[t].name => s = t
    BY <1>10, ClaimsAre DEF DirOK
  <2> QED
    BY <2>1, <2>2, <2>3 DEF DirOK
<1>14. MakingOK(fat, dir', op', lost)
  <2>1. ASSUME NEW t \in Slot, t = op'.slot \/ t = op'.slot + Needed(op'.name) - 1
        PROVE  dir'[t].kind = "end"
    <3>1. t >= x
      BY <1>1, <2>1, NeededIs
    <3> QED
      BY <1>8, <3>1
  <2>2. \A t \in Slot : t < op'.slot => dir'[t].kind # "end"
    BY <1>1, <1>4, <1>9
  <2> QED
    BY <1>1, <1>3, <1>10, <1>11, <2>1, <2>2 DEF MakingOK
<1>15. UnlinkOK(fat, dir', op', lost) /\ WritingOK(handles, op')
  BY <1>1 DEF UnlinkOK, WritingOK
<1>16. ~spoiled => LeaksOK(fat, dir', op')
  BY <1>1, <1>2, <1>10, ClaimsAre DEF LeaksOK
<1> QED
  BY <1>2, <1>11, <1>12, <1>13, <1>14, <1>15, <1>16, ClaimsFrom

(* fileCreate adds one.                                                    *)
LEMMA PlaceFiles ==
  ASSUME Types, Claims, PlaceEntry
  PROVE  LET s == NewHandle.slot
         IN  /\ s \notin LiveIn(dir) /\ LiveIn(dir') = LiveIn(dir) \cup {s}
             /\ dir'[s] = FileEntry(op.name, NewHandle)
             /\ \A t \in LiveIn(dir) : dir'[t] = dir[t] /\ dir[t].name # op.name
<1> DEFINE f == op.name
           b == op.slot
           s == NewHandle.slot
<1>1. /\ f \in Name /\ b \in Slot /\ s \in Slot /\ NewHandle \in Handle
      /\ s = op.slot + Needed(f) - 1
      /\ dir' = [t \in Slot |-> IF t = s THEN FileEntry(f, NewHandle)
                                ELSE IF t = b THEN LfnEntry(f) ELSE dir[t]]
  BY PlaceEntryIs
<1>2. op.pc = "entry"
  BY DEF PlaceEntry
<1>3. /\ \A t \in LiveIn(dir) : dir[t].name # f
      /\ dir[b].kind \in {"end", "free"} /\ dir[s].kind \in {"end", "free"}
  BY <1>1, <1>2, ClaimsAre DEF MakingOK
<1> HIDE DEF s, b
<1>4. s \notin LiveIn(dir) /\ b \notin LiveIn(dir)
  BY <1>3 DEF LiveIn
<1>5. dir'[s] = FileEntry(f, NewHandle) /\ dir'[s].kind = "file"
  BY <1>1, EntryIs
<1>6. ASSUME NEW t \in Slot, t # s PROVE dir'[t] = dir[t] \/ (t = b /\ dir'[t].kind = "lfn")
  BY <1>1, <1>6, EntryIs
<1>7. \A t \in LiveIn(dir) : dir'[t] = dir[t]
  BY <1>4, <1>6 DEF LiveIn
<1>8. LiveIn(dir') = LiveIn(dir) \cup {s}
  <2>1. ASSUME NEW t \in LiveIn(dir'), t # s PROVE t \in LiveIn(dir)
    BY <1>6, <2>1 DEF LiveIn
  <2>2. s \in LiveIn(dir')
    BY <1>1, <1>5 DEF LiveIn
  <2>3. ASSUME NEW t \in LiveIn(dir) PROVE t \in LiveIn(dir')
    BY <1>7 DEF LiveIn
  <2> QED
    BY <2>1, <2>2, <2>3
<1> QED
  BY <1>3, <1>4, <1>5, <1>7, <1>8 DEF s

LEMMA PlaceEntryClaims ==
  ASSUME Types, Claims, PlaceEntry
  PROVE  Claims'
<1> DEFINE f == op.name
           b == op.slot
           s == op.slot + Needed(f) - 1
           c == op.new
<1>1. /\ f \in Name /\ b \in Slot /\ s \in Slot /\ b \in Nat
      /\ NewHandle \in Handle /\ NewHandle.slot = s /\ NewHandle.start = c /\ NewHandle.size = 0
      /\ s = b \/ s = b + 1
      /\ s = b + 1 <=> f \in Long
      /\ dir' = [t \in Slot |-> IF t = s THEN FileEntry(f, NewHandle)
                                ELSE IF t = b THEN LfnEntry(f) ELSE dir[t]]
      /\ handles' = [handles EXCEPT ![f] = NewHandle]
      /\ op' = Idle
      /\ UNCHANGED <<fat, spoiled, lost>>
  BY PlaceEntryIs, SizeFacts DEF history
<1>2. op.pc = "entry"
  BY DEF PlaceEntry
<1>3. /\ \A t \in LiveIn(dir) : dir[t].name # f
      /\ c \notin lost => fat[c] = Eoc
      /\ \A t \in IntactIn(dir, lost) : c \notin ChainIn(fat, dir[t].start)
      /\ \A t \in Slot : t < b => dir[t].kind # "end"
      /\ dir[b].kind \in {"end", "free"} /\ dir[s].kind \in {"end", "free"}
      /\ c \in Cluster
  BY <1>1, <1>2, ClaimsAre, TypesAre DEF MakingOK, CallTypes
<1> HIDE DEF s, b, c
<1>4. /\ dir'[s] = FileEntry(f, NewHandle)
      /\ dir'[s].kind = "file" /\ dir'[s].name = f /\ dir'[s].start = c /\ dir'[s].size = 0
      /\ b # s => dir'[b] = LfnEntry(f) /\ dir'[b].kind = "lfn"
      /\ \A t \in Slot : t # s /\ t # b => dir'[t] = dir[t]
  <2>1. dir'[s] = FileEntry(f, NewHandle)
    BY <1>1
  <2>2. dir'[s].kind = "file" /\ dir'[s].name = f /\ dir'[s].start = c /\ dir'[s].size = 0
    BY <1>1, <2>1, EntryIs
  <2>3. b # s => dir'[b] = LfnEntry(f) /\ dir'[b].kind = "lfn"
    BY <1>1, EntryIs
  <2>4. \A t \in Slot : t # s /\ t # b => dir'[t] = dir[t]
    BY <1>1
  <2> QED
    BY <2>1, <2>2, <2>3, <2>4
<1>5. LiveIn(dir') = LiveIn(dir) \cup {s} /\ \A t \in LiveIn(dir) : dir'[t] = dir[t]
  BY <1>1, PlaceFiles
<1>6. c \notin lost => Good(fat, c) /\ ChainIn(fat, c) = {c}
  BY <1>3, ChainOne
<1>7. \A t \in IntactIn(dir', lost) :
        \/ t = s /\ c \notin lost
        \/ t # s /\ t \in IntactIn(dir, lost) /\ dir'[t] = dir[t]
  <2> SUFFICES ASSUME NEW t \in IntactIn(dir', lost)
               PROVE  \/ t = s /\ c \notin lost
                      \/ t # s /\ t \in IntactIn(dir, lost) /\ dir'[t] = dir[t]
    OBVIOUS
  <2>1. t \in LiveIn(dir') /\ dir'[t].start \notin lost
    BY DEF IntactIn
  <2>2. CASE t = s
    BY <1>4, <2>1, <2>2
  <2>3. CASE t # s
    BY <1>5, <2>1, <2>3 DEF IntactIn
  <2> QED
    BY <2>2, <2>3
<1>8. ChainsOK(fat, dir', lost)
  <2>1. ASSUME NEW t \in IntactIn(dir', lost)
        PROVE  /\ Good(fat, dir'[t].start)
               /\ dir'[t].size <= ClusterSize * Cardinality(ChainIn(fat, dir'[t].start))
               /\ ChainIn(fat, dir'[t].start) \cap lost = {}
    <3>1. CASE t = s
      <4>1. c \notin lost /\ Good(fat, c) /\ ChainIn(fat, c) = {c}
        BY <1>7, <1>6, <3>1
      <4>2. Cardinality(ChainIn(fat, c)) \in Nat
        BY <4>1, ChainFirst
      <4>3. 0 <= ClusterSize * Cardinality(ChainIn(fat, c))
        BY <4>2, SizeFacts
      <4> QED
        BY <1>4, <3>1, <4>1, <4>3
    <3>2. CASE t # s
      BY <1>7, <3>2, ClaimsAre DEF ChainsOK
    <3> QED
      BY <3>1, <3>2
  <2>2. ASSUME NEW t \in IntactIn(dir', lost), NEW u \in IntactIn(dir', lost), t # u
        PROVE  ChainIn(fat, dir'[t].start) \cap ChainIn(fat, dir'[u].start) = {}
    <3>1. CASE t = s
      BY <1>3, <1>4, <1>7, <1>6, <2>2, <3>1
    <3>2. CASE u = s
      BY <1>3, <1>4, <1>7, <1>6, <2>2, <3>2
    <3>3. CASE t # s /\ u # s
      BY <1>7, <2>2, <3>3, ClaimsAre DEF ChainsOK
    <3> QED
      BY <3>1, <3>2, <3>3
  <2> QED
    BY <2>1, <2>2, ClaimsAre DEF ChainsOK
<1>9. DirOK(dir')
  <2>1. ASSUME NEW t \in Slot, NEW u \in Slot, u < t, dir'[u].kind = "end" PROVE dir'[t].kind = "end"
    <3>1. u # s /\ u # b
      BY <1>4, <2>1
    <3>2. dir[u].kind = "end"
      BY <1>4, <2>1, <3>1
    <3>3. ~(u < b) /\ u \in Nat /\ t \in Nat
      BY <1>3, <3>2, SizeFacts
    <3>4. t # s /\ t # b
      BY <1>1, <2>1, <3>1, <3>3
    <3>5. dir[t].kind = "end"
      BY <2>1, <3>2, ClaimsAre DEF DirOK
    <3> QED
      BY <1>4, <3>4, <3>5
  <2>2. ASSUME NEW t \in LiveIn(dir'), dir'[t].name \in Long
        PROVE  t - 1 \in Slot /\ dir'[t - 1] = LfnEntry(dir'[t].name)
    <3>1. CASE t = s
      <4>1. s = b + 1 /\ b # s /\ s - 1 = b
        BY <1>1, <1>4, <2>2, <3>1
      <4> QED
        BY <1>1, <1>4, <3>1, <4>1
    <3>2. CASE t # s
      <4>1. t \in LiveIn(dir) /\ dir'[t] = dir[t]
        BY <1>5, <3>2
      <4>2. t - 1 \in Slot /\ dir[t - 1] = LfnEntry(dir[t].name) /\ dir[t].name \in Name
        BY <2>2, <4>1, ClaimsAre, TypesAre, LiveAre DEF DirOK
      <4>3. dir[t - 1].kind = "lfn"
        BY <4>2, EntryIs
      <4>4. t - 1 # s /\ t - 1 # b
        BY <1>3, <4>3
      <4> QED
        BY <1>4, <4>1, <4>2, <4>4
    <3> QED
      BY <3>1, <3>2
  <2>3. ASSUME NEW t \in LiveIn(dir'), NEW u \in LiveIn(dir'), dir'[t].name = dir'[u].name PROVE t = u
    <3>1. CASE t = s \/ u = s
      BY <1>3, <1>4, <1>5, <2>3, <3>1
    <3>2. CASE t # s /\ u # s
      BY <1>5, <2>3, <3>2, ClaimsAre DEF DirOK
    <3> QED
      BY <3>1, <3>2
  <2> QED
    BY <2>1, <2>2, <2>3 DEF DirOK
<1>10. HandlesOK(fat, dir', handles', Idle, spoiled, lost)
  <2> SUFFICES ASSUME NEW g \in Name, handles'[g] # NULL
               PROVE  /\ handles'[g].slot \in LiveIn(dir') /\ dir'[handles'[g].slot].name = g
                      /\ dir'[handles'[g].slot].start = handles'[g].start
                      /\ handles'[g].start \notin lost =>
                           handles'[g].size <= ClusterSize * Cardinality(ChainIn(fat, handles'[g].start))
                      /\ spoiled \/ dir'[handles'[g].slot].size = handles'[g].size
    BY DEF HandlesOK
  <2>1. CASE g = f
    <3>1. handles'[g] = NewHandle
      BY <1>1, <2>1, TypesAre
    <3>2. /\ s \in LiveIn(dir')
          /\ c \notin lost => dir'[s].size <= ClusterSize * Cardinality(ChainIn(fat, dir'[s].start))
      BY <1>4, <1>5, <1>8 DEF ChainsOK, IntactIn
    <3> QED
      BY <1>1, <1>4, <2>1, <3>1, <3>2
  <2>2. CASE g # f
    <3>1. handles'[g] = handles[g]
      BY <1>1, <2>2, TypesAre
    <3>2. /\ handles[g].slot \in LiveIn(dir) /\ dir[handles[g].slot].name = g
          /\ dir[handles[g].slot].start = handles[g].start
          /\ handles[g].start \notin lost =>
               handles[g].size <= ClusterSize * Cardinality(ChainIn(fat, handles[g].start))
          /\ spoiled \/ dir[handles[g].slot].size = handles[g].size
      BY <1>2, <3>1, ClaimsAre DEF HandlesOK
    <3> QED
      BY <1>5, <3>1, <3>2
  <2> QED
    BY <2>1, <2>2
<1>11. ~spoiled => LeaksOK(fat, dir', Idle)
  <2> SUFFICES ASSUME ~spoiled, NEW x \in Cluster, fat[x] # Free
               PROVE  \E t \in LiveIn(dir') : x \in ChainIn(fat, dir'[t].start)
    BY DEF LeaksOK
  <2>1. (\E t \in LiveIn(dir) : x \in ChainIn(fat, dir[t].start)) \/ x = c
    BY <1>2, ClaimsAre DEF LeaksOK, c
  <2>2. c \notin lost
    BY TypesAre DEF HistoryTypes
  <2> QED
    BY <1>4, <1>5, <1>6, <2>1, <2>2
<1> QED
  BY <1>1, <1>8, <1>9, <1>10, <1>11, ClaimsFrom, IdleOK

(* fileWrite changes one.                                                  *)
LEMMA UpdateFiles ==
  ASSUME Types, Claims, Update, ~GiveUp("entry")
  PROVE  LET f == op.name
             h == handles[f]
         IN  /\ f \in Name /\ h \in Handle /\ h.slot \in LiveIn(dir) /\ dir[h.slot].name = f
             /\ dir[h.slot].start = h.start
             /\ LiveIn(dir') = LiveIn(dir) /\ dir'[h.slot] = FileEntry(f, h)
             /\ \A t \in LiveIn(dir) : t # h.slot => dir'[t] = dir[t]
<1> DEFINE f == op.name
           h == handles[f]
<1>1. f \in Name /\ h \in Handle /\ h # NULL /\ dir' = [dir EXCEPT ![h.slot] = FileEntry(f, h)]
  BY UpdateIs, NullFacts
<1>2. h.slot \in LiveIn(dir) /\ dir[h.slot].name = f /\ dir[h.slot].start = h.start
  BY <1>1, ClaimsAre DEF HandlesOK
<1>3. /\ dir'[h.slot] = FileEntry(f, h)
      /\ \A t \in Slot : t # h.slot => dir'[t] = dir[t]
  BY <1>1, <1>2, TypesAre DEF Entries, LiveIn
<1>4. dir'[h.slot].kind = "file"
  BY <1>1, <1>3, EntryIs
<1>5. LiveIn(dir') = LiveIn(dir) /\ \A t \in LiveIn(dir) : t # h.slot => dir'[t] = dir[t]
  BY <1>2, <1>3, <1>4 DEF LiveIn
<1> QED
  BY <1>1, <1>2, <1>3, <1>5

LEMMA UpdateClaims ==
  ASSUME Types, Claims, Update
  PROVE  Claims'
<1> DEFINE f == op.name
           h == handles[f]
           s == h.slot
<1>1. op.pc = "update" /\ f \in Name /\ h \in Handle /\ h # NULL
  BY UpdateIs, NullFacts
<1>2. CASE GiveUp("entry")
  BY <1>2, GiveUpClaims
<1>3. CASE ~GiveUp("entry")
  <2>1. /\ dir' = [dir EXCEPT ![s] = FileEntry(f, h)] /\ op' = Idle
        /\ UNCHANGED <<fat, handles, spoiled, lost>>
    BY <1>3, UpdateIs DEF history
  <2>2. /\ s \in LiveIn(dir) /\ dir[s].name = f /\ dir[s].start = h.start
        /\ h.start \notin lost => h.size <= ClusterSize * Cardinality(ChainIn(fat, h.start))
    BY <1>1, ClaimsAre DEF HandlesOK
  <2>3. s \in Slot /\ dir[s].kind = "file"
    BY <2>2 DEF LiveIn
  <2> HIDE DEF s
  <2>4. /\ dir'[s].kind = "file" /\ dir'[s].name = f /\ dir'[s].start = h.start /\ dir'[s].size = h.size
        /\ \A t \in Slot : t # s => dir'[t] = dir[t]
    <3>1. dir'[s] = FileEntry(f, h) /\ \A t \in Slot : t # s => dir'[t] = dir[t]
      BY <2>1, <2>3, TypesAre DEF Entries
    <3> QED
      BY <1>1, <3>1, EntryIs
  <2> HIDE DEF h
  <2>5. \A t \in Slot : dir'[t].kind = dir[t].kind /\ dir'[t].name = dir[t].name /\ dir'[t].start = dir[t].start
    BY <2>2, <2>3, <2>4
  <2>6. /\ LiveIn(dir') = LiveIn(dir) /\ \A t \in LiveIn(dir) : t \in Slot
        /\ IntactIn(dir', lost) = IntactIn(dir, lost) /\ \A t \in IntactIn(dir, lost) : t \in Slot
    BY <2>5 DEF LiveIn, IntactIn
  <2>7. ChainsOK(fat, dir', lost)
    <3>1. ASSUME NEW t \in IntactIn(dir', lost)
          PROVE  /\ Good(fat, dir'[t].start)
                 /\ dir'[t].size <= ClusterSize * Cardinality(ChainIn(fat, dir'[t].start))
                 /\ ChainIn(fat, dir'[t].start) \cap lost = {}
      <4>1. CASE t = s
        <5>1. h.start \notin lost
          BY <2>4, <4>1 DEF IntactIn
        <5> QED
          BY <2>2, <2>4, <2>6, <4>1, <5>1, ClaimsAre DEF ChainsOK
      <4>2. CASE t # s
        BY <2>4, <2>6, <4>2, ClaimsAre DEF ChainsOK
      <4> QED
        BY <4>1, <4>2
    <3>2. \A t, u \in IntactIn(dir', lost) : t # u => ChainIn(fat, dir'[t].start) \cap ChainIn(fat, dir'[u].start) = {}
      BY <2>5, <2>6, ClaimsAre DEF ChainsOK
    <3> QED
      BY <3>1, <3>2, ClaimsAre DEF ChainsOK
  <2>8. DirOK(dir')
    <3>1. \A t, u \in Slot : u < t /\ dir'[u].kind = "end" => dir'[t].kind = "end"
      BY <2>5, ClaimsAre DEF DirOK
    <3>2. \A t, u \in LiveIn(dir') : dir'[t].name = dir'[u].name => t = u
      BY <2>5, <2>6, ClaimsAre DEF DirOK
    <3>3. ASSUME NEW t \in LiveIn(dir'), dir'[t].name \in Long
          PROVE  t - 1 \in Slot /\ dir'[t - 1] = LfnEntry(dir'[t].name)
      <4>1. t \in LiveIn(dir) /\ dir'[t].name = dir[t].name
        BY <2>5, <2>6
      <4>2. t - 1 \in Slot /\ dir[t - 1] = LfnEntry(dir[t].name) /\ dir[t].name \in Name
        BY <3>3, <4>1, ClaimsAre, TypesAre, LiveAre DEF DirOK
      <4>3. t - 1 # s
        BY <2>3, <4>2, EntryIs
      <4> QED
        BY <2>4, <4>1, <4>2, <4>3
    <3> QED
      BY <3>1, <3>2, <3>3 DEF DirOK
  <2>9. HandlesOK(fat, dir', handles, Idle, spoiled, lost)
    <3> SUFFICES ASSUME NEW g \in Name, handles[g] # NULL
                 PROVE  /\ handles[g].slot \in LiveIn(dir') /\ dir'[handles[g].slot].name = g
                        /\ dir'[handles[g].slot].start = handles[g].start
                        /\ handles[g].start \notin lost =>
                             handles[g].size <= ClusterSize * Cardinality(ChainIn(fat, handles[g].start))
                        /\ spoiled \/ dir'[handles[g].slot].size = handles[g].size
      BY DEF HandlesOK
    <3>1. /\ handles[g].slot \in LiveIn(dir) /\ dir[handles[g].slot].name = g
          /\ dir[handles[g].slot].start = handles[g].start
          /\ handles[g].start \notin lost =>
               handles[g].size <= ClusterSize * Cardinality(ChainIn(fat, handles[g].start))
          /\ spoiled \/ g = f \/ dir[handles[g].slot].size = handles[g].size
      BY <1>1, ClaimsAre DEF HandlesOK
    <3>2. CASE g = f
      <4>1. handles[g] = h /\ handles[g].slot = s
        BY <3>2 DEF h, s
      <4> QED
        BY <2>2, <2>4, <2>6, <3>2, <4>1
    <3>3. CASE g # f
      <4>1. handles[g].slot # s
        BY <2>2, <3>1, <3>3
      <4> QED
        BY <2>4, <2>6, <3>1, <3>3, <4>1
    <3> QED
      BY <3>2, <3>3
  <2>10. ~spoiled => LeaksOK(fat, dir', Idle)
    <3> SUFFICES ASSUME ~spoiled, NEW x \in Cluster, fat[x] # Free
                 PROVE  \E t \in LiveIn(dir') : x \in ChainIn(fat, dir'[t].start)
      BY DEF LeaksOK
    <3> QED
      BY <1>1, <2>5, <2>6, ClaimsAre DEF LeaksOK
  <2> QED
    BY <2>1, <2>7, <2>8, <2>9, <2>10, ClaimsFrom, IdleOK
<1> QED
  BY <1>2, <1>3

(* fileDelete takes one away.                                              *)
LEMMA DeleteFiles ==
  ASSUME Types, Claims, NEW f \in Name, Delete(f), ~GiveUp("entry")
  PROVE  /\ At(f) \in LiveIn(dir) /\ dir[At(f)].name = f
         /\ LiveIn(dir') = LiveIn(dir) \ {At(f)}
         /\ \A t \in LiveIn(dir') : dir'[t] = dir[t] /\ dir[t].name # f
<1> DEFINE s == At(f)
           X == (s - Needed(f) + 1)..s
<1>1. /\ s \in Slot /\ dir[s].kind = "file" /\ dir[s].name = f
      /\ dir' = [t \in Slot |-> IF t \in X THEN Unused ELSE dir[t]]
  BY DeleteIs
<1>2. s \in LiveIn(dir) /\ s \in Nat /\ \A t \in Slot : t \in Nat
  BY <1>1, SizeFacts DEF LiveIn
<1> HIDE DEF s
<1>3. s \in X
  BY <1>2, NeededIs
<1>4. ASSUME NEW t \in X PROVE t = s \/ (f \in Long /\ t = s - 1)
  BY <1>2, NeededIs
<1>5. f \in Long => dir[s - 1].kind = "lfn"
  <2>1. f \in Long => dir[s - 1] = LfnEntry(f)
    BY <1>1, <1>2, ClaimsAre DEF DirOK
  <2> QED
    BY <2>1, EntryIs
<1> HIDE DEF X
<1>6. ASSUME NEW t \in Slot
      PROVE  t \in LiveIn(dir') <=> t \in LiveIn(dir) /\ t # s
  <2>1. CASE t \in X
    <3>1. dir'[t].kind = "free"
      BY <1>1, <2>1, EntryIs
    <3>2. t # s => dir[t].kind = "lfn"
      BY <1>4, <1>5, <2>1
    <3> QED
      BY <3>1, <3>2 DEF LiveIn
  <2>2. CASE t \notin X
    BY <1>1, <1>3, <2>2 DEF LiveIn
  <2> QED
    BY <2>1, <2>2
<1>7. LiveIn(dir') = LiveIn(dir) \ {s}
  BY <1>6 DEF LiveIn
<1>8. ASSUME NEW t \in LiveIn(dir') PROVE dir'[t] = dir[t] /\ dir[t].name # f
  <2>1. t \in Slot /\ dir'[t].kind = "file" /\ t \in LiveIn(dir) /\ t # s
    BY <1>7 DEF LiveIn
  <2>2. t \notin X
    BY <1>1, <2>1, EntryIs
  <2>3. dir[t].name # f
    BY <1>1, <1>2, <2>1, ClaimsAre DEF DirOK
  <2> QED
    BY <1>1, <2>1, <2>2, <2>3
<1> QED
  BY <1>1, <1>2, <1>7, <1>8 DEF s

LEMMA DeleteClaims ==
  ASSUME Types, Claims, NEW f \in Name, Delete(f)
  PROVE  Claims'
<1>1. CASE GiveUp("entry")
  BY <1>1, GiveUpClaims
<1>2. CASE ~GiveUp("entry")
  <2> DEFINE s == At(f)
             X == (s - Needed(f) + 1)..s
             c == dir[s].start
  <2>1. /\ op = Idle /\ handles[f] = NULL /\ s \in Slot /\ dir[s].kind = "file" /\ dir[s].name = f
        /\ dir' = [t \in Slot |-> IF t \in X THEN Unused ELSE dir[t]]
        /\ op'.pc = "unlink" /\ op'.cur = c
        /\ UNCHANGED <<fat, handles, spoiled, lost>>
    BY <1>2, DeleteIs DEF history
  <2>2. s \in LiveIn(dir) /\ s \in Nat
    BY <2>1, SizeFacts DEF LiveIn
  <2> HIDE DEF s, c
  <2>3. \A t \in Slot : t \in X <=> t = s \/ (f \in Long /\ t = s - 1)
    <3>1. \A t \in Slot : t \in Nat
      BY SizeFacts
    <3>2. CASE f \in Long
      <4>1. Needed(f) = 2
        BY <3>2, NeededIs
      <4> QED
        BY <2>2, <3>1, <3>2, <4>1
    <3>3. CASE f \notin Long
      <4>1. Needed(f) = 1
        BY <3>3, NeededIs
      <4> QED
        BY <2>2, <3>1, <3>3, <4>1
    <3> QED
      BY <3>2, <3>3
  <2> HIDE DEF X
  <2>4. f \in Long => s - 1 \in Slot /\ dir[s - 1].kind = "lfn"
    <3>1. f \in Long => s - 1 \in Slot /\ dir[s - 1] = LfnEntry(f)
      BY <2>1, <2>2, ClaimsAre DEF DirOK
    <3> QED
      BY <3>1, EntryIs
  <2>5. \A t \in Slot : t \in X => dir[t].kind \in {"file", "lfn"} /\ dir'[t].kind = "free"
    BY <2>1, <2>3, <2>4, EntryIs
  <2>6. \A t \in Slot : t \notin X => dir'[t] = dir[t]
    BY <2>1
  <2>8. LiveIn(dir') = LiveIn(dir) \ {s} /\ \A t \in LiveIn(dir') : dir'[t] = dir[t] /\ t \in Slot
    BY <1>2, DeleteFiles DEF s, LiveIn
  <2>7. \A t \in IntactIn(dir', lost) : t # s /\ t \in IntactIn(dir, lost) /\ dir'[t] = dir[t]
    BY <2>8 DEF IntactIn
  <2>9. ChainsOK(fat, dir', lost)
    BY <2>7, ClaimsAre DEF ChainsOK
  <2>10. DirOK(dir')
    <3>1. ASSUME NEW t \in Slot, NEW u \in Slot, u < t, dir'[u].kind = "end" PROVE dir'[t].kind = "end"
      <4>1. dir[u].kind = "end"
        BY <2>5, <2>6, <3>1
      <4>2. dir[t].kind = "end"
        BY <3>1, <4>1, ClaimsAre DEF DirOK
      <4> QED
        BY <2>5, <2>6, <4>2
    <3>2. \A t, u \in LiveIn(dir') : dir'[t].name = dir'[u].name => t = u
      BY <2>8, ClaimsAre DEF DirOK
    <3>3. ASSUME NEW t \in LiveIn(dir'), dir'[t].name \in Long
          PROVE  t - 1 \in Slot /\ dir'[t - 1] = LfnEntry(dir'[t].name)
      <4>1. t \in LiveIn(dir) /\ t # s /\ dir'[t] = dir[t] /\ t \in Nat
        BY <2>8, SizeFacts
      <4>2. t - 1 \in Slot /\ dir[t - 1] = LfnEntry(dir[t].name) /\ dir[t].name \in Name
        BY <3>3, <4>1, ClaimsAre, TypesAre, LiveAre DEF DirOK
      <4>3. dir[t - 1].kind = "lfn"
        BY <4>2, EntryIs
      <4>4. t - 1 # s /\ t - 1 # s - 1
        BY <2>1, <2>2, <4>1, <4>3
      <4>5. t - 1 \notin X
        BY <2>3, <4>2, <4>4
      <4> QED
        BY <2>6, <4>1, <4>2, <4>5
    <3> QED
      BY <3>1, <3>2, <3>3 DEF DirOK
  <2>11. HandlesOK(fat, dir', handles, op', spoiled, lost)
    <3> SUFFICES ASSUME NEW g \in Name, handles[g] # NULL
                 PROVE  /\ handles[g].slot \in LiveIn(dir') /\ dir'[handles[g].slot].name = g
                        /\ dir'[handles[g].slot].start = handles[g].start
                        /\ handles[g].start \notin lost =>
                             handles[g].size <= ClusterSize * Cardinality(ChainIn(fat, handles[g].start))
                        /\ spoiled \/ dir'[handles[g].slot].size = handles[g].size
      BY <2>1 DEF HandlesOK
    <3>1. /\ handles[g].slot \in LiveIn(dir) /\ dir[handles[g].slot].name = g
          /\ dir[handles[g].slot].start = handles[g].start
          /\ handles[g].start \notin lost =>
               handles[g].size <= ClusterSize * Cardinality(ChainIn(fat, handles[g].start))
          /\ spoiled \/ dir[handles[g].slot].size = handles[g].size
      BY <2>1, IdleIs, ClaimsAre DEF HandlesOK
    <3>2. handles[g].slot # s
      BY <2>1, <3>1
    <3>3. handles[g].slot \in LiveIn(dir') /\ dir'[handles[g].slot] = dir[handles[g].slot]
      BY <2>8, <3>1, <3>2
    <3> QED
      BY <3>1, <3>3
  <2>12. UnlinkOK(fat, dir', op', lost)
    <3> SUFFICES ASSUME c \notin lost
                 PROVE  /\ Good(fat, c) /\ ChainIn(fat, c) \cap lost = {}
                        /\ \A t \in IntactIn(dir', lost) : ChainIn(fat, dir'[t].start) \cap ChainIn(fat, c) = {}
      BY <2>1 DEF UnlinkOK
    <3>1. s \in IntactIn(dir, lost)
      BY <2>2 DEF IntactIn, c
    <3>2. Good(fat, c) /\ ChainIn(fat, c) \cap lost = {}
      BY <3>1, ClaimsAre DEF ChainsOK, c
    <3>3. \A t \in IntactIn(dir', lost) : ChainIn(fat, dir'[t].start) \cap ChainIn(fat, c) = {}
      BY <2>7, <3>1, ClaimsAre DEF ChainsOK, c
    <3> QED
      BY <3>2, <3>3
  <2>13. MakingOK(fat, dir', op', lost) /\ WritingOK(handles, op')
    BY <2>1 DEF MakingOK, WritingOK
  <2>14. ~spoiled => LeaksOK(fat, dir', op')
    <3> SUFFICES ASSUME ~spoiled, NEW x \in Cluster, fat[x] # Free
                 PROVE  x \in ChainIn(fat, c) \/ \E t \in LiveIn(dir') : x \in ChainIn(fat, dir'[t].start)
      BY <2>1 DEF LeaksOK
    <3>1. PICK t \in LiveIn(dir) : x \in ChainIn(fat, dir[t].start)
      BY <2>1, IdleIs, ClaimsAre DEF LeaksOK
    <3> QED
      BY <2>8, <3>1 DEF c
  <2> QED
    BY <2>1, <2>9, <2>10, <2>11, <2>12, <2>13, <2>14, ClaimsFrom
<1> QED
  BY <1>1, <1>2

-----------------------------------------------------------------------------
(* The loop of fileWrite.                                                  *)

(* A sector's place in the cluster and the bytes of the call add up: when  *)
(* the last byte is written the file ends inside its first cluster.        *)
LEMMA RoundEnds ==
  ASSUME Types, WritingOK(handles, op), op.pc = "sector"
  PROVE  /\ MoreData => (op.sector + 1) * SectorSize + 0 = First(handles[op.name]) + (op.sent + Taken)
         /\ ~MoreData => First(handles[op.name]) + op.len <= ClusterSize
<1> DEFINE h == handles[op.name]
           n == First(h)
           x == op.sector * SectorSize
<1>1. /\ op.sector \in Nat /\ op.sector <= Sectors - 1 /\ op.from \in Nat /\ op.sent \in Nat /\ op.len \in Nat
      /\ h \in Handle /\ SectorSize \in Nat /\ Sectors \in Nat
  BY TypesAre, OpFields, SizeFacts DEF CallTypes
<1>2. n \in Nat
  BY <1>1 DEF First, Handle
<1>3. x + op.from = n + op.sent
  BY DEF WritingOK
<1>4. x \in Nat /\ (op.sector + 1) * SectorSize = x + SectorSize
  BY <1>1
<1>5. x + SectorSize <= ClusterSize
  <2>1. SectorSize * (op.sector + 1) <= SectorSize * Sectors
    BY <1>1, TimesGrows
  <2>2. SectorSize * (op.sector + 1) = (op.sector + 1) * SectorSize /\ SectorSize * Sectors = ClusterSize
    BY <1>1, ConstantFacts
  <2> QED
    BY <1>4, <2>1, <2>2
<1>6. /\ Room = SectorSize - op.from /\ Taken \in Nat /\ Taken <= Room
      /\ MoreData => Taken = Room
      /\ ~MoreData => op.sent + Taken = op.len
  BY TakenIs
<1> HIDE DEF x, n
<1>7. ASSUME MoreData PROVE (op.sector + 1) * SectorSize + 0 = n + (op.sent + Taken)
  <2>1. x \in Nat /\ Taken \in Nat /\ op.from \in Nat /\ op.sent \in Nat /\ SectorSize \in Nat
    BY <1>1, <1>4, <1>6
  <2>2. Taken = SectorSize - op.from
    BY <1>6, <1>7
  <2>3. x + SectorSize = n + (op.sent + Taken)
    BY <1>2, <1>3, <2>1, <2>2
  <2>4. (x + SectorSize) + 0 = x + SectorSize
    BY <2>1
  <2> QED
    BY <1>4, <2>3, <2>4
<1>8. ASSUME ~MoreData PROVE n + op.len <= ClusterSize
  <2>1. ClusterSize \in Nat
    BY SizeFacts
  <2>2. n + op.len = x + op.from + Taken
    BY <1>1, <1>2, <1>3, <1>4, <1>6, <1>8
  <2>3. op.from + Taken <= SectorSize
    BY <1>1, <1>6
  <2> QED
    BY <1>1, <1>4, <1>5, <1>6, <2>1, <2>2, <2>3
<1> QED
  BY <1>7, <1>8 DEF n

LEMMA WriteSectorClaims ==
  ASSUME Types, Claims, WriteSector
  PROVE  Claims'
<1> DEFINE f == op.name
           h == handles[f]
<1>1. /\ op.pc = "sector" /\ f \in Name /\ h \in Handle /\ h # NULL /\ op.mode \in Mode
      /\ UNCHANGED <<fat, dir, spoiled, lost>>
  BY WriteSectorIs, NullFacts DEF history
<1>2. op.cur = h.start /\ op.mode = h.mode /\ WritingOK(handles, op)
  BY <1>1, ClaimsAre DEF WritingOK
<1>3. \A o : ~spoiled => LeaksOK(fat, dir, o)
  BY <1>1, ClaimsAre, LeaksKept
<1>4. CASE op' = Idle /\ UNCHANGED handles
  <2>1. HandlesOK(fat, dir, handles, Idle, spoiled, lost)
    BY <1>1, ClaimsAre DEF HandlesOK
  <2> QED
    BY <1>1, <1>3, <1>4, <2>1, ClaimsAre, ClaimsFrom, IdleOK
<1>5. CASE op'.pc = "sector"
  <2>1. /\ MoreData /\ op'.name = f /\ op'.mode = op.mode /\ op'.sent = op.sent + Taken /\ op'.cur = op.cur
        /\ op'.sector = op.sector + 1 /\ op'.from = 0 /\ UNCHANGED handles
    BY <1>5, WriteSectorIs, IdleIs
  <2>2. WritingOK(handles, op')
    <3>1. (op.sector + 1) * SectorSize + 0 = First(h) + (op.sent + Taken)
      BY <1>1, <1>2, <2>1, RoundEnds
    <3> QED
      BY <1>2, <2>1, <3>1 DEF WritingOK
  <2>3. HandlesOK(fat, dir, handles, op', spoiled, lost)
    BY <1>1, <1>5, ClaimsAre DEF HandlesOK
  <2>4. MakingOK(fat, dir, op', lost) /\ UnlinkOK(fat, dir, op', lost)
    BY <1>5 DEF MakingOK, UnlinkOK
  <2> QED
    BY <1>1, <1>3, <2>1, <2>2, <2>3, <2>4, ClaimsAre, ClaimsFrom
<1>6. CASE op'.pc = "update"
  <2>1. /\ ~MoreData /\ op'.name = f
        /\ handles' = [handles EXCEPT ![f].size = IF op.mode = "write" THEN op.len ELSE @ + op.len]
    BY <1>6, WriteSectorIs, IdleIs
  <2> DEFINE n == IF op.mode = "write" THEN op.len ELSE h.size + op.len
             g == [h EXCEPT !.size = n]
  <2>2. handles' = [handles EXCEPT ![f] = g]
    BY <1>1, <2>1, TypesAre
  <2>3. n = First(h) + op.len /\ n \in Nat
    <3>1. h.size \in Nat /\ op.len \in Nat
      BY <1>1, TypesAre, OpFields DEF Handle
    <3> QED
      BY <1>2, <3>1 DEF First
  <2>4. n <= ClusterSize
    BY <1>1, <1>2, <2>1, <2>3, RoundEnds
  <2> HIDE DEF n
  <2>5. g.slot = h.slot /\ g.start = h.start /\ g.size = n
    BY <1>1 DEF Handle
  <2> HIDE DEF g
  <2>6. /\ h.slot \in LiveIn(dir) /\ dir[h.slot].name = f /\ dir[h.slot].start = h.start
    BY <1>1, ClaimsAre DEF HandlesOK
  <2>7. h.start \notin lost => n <= ClusterSize * Cardinality(ChainIn(fat, h.start))
    <3> SUFFICES ASSUME h.start \notin lost PROVE n <= ClusterSize * Cardinality(ChainIn(fat, h.start))
      OBVIOUS
    <3>1. Good(fat, h.start)
      BY <2>6, ClaimsAre DEF ChainsOK, IntactIn
    <3> DEFINE k == Cardinality(ChainIn(fat, h.start))
    <3>2. k \in Nat \ {0}
      BY <3>1, ChainFirst
    <3> HIDE DEF k
    <3>3. ClusterSize * 1 <= ClusterSize * k /\ ClusterSize * 1 = ClusterSize /\ ClusterSize * k \in Nat
      BY <3>2, SizeFacts, TimesGrows
    <3>4. n <= ClusterSize * k
      BY <2>3, <2>4, <3>3, SizeFacts
    <3> QED
      BY <3>4 DEF k
  <2>8. HandlesOK(fat, dir, handles', op', spoiled, lost)
    <3> SUFFICES ASSUME NEW j \in Name, handles'[j] # NULL
                 PROVE  /\ handles'[j].slot \in LiveIn(dir) /\ dir[handles'[j].slot].name = j
                        /\ dir[handles'[j].slot].start = handles'[j].start
                        /\ handles'[j].start \notin lost =>
                             handles'[j].size <= ClusterSize * Cardinality(ChainIn(fat, handles'[j].start))
                        /\ spoiled \/ j = f \/ dir[handles'[j].slot].size = handles'[j].size
      BY <1>6, <2>1 DEF HandlesOK
    <3>1. CASE j = f
      <4>1. handles'[j] = g
        BY <1>1, <2>2, <3>1, TypesAre
      <4> QED
        BY <2>5, <2>6, <2>7, <3>1, <4>1
    <3>2. CASE j # f
      <4>1. handles'[j] = handles[j]
        BY <2>2, <3>2, TypesAre
      <4> QED
        BY <1>1, <3>2, <4>1, ClaimsAre DEF HandlesOK
    <3> QED
      BY <3>1, <3>2
  <2>9. MakingOK(fat, dir, op', lost) /\ UnlinkOK(fat, dir, op', lost) /\ WritingOK(handles', op')
    BY <1>6 DEF MakingOK, UnlinkOK, WritingOK
  <2> QED
    BY <1>1, <1>3, <2>8, <2>9, ClaimsAre, ClaimsFrom
<1> QED
  BY <1>4, <1>5, <1>6, WriteSectorIs

(* Once nothing is promised any more, nothing will be.                     *)
LEMMA SoundBefore ==
  ASSUME [Next]_vars, Sound'
  PROVE  Sound
<1>1. \A x : defects' = defects \cup {x} => defects' # {}
  OBVIOUS
<1>2. defects' = defects \/ \E x : defects' = defects \cup {x}
  BY Zenon DEF Next, Open, Close, Write, Delete, Allocate, Mark, Pad, Entry, PlaceEntry, Link, SectorStep,
               WriteSector, Update, Unlink, Misread, Crash, GiveUp, Outside, Astray, history, vars
<1> QED
  BY <1>1, <1>2 DEF Sound

LEMMA ClaimsStep ==
  ASSUME FatInv, [Next]_vars, Sound'
  PROVE  Claims'
<1>1. Types
  BY DEF FatInv
<1>2. Sound
  BY SoundBefore
<1>3. Claims
  BY <1>2 DEF FatInv
<1>4. CASE UNCHANGED vars
  BY <1>3, <1>4, ClaimsAre, ClaimsFrom DEF vars, card, history
<1>5. ASSUME NEW f \in Name, NEW mode \in {"write", "append"}, Open(f, mode) PROVE Claims'
  BY <1>1, <1>3, <1>5, OpenClaims DEF Mode
<1>6. ASSUME NEW f \in Name, Close(f) PROVE Claims'
  BY <1>1, <1>3, <1>6, CloseClaims
<1>7. ASSUME NEW f \in Name, NEW len \in Lens, Write(f, len) PROVE Claims'
  BY <1>1, <1>3, <1>7, WriteClaims
<1>8. ASSUME NEW f \in Name, Delete(f) PROVE Claims'
  BY <1>1, <1>3, <1>8, DeleteClaims
<1>9. CASE Allocate
  BY <1>1, <1>3, <1>9, AllocateClaims
<1>10. CASE Mark
  BY <1>1, <1>3, <1>10, MarkClaims
<1>11. CASE Pad
  BY <1>1, <1>3, <1>11, PadClaims
<1>12. CASE Entry
  BY <1>1, <1>3, <1>12, PlaceEntryClaims, GiveUpClaims, OutsideUnsound DEF Entry
<1>13. CASE Link
  BY <1>3, <1>13, ClaimsAre DEF Link, MakingOK
<1>14. CASE SectorStep
  BY <1>1, <1>3, <1>14, WriteSectorClaims, GiveUpClaims, OutsideUnsound DEF SectorStep
<1>15. CASE Update
  BY <1>1, <1>3, <1>15, UpdateClaims
<1>16. CASE Unlink
  BY <1>1, <1>3, <1>16, UnlinkClaims
<1>17. CASE Misread
  BY <1>17, AstrayUnsound DEF Misread
<1>18. CASE Crash
  BY <1>1, <1>3, <1>18, CrashClaims
<1> QED
  BY <1>4, <1>5, <1>6, <1>7, <1>8, <1>9, <1>10, <1>11, <1>12, <1>13, <1>14, <1>15, <1>16, <1>17, <1>18
     DEF Next

LEMMA FatInvHolds == Spec => []FatInv
<1>1. Init => FatInv
  BY InitTypes, InitClaims DEF FatInv
<1>2. FatInv /\ [Next]_vars => FatInv'
  <2> SUFFICES ASSUME FatInv, [Next]_vars PROVE FatInv'
    OBVIOUS
  <2>1. Types'
    BY TypesStep DEF FatInv
  <2>2. Sound' => Claims'
    BY ClaimsStep
  <2> QED
    BY <2>1, <2>2 DEF FatInv
<1> QED
  BY <1>1, <1>2, PTL DEF Spec

(* Wherever the power goes, the chain of every file ends, is long enough   *)
(* for it and is its own; without a failure no cluster is lost.            *)
THEOREM SdFatChains == Spec => []ChainsSound
<1>1. FatInv => ChainsSound
  BY ClaimsSuffice
<1> QED
  BY <1>1, FatInvHolds, PTL

(* fileExists finds every file, by a name no other file has, and with the  *)
(* long name in front of it, through all reuse and filling of slots.       *)
THEOREM SdFatDirectory == Spec => []DirectoryWhole
<1>1. FatInv => DirectoryWhole
  BY ClaimsSuffice
<1> QED
  BY <1>1, FatInvHolds, PTL

(* The structure of an open file, which fileWrite writes over the entry,   *)
(* is a copy of this file's entry and no older one.                        *)
THEOREM SdFatHandles == Spec => []HandlesCurrent
<1>1. FatInv => HandlesCurrent
  BY ClaimsSuffice
<1> QED
  BY <1>1, FatInvHolds, PTL

-----------------------------------------------------------------------------
(* Refinement of FileStore.  The files of a card with the FAT v, the data  *)
(* da and the directory d.                                                 *)

BodyIn(v, da, e) ==
    [k \in 1..e.size |->
        LET c == WalkIn(v, e.start, (k - 1) \div ClusterSize)
        IN  IF c \in Cluster THEN da[c][((k - 1) % ClusterSize) + 1] ELSE Junk]

FindIn(d, f) == {s \in Slot : /\ d[s].kind = "file"
                              /\ d[s].name = f
                              /\ \A t \in 0..(s - 1) : d[t].kind # "end"}

FilesIn(v, da, d, l) ==
    [f \in {g \in Name : FindIn(d, g) # {} /\ Min(FindIn(d, g)) \in IntactIn(d, l)} |->
        BodyIn(v, da, d[Min(FindIn(d, f))])]

NamedIn(d, l) == {d[s].name : s \in IntactIn(d, l)}

Holds(F, v, da, d, l) ==
    /\ F = [f \in NamedIn(d, l) |-> F[f]]
    /\ \A s \in IntactIn(d, l) : F[d[s].name] = BodyIn(v, da, d[s])

LEMMA FilesAre ==
  /\ Files = FilesIn(fat, data, dir, lost)
  /\ Files' = FilesIn(fat', data', dir', lost')
<1>1. Files = FilesIn(fat, data, dir, lost)
  BY WalkIs DEF Files, FilesIn, Exists, At, Find, FindIn, Contents, BodyIn, Intact, IntactIn, Live, LiveIn
<1>2. \A c, n : (Walk(c, n))' = WalkIn(fat', c, n)
  BY DEF Walk, WalkIn
<1>3. Files' = FilesIn(fat', data', dir', lost')
  BY <1>2 DEF Files, FilesIn, Exists, At, Find, FindIn, Contents, BodyIn, Intact, IntactIn, Live, LiveIn
<1> QED
  BY <1>1, <1>3

LEMMA FilesHold ==
  ASSUME NEW v, NEW da, NEW d, NEW l, Entries(d), DirOK(d)
  PROVE  Holds(FilesIn(v, da, d, l), v, da, d, l)
<1>1. ASSUME NEW s \in LiveIn(d) PROVE FindIn(d, d[s].name) = {s} /\ d[s].name \in Name
  <2>1. s \in Slot /\ s \in Nat /\ d[s].kind = "file" /\ d[s].name \in Name
    BY LiveAre
  <2>2. ASSUME NEW t \in 0..(s - 1) PROVE d[t].kind # "end"
    <3>1. t \in Slot /\ t < s
      BY <2>1, SizeFacts
    <3> QED
      BY <2>1, <3>1 DEF DirOK
  <2>3. ASSUME NEW t \in FindIn(d, d[s].name) PROVE t = s
    <3>1. t \in LiveIn(d) /\ d[t].name = d[s].name
      BY DEF FindIn, LiveIn
    <3> QED
      BY <3>1 DEF DirOK
  <2>4. s \in FindIn(d, d[s].name)
    BY <2>1, <2>2 DEF FindIn
  <2> QED
    BY <2>1, <2>3, <2>4
<1>2. ASSUME NEW g, NEW s \in FindIn(d, g) PROVE s \in LiveIn(d) /\ d[s].name = g
  BY DEF FindIn, LiveIn
<1>3. ASSUME NEW s \in LiveIn(d) PROVE Min(FindIn(d, d[s].name)) = s
  <2>1. FindIn(d, d[s].name) = {s} /\ {s} \in SUBSET Nat
    BY <1>1, LiveAre
  <2>2. Min({s}) \in {s}
    BY <2>1, MinIs
  <2> QED
    BY <2>1, <2>2
<1>4. \A s \in IntactIn(d, l) : s \in LiveIn(d)
  BY DEF IntactIn
<1> DEFINE D == {g \in Name : FindIn(d, g) # {} /\ Min(FindIn(d, g)) \in IntactIn(d, l)}
<1>5. ASSUME NEW g \in D PROVE g \in NamedIn(d, l)
  <2>1. PICK s \in FindIn(d, g) : TRUE
    OBVIOUS
  <2>2. s \in LiveIn(d) /\ d[s].name = g
    BY <1>2, <2>1
  <2>3. s \in IntactIn(d, l)
    BY <1>3, <2>2
  <2> QED
    BY <2>2, <2>3 DEF NamedIn
<1>6. ASSUME NEW s \in IntactIn(d, l) PROVE d[s].name \in D
  BY <1>1, <1>3, <1>4
<1>7. D = NamedIn(d, l)
  BY <1>5, <1>6 DEF NamedIn
<1>8. FilesIn(v, da, d, l) = [f \in D |-> BodyIn(v, da, d[Min(FindIn(d, f))])]
  BY DEF FilesIn
<1> HIDE DEF D
<1>9. ASSUME NEW s \in IntactIn(d, l) PROVE FilesIn(v, da, d, l)[d[s].name] = BodyIn(v, da, d[s])
  BY <1>3, <1>4, <1>6, <1>8
<1> QED
  BY <1>7, <1>8, <1>9 DEF Holds

LEMMA HoldsSame ==
  ASSUME NEW F, NEW v, NEW da, NEW d, NEW l, Holds(F, v, da, d, l),
         NEW G, NEW u, NEW db, NEW e, NEW m, Holds(G, u, db, e, m),
         IntactIn(e, m) = IntactIn(d, l),
         \A s \in IntactIn(d, l) : e[s].name = d[s].name /\ BodyIn(u, db, e[s]) = BodyIn(v, da, d[s])
  PROVE  G = F
<1>1. NamedIn(e, m) = NamedIn(d, l)
  BY DEF NamedIn
<1>2. ASSUME NEW f \in NamedIn(d, l) PROVE G[f] = F[f]
  <2>1. PICK s \in IntactIn(d, l) : d[s].name = f
    BY DEF NamedIn
  <2> QED
    BY <2>1 DEF Holds
<1> QED
  BY <1>1, <1>2 DEF Holds

(* The clusters a walk along a chain comes to; the first one only once.    *)
LEMMA WalkStays ==
  ASSUME NEW v, NEW c, Good(v, c), NEW n \in Nat
  PROVE  /\ WalkIn(v, c, n) \in Cluster => WalkIn(v, c, n) \in ChainIn(v, c)
         /\ WalkIn(v, c, n) = c <=> n = 0
         /\ \A u : (\A x \in ChainIn(v, c) : u[x] = v[x]) => WalkIn(u, c, n) = WalkIn(v, c, n)
<1>1. PICK p : Path(v, p, c)
  BY DEF Good
<1>2. WalkIn(v, c, n) = IF n < Len(p) THEN p[n + 1] ELSE Eoc
  BY <1>1, WalkOnPath
<1>3. ChainIn(v, c) = {p[i] : i \in 1..Len(p)}
  BY <1>1, ChainIs
<1>4. /\ Len(p) \in Nat /\ Len(p) >= 1 /\ p[1] = c /\ c \in Cluster
      /\ \A i, j \in 1..Len(p) : p[i] = p[j] => i = j
  BY <1>1, PathFacts
<1>5. n < Len(p) => n + 1 \in 1..Len(p)
  BY <1>4
<1>6. WalkIn(v, c, n) \in Cluster => WalkIn(v, c, n) \in ChainIn(v, c)
  BY <1>2, <1>3, <1>5, Volume
<1>7. WalkIn(v, c, n) = c <=> n = 0
  <2>1. 1 \in 1..Len(p)
    BY <1>4
  <2>2. n + 1 = 1 <=> n = 0
    OBVIOUS
  <2> QED
    BY <1>2, <1>4, <1>5, <2>1, <2>2, Volume
<1>8. ASSUME NEW u, \A x \in ChainIn(v, c) : u[x] = v[x] PROVE WalkIn(u, c, n) = WalkIn(v, c, n)
  <2>1. Path(u, p, c)
    BY <1>1, <1>3, <1>8 DEF Path
  <2> QED
    BY <1>2, <2>1, WalkOnPath
<1> QED
  BY <1>6, <1>7, <1>8

(* What a file holds depends on its own clusters only.                     *)
LEMMA BodyKept ==
  ASSUME NEW v, NEW da, NEW e, Good(v, e.start), e.size \in Nat, NEW u, NEW db,
         \A x \in ChainIn(v, e.start) : u[x] = v[x] /\ db[x] = da[x]
  PROVE  BodyIn(u, db, e) = BodyIn(v, da, e)
<1> DEFINE at(w, k) == WalkIn(w, e.start, (k - 1) \div ClusterSize)
           byte(w, x, k) == IF at(w, k) \in Cluster THEN x[at(w, k)][((k - 1) % ClusterSize) + 1] ELSE Junk
<1>1. ASSUME NEW k \in 1..e.size PROVE byte(u, db, k) = byte(v, da, k)
  <2>1. (k - 1) \div ClusterSize \in Nat
    <3>1. k - 1 \in Nat
      OBVIOUS
    <3> QED
      BY <3>1, SizeFacts, DivMod
  <2>2. at(u, k) = at(v, k) /\ (at(v, k) \in Cluster => at(v, k) \in ChainIn(v, e.start))
    BY <2>1, WalkStays
  <2> QED
    BY <2>2
<1>2. BodyIn(u, db, e) = [k \in 1..e.size |-> byte(u, db, k)] /\ BodyIn(v, da, e) = [k \in 1..e.size |-> byte(v, da, k)]
  BY DEF BodyIn
<1> HIDE DEF byte
<1> QED
  BY <1>1, <1>2

-----------------------------------------------------------------------------
(* What has been written.  Bytes a + 1 to b of a row are whole calls.      *)

WholeIn(row, a, b) ==
    \A k \in (a + 1)..b :
        /\ row[k].pos = 1 \/ (k > a + 1 /\ row[k - 1] = [row[k] EXCEPT !.pos = @ - 1])
        /\ row[k].pos = row[k].len \/ (k < b /\ row[k + 1] = [row[k] EXCEPT !.pos = @ + 1])

(* The size in the structure of a file that is appended to may be ahead of *)
(* the size in its entry e, by whole calls in the file's first cluster.    *)
AheadOK(e, g, da) ==
    g.mode = "append" =>
        /\ e.size <= g.size
        /\ e.size < g.size => g.size <= ClusterSize /\ WholeIn(da[g.start], e.size, g.size)
AppendOK(d, h, da, l) ==
    \A f \in Name : h[f] # NULL /\ h[f].start \notin l => AheadOK(d[h[f].slot], h[f], da)

(* The first bytes of the call are in the file's cluster, in the end all.  *)
SentOK(h, o, da, w, l) ==
    o.pc = "sector" /\ o.len # 0 /\ o.cur \notin l =>
        \A k \in 1..o.sent : da[o.cur][First(h[o.name]) + k] = Bytes(w, o.len)[k]
UpdateOK(h, o, da, w, l) ==
    o.pc = "update" =>
        /\ o.mode = h[o.name].mode
        /\ o.mode = "write" /\ h[o.name].start \notin l =>
              /\ h[o.name].size = o.len /\ o.len <= ClusterSize
              /\ \A k \in 1..o.len : da[h[o.name].start][k] = Bytes(w, o.len)[k]

(* All this of files whose mark is not lost.                               *)
Written ==
    /\ AppendOK(dir, handles, data, lost)
    /\ SentOK(handles, op, data, writes, lost)
    /\ UpdateOK(handles, op, data, writes, lost)

StoreInv == FatInv /\ (Sound => Written)

LEMMA WrittenFrom ==
  ASSUME AppendOK(dir', handles', data', lost'), SentOK(handles', op', data', writes', lost'),
         UpdateOK(handles', op', data', writes', lost')
  PROVE  Written'
BY DEF Written

LEMMA NotWriting ==
  ASSUME NEW o, o.pc \notin {"sector", "update"}, NEW h, NEW da, NEW w, NEW l
  PROVE  SentOK(h, o, da, w, l) /\ UpdateOK(h, o, da, w, l)
BY DEF SentOK, UpdateOK

LEMMA AppendKept ==
  ASSUME NEW d, NEW h, NEW da, NEW l, AppendOK(d, h, da, l), NEW e,
         \A f \in Name : h[f] # NULL => e[h[f].slot] = d[h[f].slot],
         NEW m, l \subseteq m
  PROVE  AppendOK(e, h, da, m)
BY DEF AppendOK

(* A call's bytes behind whole calls are whole calls.                      *)
LEMMA WholeJoins ==
  ASSUME NEW row, NEW a \in Nat, NEW b \in Nat, a <= b, WholeIn(row, a, b),
         NEW w, NEW n \in Nat, \A k \in 1..n : row[b + k] = Bytes(w, n)[k]
  PROVE  WholeIn(row, a, b + n)
<1> SUFFICES ASSUME NEW k \in (a + 1)..(b + n)
             PROVE  /\ row[k].pos = 1 \/ (k > a + 1 /\ row[k - 1] = [row[k] EXCEPT !.pos = @ - 1])
                    /\ row[k].pos = row[k].len \/ (k < b + n /\ row[k + 1] = [row[k] EXCEPT !.pos = @ + 1])
  BY DEF WholeIn
<1>1. CASE k <= b
  <2>1. k \in (a + 1)..b /\ (k < b => k < b + n)
    BY <1>1
  <2>2. /\ row[k].pos = 1 \/ (k > a + 1 /\ row[k - 1] = [row[k] EXCEPT !.pos = @ - 1])
        /\ row[k].pos = row[k].len \/ (k < b /\ row[k + 1] = [row[k] EXCEPT !.pos = @ + 1])
    BY <2>1 DEF WholeIn
  <2> QED
    BY <2>1, <2>2
<1>2. CASE ~(k <= b)
  <2> DEFINE byte(j) == [call |-> w, pos |-> j, len |-> n]
  <2>1. \A j \in 1..n : row[b + j] = byte(j)
    BY DEF Bytes
  <2>2. k - b \in 1..n /\ b + (k - b) = k /\ (k - b) - 1 \in Nat /\ (k - b) + 1 \in Nat
    BY <1>2
  <2>3. row[k] = byte(k - b)
    BY <2>1, <2>2
  <2>4. row[k].pos = k - b /\ row[k].len = n
    BY <2>3
  <2>5. ASSUME k - b # 1 PROVE k > a + 1 /\ row[k - 1] = [row[k] EXCEPT !.pos = @ - 1]
    <3>1. k - b - 1 \in 1..n /\ b + (k - b - 1) = k - 1 /\ k > a + 1
      BY <1>2, <2>5
    <3>2. row[k - 1] = byte(k - b - 1)
      BY <2>1, <3>1
    <3>3. [byte(k - b) EXCEPT !.pos = @ - 1] = byte(k - b - 1)
      OBVIOUS
    <3> QED
      BY <2>3, <3>1, <3>2, <3>3
  <2>6. ASSUME k - b # n PROVE k < b + n /\ row[k + 1] = [row[k] EXCEPT !.pos = @ + 1]
    <3>1. k - b + 1 \in 1..n /\ b + (k - b + 1) = k + 1 /\ k < b + n
      BY <1>2, <2>6
    <3>2. row[k + 1] = byte(k - b + 1)
      BY <2>1, <3>1
    <3>3. [byte(k - b) EXCEPT !.pos = @ + 1] = byte(k - b + 1)
      OBVIOUS
    <3> QED
      BY <2>3, <3>1, <3>2, <3>3
  <2> HIDE DEF byte
  <2> QED
    BY <2>4, <2>5, <2>6
<1> QED
  BY <1>1, <1>2

LEMMA WholeSame ==
  ASSUME NEW row, NEW a \in Nat, NEW b \in Nat, WholeIn(row, a, b),
         NEW new, \A k \in 1..b : new[k] = row[k]
  PROVE  WholeIn(new, a, b)
<1> SUFFICES ASSUME NEW k \in (a + 1)..b
             PROVE  /\ new[k].pos = 1 \/ (k > a + 1 /\ new[k - 1] = [new[k] EXCEPT !.pos = @ - 1])
                    /\ new[k].pos = new[k].len \/ (k < b /\ new[k + 1] = [new[k] EXCEPT !.pos = @ + 1])
  BY DEF WholeIn
<1>1. k \in 1..b /\ (k > a + 1 => k - 1 \in 1..b) /\ (k < b => k + 1 \in 1..b)
  OBVIOUS
<1>2. /\ row[k].pos = 1 \/ (k > a + 1 /\ row[k - 1] = [row[k] EXCEPT !.pos = @ - 1])
      /\ row[k].pos = row[k].len \/ (k < b /\ row[k + 1] = [row[k] EXCEPT !.pos = @ + 1])
  BY DEF WholeIn
<1> QED
  BY <1>1, <1>2

(* The sector that is written: what is in front of the call's next byte    *)
(* stays, and the bytes it takes follow.                                   *)
LEMMA SectorHolds ==
  ASSUME Types, WritingOK(handles, op), op.pc = "sector", NEW c \in Cluster
  PROVE  LET n == First(handles[op.name])
         IN  /\ n \in Nat /\ op.sent \in Nat /\ Taken \in Nat
             /\ n + op.sent + Taken <= ClusterSize
             /\ \A k \in 1..ClusterSize : k <= n + op.sent => SectorData(c)[k] = data[c][k]
             /\ op.len # 0 => \A k \in 1..Taken : SectorData(c)[n + op.sent + k] = Bytes(writes, op.len)[op.sent + k]
<1> DEFINE h == handles[op.name]
           n == First(h)
           x == op.sector * SectorSize
           val(k) == IF k - x \notin 1..SectorSize THEN data[c][k]
                     ELSE IF k - x > op.from /\ k - x <= op.from + Taken
                          THEN IF op.len = 0 THEN Junk ELSE Bytes(writes, op.len)[op.sent + (k - x) - op.from]
                     ELSE IF op.from # 0 THEN data[c][k] ELSE Junk
<1>1. /\ op.sector \in Nat /\ op.sector <= Sectors - 1 /\ op.from \in Nat /\ op.sent \in Nat /\ op.len \in Nat
      /\ h \in Handle /\ SectorSize \in Nat /\ Sectors \in Nat /\ ClusterSize \in Nat
  BY TypesAre, OpFields, SizeFacts DEF CallTypes
<1>2. n \in Nat
  BY <1>1 DEF First, Handle
<1>3. x + op.from = n + op.sent
  BY DEF WritingOK
<1>4. x \in Nat /\ x + SectorSize <= ClusterSize
  <2>1. SectorSize * (op.sector + 1) <= SectorSize * Sectors
    BY <1>1, TimesGrows
  <2>2. SectorSize * (op.sector + 1) = x + SectorSize /\ SectorSize * Sectors = ClusterSize /\ x \in Nat
    BY <1>1, ConstantFacts
  <2> QED
    BY <2>1, <2>2
<1>5. Taken \in Nat /\ op.from + Taken <= SectorSize
  <2>1. Room = SectorSize - op.from /\ Taken \in Nat /\ Taken <= Room
    BY TakenIs
  <2> QED
    BY <1>1, <2>1
<1>6. \A k \in 1..ClusterSize : SectorData(c)[k] = val(k)
  BY DEF SectorData
<1> HIDE DEF x, n, h
<1>7. n + op.sent + Taken <= ClusterSize
  BY <1>1, <1>2, <1>3, <1>4, <1>5
<1>8. ASSUME NEW k \in 1..ClusterSize, k <= n + op.sent PROVE SectorData(c)[k] = data[c][k]
  <2>1. k - x <= op.from
    BY <1>1, <1>2, <1>3, <1>4, <1>8
  <2>2. k - x \in 1..SectorSize => op.from # 0
    BY <1>1, <1>4, <2>1
  <2>3. ~(k - x > op.from)
    BY <1>1, <1>4, <2>1
  <2> QED
    BY <1>6, <2>2, <2>3
<1>9. ASSUME op.len # 0, NEW k \in 1..Taken
      PROVE  SectorData(c)[n + op.sent + k] = Bytes(writes, op.len)[op.sent + k]
  <2> DEFINE j == n + op.sent + k
  <2>1. j \in 1..ClusterSize /\ j - x = op.from + k /\ j - x \in 1..SectorSize
    BY <1>1, <1>2, <1>3, <1>4, <1>5
  <2>2. j - x > op.from /\ j - x <= op.from + Taken /\ op.sent + (j - x) - op.from = op.sent + k
    BY <1>1, <1>5, <2>1
  <2> HIDE DEF j
  <2>3. SectorData(c)[j] = Bytes(writes, op.len)[op.sent + k]
    BY <1>6, <1>9, <2>1, <2>2
  <2> QED
    BY <2>3 DEF j
<1> QED
  BY <1>1, <1>2, <1>5, <1>7, <1>8, <1>9 DEF n, h

(* Open files have their clusters apart.                                   *)
LEMMA HandleIs ==
  ASSUME Types, Claims, NEW f \in Name, handles[f] # NULL
  PROVE  /\ handles[f] \in Handle /\ handles[f].slot \in LiveIn(dir) /\ dir[handles[f].slot].name = f
         /\ dir[handles[f].slot].start = handles[f].start /\ handles[f].start \in Cluster
         /\ dir[handles[f].slot].size \in Nat /\ handles[f].size \in Nat
         /\ \A s \in LiveIn(dir) : s # handles[f].slot => dir[s].name # f
         /\ \A s \in IntactIn(dir, lost) : s # handles[f].slot => handles[f].start \notin ChainIn(fat, dir[s].start)
         /\ \A g \in Name : g # f /\ handles[g] # NULL /\ handles[g].start \notin lost =>
              handles[g].start # handles[f].start
<1> DEFINE h == handles[f]
<1>1. /\ h \in Handle /\ h.slot \in LiveIn(dir) /\ dir[h.slot].name = f
      /\ dir[h.slot].start = h.start
  BY TypesAre, ClaimsAre DEF HandlesOK
<1>2. h.start \in Cluster /\ dir[h.slot].size \in Nat /\ h.size \in Nat
  BY <1>1, TypesAre, LiveAre, EntryIs
<1>3. \A s \in IntactIn(dir, lost) :
        /\ Good(fat, dir[s].start) /\ dir[s].start \in ChainIn(fat, dir[s].start)
        /\ ChainIn(fat, dir[s].start) \cap lost = {} /\ s \in LiveIn(dir)
  BY ClaimsAre, ChainFirst DEF ChainsOK, IntactIn
<1>4. ASSUME NEW s \in LiveIn(dir), s # h.slot PROVE dir[s].name # f
  BY <1>1, <1>4, ClaimsAre DEF DirOK
<1>5. ASSUME NEW s \in IntactIn(dir, lost), s # h.slot PROVE h.start \notin ChainIn(fat, dir[s].start)
  <2>1. CASE h.start \in lost
    BY <1>3, <2>1
  <2>2. CASE h.start \notin lost
    <3>1. h.slot \in IntactIn(dir, lost)
      BY <1>1, <2>2 DEF IntactIn
    <3>2. ChainIn(fat, dir[s].start) \cap ChainIn(fat, dir[h.slot].start) = {}
      BY <1>5, <3>1, ClaimsAre DEF ChainsOK
    <3> QED
      BY <1>1, <1>3, <3>1, <3>2
  <2> QED
    BY <2>1, <2>2
<1>6. ASSUME NEW g \in Name, g # f, handles[g] # NULL, handles[g].start \notin lost
      PROVE  handles[g].start # h.start
  <2>1. handles[g].slot \in LiveIn(dir) /\ dir[handles[g].slot].name = g
        /\ dir[handles[g].slot].start = handles[g].start
    BY <1>6, ClaimsAre DEF HandlesOK
  <2>2. handles[g].slot # h.slot /\ handles[g].slot \in IntactIn(dir, lost)
    BY <1>1, <1>6, <2>1 DEF IntactIn
  <2> QED
    BY <1>3, <1>5, <2>1, <2>2
<1> QED
  BY <1>1, <1>2, <1>4, <1>5, <1>6

(* One round of fileWrite's loop: the row of the file's first cluster.     *)
LEMMA RowWritten ==
  ASSUME Types, Claims, Written, WriteSector
  PROVE  LET f == op.name
             h == handles[f]
             n == First(h)
             c == h.start
         IN  /\ f \in Name /\ h \in Handle /\ h # NULL /\ c \in Cluster /\ op.pc = "sector" /\ n \in Nat
             /\ op.cur = c /\ op.mode = h.mode
             /\ \A d \in Cluster : d # c => data'[d] = data[d]
             /\ \A k \in 1..n : k <= ClusterSize => data'[c][k] = data[c][k]
             /\ op.len # 0 /\ c \notin lost => \A k \in 1..(op.sent + Taken) : data'[c][n + k] = Bytes(writes, op.len)[k]
             /\ UNCHANGED <<writes, lost>>
<1> DEFINE f == op.name
           h == handles[f]
           n == First(h)
           c == h.start
<1>1. /\ op.pc = "sector" /\ f \in Name /\ h \in Handle /\ h # NULL
      /\ UNCHANGED <<writes, lost>>
  BY WriteSectorIs, NullFacts DEF history
<1>2. op.cur = c /\ op.mode = h.mode
  BY <1>1, ClaimsAre DEF WritingOK
<1>3. c \in Cluster /\ data' = [data EXCEPT ![c] = SectorData(c)]
  BY <1>2 DEF WriteSector
<1>4. data'[c] = SectorData(c) /\ \A d \in Cluster : d # c => data'[d] = data[d]
  BY <1>3, TypesAre
<1> HIDE DEF c
<1>5. /\ n \in Nat /\ op.sent \in Nat /\ Taken \in Nat /\ ClusterSize \in Nat
      /\ n + op.sent + Taken <= ClusterSize
      /\ \A k \in 1..ClusterSize : k <= n + op.sent => SectorData(c)[k] = data[c][k]
      /\ op.len # 0 => \A k \in 1..Taken : SectorData(c)[n + op.sent + k] = Bytes(writes, op.len)[op.sent + k]
  BY <1>1, <1>3, ClaimsAre, SectorHolds, SizeFacts
<1>6. op.len # 0 /\ c \notin lost => \A k \in 1..op.sent : data[c][n + k] = Bytes(writes, op.len)[k]
  BY <1>1, <1>2 DEF Written, SentOK
<1> HIDE DEF n, f, h
<1>7. ASSUME NEW k \in 1..n, k <= ClusterSize PROVE data'[c][k] = data[c][k]
  <2>1. k \in 1..ClusterSize /\ k <= n + op.sent
    BY <1>5, <1>7
  <2> QED
    BY <1>4, <1>5, <2>1
<1>8. ASSUME op.len # 0, c \notin lost, NEW k \in 1..(op.sent + Taken)
      PROVE  data'[c][n + k] = Bytes(writes, op.len)[k]
  <2>1. CASE k <= op.sent
    <3>1. k \in 1..op.sent /\ n + k \in 1..ClusterSize /\ n + k <= n + op.sent
      BY <1>5, <2>1
    <3>2. SectorData(c)[n + k] = data[c][n + k]
      BY <1>5, <3>1
    <3> QED
      BY <1>4, <1>6, <1>8, <3>1, <3>2
  <2>2. CASE ~(k <= op.sent)
    <3> DEFINE j == k - op.sent
    <3>1. j \in 1..Taken /\ n + op.sent + j = n + k /\ op.sent + j = k
      BY <1>5, <2>2
    <3> HIDE DEF j
    <3>2. SectorData(c)[n + op.sent + j] = Bytes(writes, op.len)[op.sent + j]
      BY <1>5, <1>8, <3>1
    <3> QED
      BY <1>4, <3>1, <3>2
  <2> QED
    BY <2>1, <2>2
<1> QED
  BY <1>1, <1>2, <1>3, <1>4, <1>5, <1>7, <1>8 DEF c, n, h, f

LEMMA WriteSectorWritten ==
  ASSUME Types, Claims, Written, WriteSector
  PROVE  Written'
<1> DEFINE f == op.name
           h == handles[f]
           n == First(h)
           c == h.start
           e == dir[h.slot]
<1>1. /\ f \in Name /\ h \in Handle /\ h # NULL /\ c \in Cluster /\ op.pc = "sector" /\ n \in Nat
      /\ op.cur = c /\ op.mode = h.mode
      /\ \A d \in Cluster : d # c => data'[d] = data[d]
      /\ \A k \in 1..n : k <= ClusterSize => data'[c][k] = data[c][k]
      /\ op.len # 0 /\ c \notin lost => \A k \in 1..(op.sent + Taken) : data'[c][n + k] = Bytes(writes, op.len)[k]
      /\ UNCHANGED <<writes, dir, lost>>
  BY RowWritten DEF WriteSector
<1>2. h.size \in Nat /\ e.size \in Nat /\ ClusterSize \in Nat
  BY <1>1, HandleIs, SizeFacts
<1>3. ASSUME NEW g \in Name, g # f, handles[g] # NULL, handles[g].start \notin lost
      PROVE  AheadOK(dir[handles[g].slot], handles[g], data')
  <2>1. handles[g].start \in Cluster /\ handles[g].start # c
    BY <1>1, <1>3, HandleIs
  <2>2. AheadOK(dir[handles[g].slot], handles[g], data)
    BY <1>3 DEF Written, AppendOK
  <2> QED
    BY <1>1, <2>1, <2>2 DEF AheadOK
<1>4. ASSUME h.mode = "append", c \notin lost
      PROVE  /\ n = h.size /\ e.size <= h.size
             /\ e.size < h.size => h.size <= ClusterSize /\ WholeIn(data'[c], e.size, h.size)
  <2>1. n = h.size
    BY <1>4 DEF First
  <2>2. AheadOK(e, h, data)
    BY <1>1, <1>4 DEF Written, AppendOK
  <2>3. ASSUME e.size < h.size PROVE h.size <= ClusterSize /\ WholeIn(data'[c], e.size, h.size)
    <3>1. h.size <= ClusterSize /\ WholeIn(data[c], e.size, h.size)
      BY <1>4, <2>2, <2>3 DEF AheadOK
    <3>2. \A k \in 1..h.size : k <= ClusterSize
      BY <1>2, <3>1
    <3>3. \A k \in 1..h.size : data'[c][k] = data[c][k]
      BY <1>1, <2>1, <3>2
    <3> QED
      BY <1>2, <3>1, <3>3, WholeSame
  <2> QED
    BY <1>4, <2>1, <2>2, <2>3 DEF AheadOK
<1>5. AppendOK(dir, handles, data', lost)
  <2>1. c \notin lost => AheadOK(e, h, data')
    BY <1>4 DEF AheadOK
  <2> QED
    BY <1>3, <2>1 DEF AppendOK
<1>6. CASE op' = Idle /\ UNCHANGED handles
  BY <1>1, <1>5, <1>6, IdleIs, NotWriting, WrittenFrom
<1>7. CASE op'.pc = "sector"
  <2>1. op'.name = f /\ op'.cur = c /\ op'.len = op.len /\ op'.sent = op.sent + Taken /\ UNCHANGED handles
    BY <1>1, <1>7, WriteSectorIs, IdleIs
  <2>2. SentOK(handles, op', data', writes, lost)
    BY <1>1, <2>1 DEF SentOK
  <2>3. UpdateOK(handles, op', data', writes, lost)
    BY <1>7 DEF UpdateOK
  <2> QED
    BY <1>1, <1>5, <2>1, <2>2, <2>3, WrittenFrom
<1>8. CASE op'.pc = "update"
  <2>1. /\ ~MoreData /\ op'.name = f /\ op'.mode = op.mode /\ op'.len = op.len
        /\ handles' = [handles EXCEPT ![f].size = IF op.mode = "write" THEN op.len ELSE @ + op.len]
    BY <1>8, WriteSectorIs, IdleIs
  <2> DEFINE g == [h EXCEPT !.size = IF op.mode = "write" THEN op.len ELSE h.size + op.len]
  <2>2. handles'[f] = g /\ \A j \in Name : j # f => handles'[j] = handles[j]
    BY <1>1, <2>1, TypesAre
  <2>3. /\ g.slot = h.slot /\ g.start = c /\ g.mode = h.mode
        /\ g.size = IF h.mode = "write" THEN op.len ELSE h.size + op.len
    BY <1>1 DEF Handle
  <2> HIDE DEF g
  <2>4. op.len \in Nat /\ op.len # 0 /\ op.sent + Taken = op.len
    BY <2>1, TakenIs, TypesAre, OpFields
  <2>5. n + op.len <= ClusterSize
    BY <1>1, <2>1, ClaimsAre, RoundEnds
  <2>6. c \notin lost => \A k \in 1..op.len : data'[c][n + k] = Bytes(writes, op.len)[k]
    BY <1>1, <2>4
  <2> HIDE DEF h, n, c, e
  <2>7. ASSUME c \notin lost PROVE AheadOK(e, g, data')
    <3> SUFFICES ASSUME g.mode = "append"
                 PROVE  /\ e.size <= g.size
                        /\ g.size <= ClusterSize /\ WholeIn(data'[c], e.size, g.size)
      BY <2>3 DEF AheadOK
    <3>1. /\ n = h.size /\ e.size <= h.size /\ g.size = h.size + op.len
          /\ e.size < h.size => WholeIn(data'[c], e.size, h.size)
      BY <1>4, <2>3, <2>7
    <3>2. WholeIn(data'[c], e.size, h.size)
      <4>1. CASE e.size = h.size
        <5>1. (e.size + 1)..h.size = {}
          BY <1>2, <4>1
        <5> QED
          BY <5>1 DEF WholeIn
      <4>2. CASE e.size # h.size
        BY <1>2, <3>1, <4>2
      <4> QED
        BY <4>1, <4>2
    <3>3. WholeIn(data'[c], e.size, h.size + op.len)
      BY <1>2, <2>4, <2>6, <2>7, <3>1, <3>2, WholeJoins
    <3> QED
      BY <1>2, <2>4, <2>5, <3>1, <3>3
  <2>8. AppendOK(dir, handles', data', lost)
    BY <1>1, <1>3, <2>2, <2>3, <2>7 DEF AppendOK, e
  <2>9. UpdateOK(handles', op', data', writes, lost)
    <3>1. op'.mode = "write" => n = 0 /\ g.size = op.len
      BY <1>1, <2>1, <2>3 DEF First, h, n
    <3>2. \A k \in 1..op.len : 0 + k = k
      BY <2>4
    <3>3. op'.mode = "write" /\ c \notin lost =>
            op.len <= ClusterSize /\ \A k \in 1..op.len : data'[c][k] = Bytes(writes, op.len)[k]
      BY <2>4, <2>5, <2>6, <3>1, <3>2
    <3>4. handles'[op'.name] = g /\ op'.mode = g.mode
      BY <1>1, <2>1, <2>2, <2>3
    <3>5. op'.mode = "write" /\ g.start \notin lost =>
            g.size = op'.len /\ op'.len <= ClusterSize
            /\ \A k \in 1..op'.len : data'[g.start][k] = Bytes(writes, op'.len)[k]
      BY <2>1, <2>3, <3>1, <3>3
    <3> QED
      BY <3>4, <3>5 DEF UpdateOK
  <2>10. SentOK(handles', op', data', writes, lost)
    BY <1>8 DEF SentOK
  <2> QED
    BY <1>1, <2>8, <2>9, <2>10, WrittenFrom
<1> QED
  BY <1>6, <1>7, <1>8, WriteSectorIs

LEMMA InitWritten ==
  ASSUME Init
  PROVE  Written
<1>1. op = Idle /\ \A f \in Name : handles[f] = NULL
  BY InitIs
<1> QED
  BY <1>1, IdleIs, NotWriting DEF Written, AppendOK

LEMMA WrittenKept ==
  ASSUME Written, op'.pc \notin {"sector", "update"}, UNCHANGED <<handles, data>>, lost \subseteq lost',
         \A f \in Name : handles[f] # NULL => dir'[handles[f].slot] = dir[handles[f].slot]
  PROVE  Written'
<1>1. AppendOK(dir', handles, data, lost')
  BY AppendKept DEF Written
<1> QED
  BY <1>1, NotWriting, WrittenFrom

LEMMA GiveUpWritten ==
  ASSUME Written, NEW sector, GiveUp(sector)
  PROVE  Written'
BY WrittenKept, IdleIs DEF GiveUp, card

LEMMA CrashWritten ==
  ASSUME Crash
  PROVE  Written'
<1>1. op' = Idle /\ \A f \in Name : handles'[f] = NULL
  BY DEF Crash
<1>2. AppendOK(dir', handles', data', lost')
  BY <1>1 DEF AppendOK
<1> QED
  BY <1>1, <1>2, IdleIs, NotWriting, WrittenFrom

LEMMA OpenWritten ==
  ASSUME Types, Written, NEW f \in Name, NEW mode \in Mode, Open(f, mode)
  PROVE  Written'
<1>1. op = Idle /\ UNCHANGED <<dir, data, lost>>
  BY DEF Open, card, history
<1>2. CASE Exists(f)
  <2> DEFINE e == dir[At(f)]
             h == [slot |-> At(f), start |-> e.start, size |-> e.size, mode |-> mode]
  <2>1. op' = Idle /\ handles' = [handles EXCEPT ![f] = h]
    BY <1>1, <1>2 DEF Open
  <2>2. At(f) \in Slot /\ e.size \in Nat
    BY <1>2, AtIs, TypesAre, EntryFields
  <2>3. AheadOK(dir[h.slot], h, data)
    BY <2>2 DEF AheadOK
  <2>4. handles'[f] = h /\ \A g \in Name : g # f => handles'[g] = handles[g]
    BY <2>1, TypesAre
  <2> HIDE DEF h
  <2>5. AppendOK(dir, handles', data, lost)
    <3> SUFFICES ASSUME NEW g \in Name, handles'[g] # NULL, handles'[g].start \notin lost
                 PROVE  AheadOK(dir[handles'[g].slot], handles'[g], data)
      BY DEF AppendOK
    <3>1. CASE g = f
      BY <2>3, <2>4, <3>1
    <3>2. CASE g # f
      BY <2>4, <3>2 DEF Written, AppendOK
    <3> QED
      BY <3>1, <3>2
  <2> QED
    BY <1>1, <2>1, <2>5, IdleIs, NotWriting, WrittenFrom
<1>3. CASE ~Exists(f)
  <2>1. op' = [Idle EXCEPT !.pc = "hint", !.name = f, !.mode = mode] /\ UNCHANGED handles
    BY <1>3 DEF Open
  <2>2. op'.pc = "hint"
    BY <2>1 DEF Idle
  <2> QED
    BY <1>1, <2>1, <2>2, WrittenKept
<1> QED
  BY <1>2, <1>3

LEMMA CloseWritten ==
  ASSUME Types, Written, NEW f \in Name, Close(f)
  PROVE  Written'
<1>1. op = Idle /\ op' = op /\ UNCHANGED <<dir, data, lost>> /\ handles' = [handles EXCEPT ![f] = NULL]
  BY DEF Close, card, history
<1>2. \A g \in Name : handles'[g] # NULL => handles'[g] = handles[g]
  BY <1>1, TypesAre
<1>3. AppendOK(dir, handles', data, lost)
  BY <1>2 DEF Written, AppendOK
<1> QED
  BY <1>1, <1>3, IdleIs, NotWriting, WrittenFrom

LEMMA WriteWritten ==
  ASSUME Types, Written, NEW f \in Name, NEW len \in Lens, Write(f, len), Sound'
  PROVE  Written'
<1>1. op'.pc = "sector" /\ op'.sent = 0 /\ UNCHANGED <<dir, data, handles, lost>>
  BY WriteIs DEF Sound, card
<1>2. SentOK(handles, op', data, writes', lost) /\ UpdateOK(handles, op', data, writes', lost)
  <2>1. 1..0 = {}
    OBVIOUS
  <2> QED
    BY <1>1, <2>1 DEF SentOK, UpdateOK
<1> QED
  BY <1>1, <1>2, WrittenFrom DEF Written

LEMMA PlaceEntryWritten ==
  ASSUME Types, Claims, Written, PlaceEntry
  PROVE  Written'
<1> DEFINE f == op.name
           s == NewHandle.slot
<1>1. /\ f \in Name /\ NewHandle \in Handle /\ NewHandle.size = 0
      /\ handles' = [handles EXCEPT ![f] = NewHandle] /\ op' = Idle /\ UNCHANGED <<data, lost>>
  BY PlaceEntryIs DEF history
<1>2. /\ dir'[s] = FileEntry(f, NewHandle) /\ \A t \in LiveIn(dir) : dir'[t] = dir[t]
  BY PlaceFiles
<1>3. AheadOK(dir'[s], NewHandle, data)
  <2>1. dir'[s].size = 0
    BY <1>1, <1>2, EntryIs
  <2> QED
    BY <1>1, <2>1 DEF AheadOK
<1>4. AppendOK(dir', handles', data, lost)
  <2> SUFFICES ASSUME NEW g \in Name, handles'[g] # NULL, handles'[g].start \notin lost
               PROVE  AheadOK(dir'[handles'[g].slot], handles'[g], data)
    BY DEF AppendOK
  <2>1. CASE g = f
    BY <1>1, <1>3, <2>1, TypesAre
  <2>2. CASE g # f
    <3>1. handles'[g] = handles[g]
      BY <1>1, <2>2, TypesAre
    <3>2. dir'[handles[g].slot] = dir[handles[g].slot]
      BY <1>2, <3>1, HandleIs
    <3> QED
      BY <3>1, <3>2 DEF Written, AppendOK
  <2> QED
    BY <2>1, <2>2
<1> QED
  BY <1>1, <1>4, IdleIs, NotWriting, WrittenFrom

LEMMA UpdateWritten ==
  ASSUME Types, Claims, Written, Update
  PROVE  Written'
<1>1. CASE GiveUp("entry")
  BY <1>1, GiveUpWritten
<1>2. CASE ~GiveUp("entry")
  <2> DEFINE f == op.name
             h == handles[f]
  <2>1. op' = Idle /\ UNCHANGED <<handles, data, lost>>
    BY <1>2, UpdateIs DEF history
  <2>2. /\ f \in Name /\ h \in Handle /\ h.slot \in LiveIn(dir) /\ dir'[h.slot] = FileEntry(f, h)
        /\ \A t \in LiveIn(dir) : t # h.slot => dir'[t] = dir[t]
        /\ dir[h.slot].name = f
    BY <1>2, UpdateFiles
  <2>3. AppendOK(dir', handles, data, lost)
    <3> SUFFICES ASSUME NEW g \in Name, handles[g] # NULL, handles[g].start \notin lost
                 PROVE  AheadOK(dir'[handles[g].slot], handles[g], data)
      BY DEF AppendOK
    <3>1. CASE g = f
      <4>1. dir'[h.slot].size = h.size /\ h.size \in Nat
        BY <2>2, EntryIs
      <4> QED
        BY <3>1, <4>1 DEF AheadOK
    <3>2. CASE g # f
      <4>1. handles[g].slot \in LiveIn(dir) /\ handles[g].slot # h.slot
        BY <2>2, <3>2, HandleIs
      <4> QED
        BY <2>2, <4>1 DEF Written, AppendOK
    <3> QED
      BY <3>1, <3>2
  <2> QED
    BY <2>1, <2>3, IdleIs, NotWriting, WrittenFrom
<1> QED
  BY <1>1, <1>2

LEMMA DeleteWritten ==
  ASSUME Types, Claims, Written, NEW f \in Name, Delete(f)
  PROVE  Written'
<1>1. CASE GiveUp("entry")
  BY <1>1, GiveUpWritten
<1>2. CASE ~GiveUp("entry")
  <2>1. op'.pc = "unlink" /\ handles[f] = NULL /\ UNCHANGED <<handles, data, lost>>
    BY <1>2, DeleteIs DEF history
  <2>2. /\ dir[At(f)].name = f
        /\ LiveIn(dir') = LiveIn(dir) \ {At(f)} /\ \A t \in LiveIn(dir') : dir'[t] = dir[t]
    BY <1>2, DeleteFiles
  <2>3. ASSUME NEW g \in Name, handles[g] # NULL PROVE dir'[handles[g].slot] = dir[handles[g].slot]
    <3>1. handles[g].slot \in LiveIn(dir) /\ dir[handles[g].slot].name = g /\ g # f
      BY <2>1, <2>3, HandleIs
    <3> QED
      BY <2>2, <3>1
  <2> QED
    BY <2>1, <2>3, WrittenKept
<1> QED
  BY <1>1, <1>2

(* A step with neither structures nor bytes nor files' entries.            *)
LEMMA QuietWritten ==
  ASSUME Types, Claims, Written, Allocate \/ Mark \/ Pad \/ Unlink, Sound'
  PROVE  Written'
<1>1. ~Outside
  BY OutsideUnsound
<1>2. CASE Allocate
  <2>1. op.link = 0
    BY <1>2, ClaimsAre DEF Allocate, MakingOK
  <2>2. op' = [op EXCEPT !.new = Min(FreeFrom(hint)), !.pc = "mark"] /\ UNCHANGED <<dir, data, handles, lost>>
    BY <1>1, <1>2, <2>1 DEF Allocate, history
  <2>3. op'.pc = "mark"
    BY <2>2, TypesAre DEF OpRec
  <2> QED
    BY <2>2, <2>3, WrittenKept
<1>3. CASE Mark
  <2>1. op.link = 0
    BY <1>3, ClaimsAre DEF Mark, MakingOK
  <2>2. op'.pc \in {"pad", "entry"} /\ UNCHANGED <<dir, data, handles>> /\ lost \subseteq lost'
    BY <1>3, <2>1, MarkIs DEF Mark
  <2> QED
    BY <2>2, WrittenKept
<1>4. CASE Pad
  <2>1. op'.pc = "entry" /\ UNCHANGED <<data, handles, lost>>
    BY <1>4, PadIs DEF Pad
  <2> QED
    BY <1>4, <2>1, PadFiles, HandleIs, WrittenKept
<1>5. CASE Unlink
  <2>1. op.cur \in Cluster
    BY <1>1, <1>5 DEF Unlink
  <2>2. UNCHANGED <<dir, data, handles, lost>> /\ op'.pc \in {"idle", "unlink"}
    BY <1>5, <2>1, UnlinkIs, IdleIs
  <2> QED
    BY <2>2, WrittenKept
<1> QED
  BY <1>2, <1>3, <1>4, <1>5

LEMMA WrittenStep ==
  ASSUME StoreInv, [Next]_vars, Sound'
  PROVE  Written'
<1>1. Types /\ Sound /\ Claims /\ Written
  <2>1. Sound
    BY SoundBefore
  <2> QED
    BY <2>1 DEF StoreInv, FatInv
<1>2. CASE UNCHANGED vars
  BY <1>1, <1>2 DEF vars, card, history, Written
<1>3. ASSUME NEW f \in Name, NEW mode \in {"write", "append"}, Open(f, mode) PROVE Written'
  BY <1>1, <1>3, OpenWritten DEF Mode
<1>4. ASSUME NEW f \in Name, Close(f) PROVE Written'
  BY <1>1, <1>4, CloseWritten
<1>5. ASSUME NEW f \in Name, NEW len \in Lens, Write(f, len) PROVE Written'
  BY <1>1, <1>5, WriteWritten
<1>6. ASSUME NEW f \in Name, Delete(f) PROVE Written'
  BY <1>1, <1>6, DeleteWritten
<1>7. CASE Allocate \/ Mark \/ Pad \/ Unlink
  BY <1>1, <1>7, QuietWritten
<1>8. CASE Entry
  BY <1>1, <1>8, PlaceEntryWritten, GiveUpWritten, OutsideUnsound DEF Entry
<1>9. CASE Link
  BY <1>1, <1>9, ClaimsAre DEF Link, MakingOK
<1>10. CASE SectorStep
  BY <1>1, <1>10, WriteSectorWritten, GiveUpWritten, OutsideUnsound DEF SectorStep
<1>11. CASE Update
  BY <1>1, <1>11, UpdateWritten
<1>12. CASE Misread
  BY <1>12, AstrayUnsound DEF Misread
<1>13. CASE Crash
  BY <1>13, CrashWritten
<1> QED
  BY <1>2, <1>3, <1>4, <1>5, <1>6, <1>7, <1>8, <1>9, <1>10, <1>11, <1>12, <1>13 DEF Next

LEMMA StoreInvHolds == Spec => []StoreInv
<1>1. Init => StoreInv
  BY InitTypes, InitClaims, InitWritten DEF StoreInv, FatInv
<1>2. StoreInv /\ [Next]_vars => StoreInv'
  <2> SUFFICES ASSUME StoreInv, [Next]_vars PROVE StoreInv'
    OBVIOUS
  <2>1. Types' /\ (Sound' => Claims')
    BY TypesStep, ClaimsStep DEF StoreInv, FatInv
  <2>2. Sound' => Written'
    BY WrittenStep
  <2> QED
    BY <2>1, <2>2 DEF StoreInv, FatInv
<1> QED
  BY <1>1, <1>2, PTL DEF Spec

-----------------------------------------------------------------------------
(* The files before and after a step.                                      *)

LEMMA HoldsBoth ==
  ASSUME Types, Claims, Types', Claims'
  PROVE  Holds(Files, fat, data, dir, lost) /\ Holds(Files', fat', data', dir', lost')
<1>1. Entries(dir) /\ DirOK(dir)
  BY DEF Types, CardTypes, Claims
<1>2. Entries(dir') /\ DirOK(dir')
  BY DEF Types, CardTypes, Claims
<1> QED
  BY <1>1, <1>2, FilesAre, FilesHold

LEMMA FilesKept ==
  ASSUME Types, Claims, Types', Claims', IntactIn(dir', lost') = IntactIn(dir, lost),
         \A s \in IntactIn(dir, lost) :
            /\ dir'[s] = dir[s]
            /\ \A x \in ChainIn(fat, dir[s].start) : fat'[x] = fat[x] /\ data'[x] = data[x]
  PROVE  Files' = Files
<1>1. ASSUME NEW s \in IntactIn(dir, lost) PROVE dir'[s].name = dir[s].name /\ BodyIn(fat', data', dir'[s]) = BodyIn(fat, data, dir[s])
  <2>1. Good(fat, dir[s].start) /\ dir[s].size \in Nat
    BY ClaimsAre, TypesAre, LiveAre DEF ChainsOK, IntactIn
  <2>2. BodyIn(fat', data', dir[s]) = BodyIn(fat, data, dir[s])
    BY <2>1, BodyKept
  <2> QED
    BY <2>2
<1> QED
  BY <1>1, HoldsBoth, HoldsSame

LEMMA CardKept ==
  ASSUME UNCHANGED <<fat, data, dir, lost>>
  PROVE  Files' = Files
BY FilesAre

(* A file that is written or being made a structure of is there.           *)
LEMMA NamesHeld ==
  ASSUME NEW F, NEW v, NEW da, NEW d, NEW l, Holds(F, v, da, d, l)
  PROVE  /\ DOMAIN F = NamedIn(d, l)
         /\ \A s \in IntactIn(d, l) : d[s].name \in DOMAIN F
         /\ \A f \in DOMAIN F : \E s \in IntactIn(d, l) : d[s].name = f
<1>1. DOMAIN F = NamedIn(d, l)
  BY DEF Holds
<1> QED
  BY <1>1 DEF NamedIn

LEMMA OpenIsThere ==
  ASSUME Types, Claims, Types', Claims', NEW f \in Name, handles[f] # NULL, handles[f].start \notin lost
  PROVE  f \in DOMAIN Files
<1>1. handles[f].slot \in IntactIn(dir, lost) /\ dir[handles[f].slot].name = f
  BY HandleIs DEF IntactIn
<1> QED
  BY <1>1, HoldsBoth, NamesHeld

LEMMA BodyIs ==
  ASSUME NEW v, NEW da \in [Cluster -> [1..ClusterSize -> Byte]], NEW e, e.size \in Nat
  PROVE  BodyIn(v, da, e) \in Seq(Byte) /\ Len(BodyIn(v, da, e)) = e.size
<1> DEFINE at(k) == WalkIn(v, e.start, (k - 1) \div ClusterSize)
           byte(k) == IF at(k) \in Cluster THEN da[at(k)][((k - 1) % ClusterSize) + 1] ELSE Junk
<1>1. ASSUME NEW k \in 1..e.size PROVE byte(k) \in Byte
  <2>1. k - 1 \in Nat
    OBVIOUS
  <2>2. ((k - 1) % ClusterSize) + 1 \in 1..ClusterSize
    <3> DEFINE r == (k - 1) % ClusterSize
    <3>1. r \in 0..ClusterSize - 1 /\ ClusterSize \in Nat
      BY <2>1, SizeFacts, DivMod
    <3> HIDE DEF r
    <3> QED
      BY <3>1
  <2> QED
    BY <2>2, JunkIs
<1>2. BodyIn(v, da, e) = [k \in 1..e.size |-> byte(k)]
  BY DEF BodyIn
<1> HIDE DEF byte
<1> QED
  BY <1>1, <1>2

(* The bytes in a file's first cluster, and those behind it.               *)
LEMMA BodyBytes ==
  ASSUME NEW v, NEW e, Good(v, e.start), e.size \in Nat, NEW k \in 1..e.size, NEW da
  PROVE  /\ k <= ClusterSize => BodyIn(v, da, e)[k] = da[e.start][k]
         /\ \A db : (\A x \in ChainIn(v, e.start) : x # e.start => db[x] = da[x]) /\ ~(k <= ClusterSize)
                       => BodyIn(v, db, e)[k] = BodyIn(v, da, e)[k]
<1> DEFINE q == (k - 1) \div ClusterSize
           r == (k - 1) % ClusterSize
           at == WalkIn(v, e.start, q)
<1>1. /\ q \in Nat /\ r \in 0..ClusterSize - 1 /\ k - 1 = ClusterSize * q + r /\ ClusterSize \in Nat \ {0}
  <2>1. k - 1 \in Nat
    OBVIOUS
  <2> QED
    BY <2>1, SizeFacts, DivMod
<1>2. \A x : BodyIn(v, x, e)[k] = IF at \in Cluster THEN x[at][r + 1] ELSE Junk
  BY DEF BodyIn
<1>3. /\ at \in Cluster => at \in ChainIn(v, e.start)
      /\ at = e.start <=> q = 0
      /\ e.start \in Cluster
  BY <1>1, WalkStays, ChainFirst
<1> HIDE DEF at
<1>4. ASSUME k <= ClusterSize PROVE BodyIn(v, da, e)[k] = da[e.start][k]
  <2>1. q = 0
    <3>1. k - 1 < ClusterSize * 1 /\ k - 1 \in Nat
      BY <1>1, <1>4
    <3>2. q < 1
      BY <3>1, SizeFacts, PieceOf
    <3> QED
      BY <1>1, <3>2
  <2>2. r + 1 = k
    <3>1. ClusterSize * q = 0
      BY <1>1, <2>1
    <3> HIDE DEF q, r
    <3> QED
      BY <1>1, <3>1
  <2> QED
    BY <1>2, <1>3, <2>1, <2>2
<1>5. ASSUME ~(k <= ClusterSize) PROVE at # e.start
  <2>1. q # 0
    <3> HIDE DEF q, r
    <3> SUFFICES ASSUME q = 0 PROVE FALSE
      OBVIOUS
    <3>1. ClusterSize * q = 0
      BY <1>1
    <3> QED
      BY <1>1, <1>5, <3>1
  <2> QED
    BY <1>3, <2>1
<1> HIDE DEF r
<1> QED
  BY <1>2, <1>3, <1>4, <1>5

(* A file whose first cluster changes behind its last byte.                *)
LEMMA BodyBefore ==
  ASSUME NEW v, NEW e, Good(v, e.start), e.size \in Nat, NEW da, NEW db,
         \A x \in ChainIn(v, e.start) : x # e.start => db[x] = da[x],
         \A k \in 1..e.size : k <= ClusterSize => db[e.start][k] = da[e.start][k]
  PROVE  BodyIn(v, db, e) = BodyIn(v, da, e)
<1>1. ASSUME NEW k \in 1..e.size PROVE BodyIn(v, db, e)[k] = BodyIn(v, da, e)[k]
  <2>1. CASE k <= ClusterSize
    BY <2>1, BodyBytes
  <2>2. CASE ~(k <= ClusterSize)
    BY <2>2, BodyBytes
  <2> QED
    BY <2>1, <2>2
<1>2. BodyIn(v, db, e) = [k \in 1..e.size |-> BodyIn(v, db, e)[k]] /\ BodyIn(v, da, e) = [k \in 1..e.size |-> BodyIn(v, da, e)[k]]
  BY DEF BodyIn
<1> QED
  BY <1>1, <1>2

-----------------------------------------------------------------------------
(* Each step is one of FileStore's or none.                                *)

Steps == Store!Next \/ UNCHANGED <<Files, Replacing>>

LEMMA NoneReplaced ==
  /\ op.pc \notin {"sector", "update"} => Replacing = {}
  /\ op'.pc \notin {"sector", "update"} => Replacing' = {}
  /\ op.mode # "write" => Replacing = {}
  /\ op'.mode # "write" => Replacing' = {}
  /\ handles[op.name].start \in lost => Replacing = {}
  /\ handles'[op'.name].start \in lost' => Replacing' = {}
BY DEF Replacing

(* A call that is given up leaves the files as they are.                   *)
LEMMA GivenUp ==
  ASSUME Types, Claims, Types', Claims', op' = Idle, UNCHANGED <<card, lost>>
  PROVE  Steps
<1>1. Files' = Files /\ Replacing' = {}
  BY CardKept, NoneReplaced, IdleIs DEF card
<1>2. CASE Replacing = {}
  BY <1>1, <1>2 DEF Steps
<1>3. CASE Replacing # {}
  <2>1. op.pc \in {"sector", "update"} /\ Replacing = {op.name} /\ handles[op.name].start \notin lost
    BY <1>3 DEF Replacing
  <2>2. op.name \in Name /\ handles[op.name] # NULL
    BY <2>1, TypesAre, NullFacts DEF CallTypes, Making
  <2>3. op.name \in DOMAIN Files
    BY <2>1, <2>2, OpenIsThere
  <2>4. Store!Scramble(op.name)
    BY <1>1, <2>1, <2>3 DEF Store!Scramble, Store!Only
  <2> QED
    BY <2>2, <2>4 DEF Steps, Store!Next
<1> QED
  BY <1>2, <1>3

LEMMA QuietSteps ==
  ASSUME Types, Claims, Types', Claims', Allocate \/ Mark \/ Pad \/ Unlink, Sound'
  PROVE  UNCHANGED <<Files, Replacing>>
<1>1. ~Outside
  BY OutsideUnsound
<1>2. CASE Allocate
  <2>1. op.link = 0 /\ op.pc = "hint"
    BY <1>2, ClaimsAre DEF Allocate, MakingOK
  <2>2. op' = [op EXCEPT !.new = Min(FreeFrom(hint)), !.pc = "mark"] /\ UNCHANGED <<fat, dir, data, lost>>
    BY <1>1, <1>2, <2>1 DEF Allocate, history
  <2>3. op'.pc = "mark"
    BY <2>2, TypesAre DEF OpRec
  <2> QED
    BY <2>1, <2>2, <2>3, CardKept, NoneReplaced
<1>3. CASE Mark
  <2>1. op.link = 0 /\ op.pc = "mark" /\ fat[op.new] = Free
    BY <1>3, ClaimsAre DEF Mark, MakingOK
  <2>2. /\ op'.pc \in {"pad", "entry"} /\ UNCHANGED <<dir, data>>
        /\ op.new \in Cluster /\ SetNext(op.new, Eoc)
        /\ lost \subseteq lost' /\ lost' \subseteq lost \cup {op.new}
    <3>1. op.new \in Cluster
      BY <2>1, TypesAre DEF CallTypes, Making
    <3> QED
      BY <1>3, <2>1, <3>1, MarkIs DEF Mark
  <2>3. \A s \in IntactIn(dir, lost) :
          /\ \A x \in ChainIn(fat, dir[s].start) : x \in Cluster /\ fat[x] # Free
          /\ dir[s].start \in ChainIn(fat, dir[s].start)
    BY ClaimsAre, ChainFirst DEF ChainsOK
  <2>4. \A x \in Cluster : fat[x] # Free => fat'[x] = fat[x]
    BY <2>1, <2>2, SetNextIs, TypesAre
  <2>5. IntactIn(dir', lost') = IntactIn(dir, lost)
    <3>1. \A s \in IntactIn(dir, lost) : dir[s].start # op.new
      BY <2>1, <2>3
    <3> QED
      BY <2>2, <3>1 DEF IntactIn
  <2>6. Files' = Files
    BY <2>2, <2>3, <2>4, <2>5, FilesKept
  <2> QED
    BY <2>1, <2>2, <2>6, NoneReplaced
<1>4. CASE Pad
  <2>1. op.pc = "pad" /\ op'.pc = "entry" /\ UNCHANGED <<fat, data, lost>>
    BY <1>4, PadIs DEF Pad
  <2>2. LiveIn(dir') = LiveIn(dir) /\ \A s \in LiveIn(dir) : dir'[s] = dir[s]
    BY <1>4, PadFiles
  <2>3. IntactIn(dir', lost') = IntactIn(dir, lost) /\ \A s \in IntactIn(dir, lost) : dir'[s] = dir[s]
    BY <2>1, <2>2 DEF IntactIn
  <2>4. Files' = Files
    BY <2>1, <2>3, FilesKept
  <2> QED
    BY <2>1, <2>4, NoneReplaced
<1>5. CASE Unlink
  <2>1. op.cur \in Cluster
    BY <1>1, <1>5 DEF Unlink
  <2>2. /\ op.pc = "unlink" /\ UNCHANGED <<dir, data, lost>> /\ op'.pc \in {"idle", "unlink"}
        /\ SetNext(op.cur, Free)
    BY <1>5, <2>1, UnlinkIs, IdleIs
  <2>3. \A s \in IntactIn(dir, lost) : ChainIn(fat, dir[s].start) \subseteq Cluster \ lost
    BY ClaimsAre, ChainFirst DEF ChainsOK
  <2>4. \A s \in IntactIn(dir, lost) : op.cur \notin ChainIn(fat, dir[s].start)
    <3>1. CASE op.cur \in lost
      BY <2>3, <3>1
    <3>2. CASE op.cur \notin lost
      <4>1. /\ Good(fat, op.cur)
            /\ \A s \in IntactIn(dir, lost) : ChainIn(fat, dir[s].start) \cap ChainIn(fat, op.cur) = {}
        BY <2>1, <2>2, <3>2, ClaimsAre DEF UnlinkOK
      <4> QED
        BY <4>1, ChainFirst
    <3> QED
      BY <3>1, <3>2
  <2>5. \A x \in Cluster : x # op.cur => fat'[x] = fat[x]
    BY <2>1, <2>2, SetNextIs, TypesAre
  <2>6. Files' = Files
    <3>1. IntactIn(dir', lost') = IntactIn(dir, lost)
      BY <2>2
    <3> QED
      BY <2>2, <2>3, <2>4, <2>5, <3>1, FilesKept
  <2> QED
    BY <2>2, <2>6, NoneReplaced
<1> QED
  BY <1>2, <1>3, <1>4, <1>5

LEMMA OpenSteps ==
  ASSUME NEW f \in Name, (\E mode \in Mode : Open(f, mode)) \/ Close(f)
  PROVE  UNCHANGED <<Files, Replacing>>
<1>1. op = Idle /\ UNCHANGED <<fat, data, dir, lost>>
  BY DEF Open, Close, card, history
<1>2. op'.pc \in {"idle", "hint"}
  BY <1>1, IdleIs DEF Open, Close, Idle
<1> QED
  BY <1>1, <1>2, CardKept, NoneReplaced, IdleIs

LEMMA WriteSteps ==
  ASSUME Types, Claims, Types', Claims', NEW f \in Name, NEW len \in Lens, Write(f, len), Sound'
  PROVE  Steps
<1>1. /\ op = Idle /\ handles[f] \in Handle /\ op'.pc = "sector" /\ op'.name = f
      /\ UNCHANGED <<fat, data, dir, handles, lost>>
  BY WriteIs DEF Sound, card
<1>2. Replacing = {} /\ Files' = Files
  BY <1>1, CardKept, NoneReplaced, IdleIs
<1>3. CASE op'.mode = "write" /\ handles[f].start \notin lost
  <2>1. Replacing' = {f}
    BY <1>1, <1>3 DEF Replacing
  <2>2. f \in DOMAIN Files
    BY <1>1, <1>3, OpenIsThere, NullFacts
  <2>3. Store!BeginReplace(f)
    BY <1>2, <2>1, <2>2 DEF Store!BeginReplace
  <2> QED
    BY <2>3 DEF Steps, Store!Next
<1>4. CASE ~(op'.mode = "write" /\ handles[f].start \notin lost)
  <2>1. Replacing' = {}
    BY <1>1, <1>4 DEF Replacing
  <2> QED
    BY <1>2, <2>1 DEF Steps
<1> QED
  BY <1>3, <1>4

(* A step that changes at most the file of the entry s.                    *)
LEMMA OneChanges ==
  ASSUME Types, Claims, Types', Claims', NEW s \in IntactIn(dir, lost),
         IntactIn(dir', lost') = IntactIn(dir, lost),
         dir'[s].name = dir[s].name,
         \A t \in IntactIn(dir, lost) : t # s =>
            /\ dir'[t] = dir[t]
            /\ \A x \in ChainIn(fat, dir[t].start) : fat'[x] = fat[x] /\ data'[x] = data[x]
  PROVE  /\ Store!Only(dir[s].name)
         /\ Files[dir[s].name] = BodyIn(fat, data, dir[s])
         /\ Files'[dir[s].name] = BodyIn(fat', data', dir'[s])
<1>1. Holds(Files, fat, data, dir, lost) /\ Holds(Files', fat', data', dir', lost')
  BY HoldsBoth
<1>2. \A t \in IntactIn(dir, lost) : dir'[t].name = dir[t].name
  OBVIOUS
<1>3. DOMAIN Files = NamedIn(dir, lost) /\ DOMAIN Files' = NamedIn(dir', lost') /\ dir[s].name \in DOMAIN Files
  BY <1>1, NamesHeld
<1>4. NamedIn(dir', lost') = NamedIn(dir, lost)
  BY <1>2 DEF NamedIn
<1>5. ASSUME NEW g \in DOMAIN Files, g # dir[s].name PROVE Files'[g] = Files[g]
  <2>1. PICK t \in IntactIn(dir, lost) : dir[t].name = g
    BY <1>1, NamesHeld
  <2>2. t # s /\ dir'[t] = dir[t]
    BY <1>5, <2>1
  <2>3. Good(fat, dir[t].start) /\ dir[t].size \in Nat
    BY ClaimsAre, TypesAre, LiveAre DEF ChainsOK, IntactIn
  <2>4. BodyIn(fat', data', dir[t]) = BodyIn(fat, data, dir[t])
    BY <2>2, <2>3, BodyKept
  <2> QED
    BY <1>1, <2>1, <2>2, <2>4 DEF Holds
<1>6. Store!Only(dir[s].name)
  BY <1>3, <1>4, <1>5 DEF Store!Only
<1>7. /\ Files[dir[s].name] = BodyIn(fat, data, dir[s])
      /\ Files'[dir[s].name] = BodyIn(fat', data', dir'[s])
  BY <1>1 DEF Holds
<1> QED
  BY <1>6, <1>7

LEMMA WriteSectorSteps ==
  ASSUME Types, Claims, Written, Types', Claims', WriteSector
  PROVE  Steps
<1> DEFINE f == op.name
           h == handles[f]
           n == First(h)
           c == h.start
           s == h.slot
<1>1. /\ f \in Name /\ h \in Handle /\ h # NULL /\ c \in Cluster /\ op.pc = "sector" /\ n \in Nat
      /\ op.mode = h.mode
      /\ \A d \in Cluster : d # c => data'[d] = data[d]
      /\ \A k \in 1..n : k <= ClusterSize => data'[c][k] = data[c][k]
      /\ UNCHANGED <<fat, dir, lost>>
  BY RowWritten DEF WriteSector
<1>2. /\ s \in LiveIn(dir) /\ dir[s].name = f /\ dir[s].start = c /\ dir[s].size \in Nat /\ h.size \in Nat
      /\ \A t \in IntactIn(dir, lost) : t # s => c \notin ChainIn(fat, dir[t].start)
  BY <1>1, HandleIs
<1> HIDE DEF s
<1>3. /\ \A t \in IntactIn(dir, lost) : Good(fat, dir[t].start) /\ ChainIn(fat, dir[t].start) \subseteq Cluster
      /\ IntactIn(dir', lost') = IntactIn(dir, lost)
  BY <1>1, ClaimsAre, ChainFirst DEF ChainsOK
<1>4. ASSUME c \notin lost
      PROVE  /\ s \in IntactIn(dir, lost) /\ Store!Only(f)
             /\ Files[f] = BodyIn(fat, data, dir[s]) /\ Files'[f] = BodyIn(fat, data', dir[s])
  <2>0. s \in IntactIn(dir, lost)
    BY <1>2, <1>4 DEF IntactIn
  <2>1. \A t \in IntactIn(dir, lost) : t # s =>
            /\ dir'[t] = dir[t]
            /\ \A x \in ChainIn(fat, dir[t].start) : fat'[x] = fat[x] /\ data'[x] = data[x]
    BY <1>1, <1>2, <1>3
  <2>2. /\ Store!Only(dir[s].name) /\ Files[dir[s].name] = BodyIn(fat, data, dir[s])
        /\ Files'[dir[s].name] = BodyIn(fat', data', dir'[s])
    BY <1>1, <1>2, <1>3, <2>0, <2>1, OneChanges
  <2> QED
    BY <1>1, <1>2, <2>0, <2>2
<1>5. op' = Idle \/ (op'.name = f /\ op'.mode = op.mode)
  BY WriteSectorIs
<1>6. CASE c \notin lost /\ op.mode = "write"
  <2>1. Replacing = {f} /\ Replacing' \subseteq {f}
    <3>1. Replacing = {f}
      BY <1>1, <1>6 DEF Replacing
    <3>2. Replacing' \subseteq {f}
      BY <1>5, IdleIs DEF Replacing
    <3> QED
      BY <3>1, <3>2
  <2>2. data \in [Cluster -> [1..ClusterSize -> Byte]] /\ data' \in [Cluster -> [1..ClusterSize -> Byte]]
    BY DEF Types, CardTypes
  <2>3. Len(Files'[f]) = Len(Files[f])
    BY <1>2, <1>4, <1>6, <2>2, BodyIs
  <2>4. Store!Scramble(f)
    BY <1>4, <1>6, <2>1, <2>3 DEF Store!Scramble
  <2> QED
    BY <1>1, <2>4 DEF Steps, Store!Next
<1>7. CASE c \notin lost /\ op.mode # "write"
  <2>1. Replacing = {} /\ Replacing' = {}
    BY <1>5, <1>7, NoneReplaced, IdleIs
  <2>2. n = h.size /\ dir[s].size <= n
    <3>1. h.mode = "append"
      BY <1>1, <1>7 DEF Handle
    <3>2. AheadOK(dir[s], h, data)
      BY <1>1, <1>7 DEF Written, AppendOK, s
    <3> QED
      BY <3>1, <3>2 DEF AheadOK, First
  <2>3. \A x \in ChainIn(fat, dir[s].start) : x # dir[s].start => data'[x] = data[x]
    BY <1>1, <1>2, <1>3, <1>4, <1>7
  <2>4. ASSUME NEW k \in 1..dir[s].size, k <= ClusterSize PROVE data'[dir[s].start][k] = data[dir[s].start][k]
    <3>1. k \in 1..n
      BY <1>1, <1>2, <2>2
    <3> QED
      BY <1>1, <1>2, <2>4, <3>1
  <2>5. BodyIn(fat, data', dir[s]) = BodyIn(fat, data, dir[s])
    BY <1>2, <1>3, <1>4, <1>7, <2>3, <2>4, BodyBefore
  <2>6. Files' = Files
    <3>1. ASSUME NEW t \in IntactIn(dir, lost) PROVE BodyIn(fat', data', dir'[t]) = BodyIn(fat, data, dir[t])
      <4>1. CASE t = s
        BY <1>1, <2>5, <4>1
      <4>2. CASE t # s
        <5>1. \A x \in ChainIn(fat, dir[t].start) : fat[x] = fat[x] /\ data'[x] = data[x]
          BY <1>1, <1>2, <1>3, <4>2
        <5>2. dir[t].size \in Nat
          BY TypesAre, LiveAre DEF IntactIn
        <5>3. BodyIn(fat, data', dir[t]) = BodyIn(fat, data, dir[t])
          BY <1>3, <5>1, <5>2, BodyKept
        <5> QED
          BY <1>1, <5>3
      <4> QED
        BY <4>1, <4>2
    <3> QED
      BY <1>1, <1>3, <3>1, HoldsBoth, HoldsSame
  <2> QED
    BY <2>1, <2>6 DEF Steps
<1>8. CASE c \in lost
  <2>1. \A t \in IntactIn(dir, lost) : c \notin ChainIn(fat, dir[t].start)
    BY <1>8, ClaimsAre DEF ChainsOK
  <2>2. Files' = Files
    BY <1>1, <1>3, <2>1, FilesKept
  <2>3. Replacing = {}
    BY <1>8, NoneReplaced
  <2>4. handles'[f].start = c
    <3>1. \/ UNCHANGED handles
          \/ handles' = [handles EXCEPT ![f].size = IF op.mode = "write" THEN op.len ELSE @ + op.len]
      BY WriteSectorIs
    <3>2. handles \in [Name -> Handle \cup {NULL}]
      BY TypesAre
    <3> QED
      BY <1>1, <3>1, <3>2 DEF Handle
  <2>5. Replacing' = {}
    BY <1>1, <1>5, <1>8, <2>4, NoneReplaced, IdleIs
  <2> QED
    BY <2>2, <2>3, <2>5 DEF Steps
<1> QED
  BY <1>6, <1>7, <1>8

LEMMA PlaceEntrySteps ==
  ASSUME Types, Claims, Types', Claims', PlaceEntry
  PROVE  Steps
<1> DEFINE f == op.name
           s == NewHandle.slot
<1>1. /\ f \in Name /\ NewHandle \in Handle /\ NewHandle.size = 0 /\ op' = Idle /\ UNCHANGED <<fat, data, lost>>
      /\ op.pc = "entry" /\ NewHandle.start = op.new
  BY PlaceEntryIs DEF PlaceEntry, history
<1>2. /\ s \notin LiveIn(dir) /\ LiveIn(dir') = LiveIn(dir) \cup {s}
      /\ dir'[s] = FileEntry(f, NewHandle)
      /\ \A t \in LiveIn(dir) : dir'[t] = dir[t] /\ dir[t].name # f
  BY PlaceFiles
<1>3. dir'[s].name = f /\ dir'[s].size = 0 /\ dir'[s].start = op.new
  BY <1>1, <1>2, EntryIs
<1> HIDE DEF s
<1>4. Replacing = {} /\ Replacing' = {}
  BY <1>1, NoneReplaced, IdleIs
<1>5. Holds(Files, fat, data, dir, lost) /\ Holds(Files', fat, data, dir', lost)
  BY <1>1, HoldsBoth
<1>6. DOMAIN Files = NamedIn(dir, lost) /\ DOMAIN Files' = NamedIn(dir', lost)
  BY <1>5, NamesHeld
<1>7. CASE op.new \in lost
  <2>1. IntactIn(dir', lost') = IntactIn(dir, lost) /\ \A t \in IntactIn(dir, lost) : dir'[t] = dir[t]
    BY <1>1, <1>2, <1>3, <1>7 DEF IntactIn
  <2>2. Files' = Files
    BY <1>1, <2>1, FilesKept
  <2> QED
    BY <1>4, <2>2 DEF Steps
<1>8. CASE op.new \notin lost
  <2>1. IntactIn(dir', lost) = IntactIn(dir, lost) \cup {s} /\ \A t \in IntactIn(dir, lost) : dir'[t] = dir[t] /\ dir[t].name # f
    BY <1>2, <1>3, <1>8 DEF IntactIn
  <2>2. f \notin NamedIn(dir, lost) /\ NamedIn(dir', lost) = NamedIn(dir, lost) \cup {f}
    BY <1>3, <2>1 DEF NamedIn
  <2>3. Files'[f] = <<>>
    <3>1. Files'[f] = BodyIn(fat, data, dir'[s])
      BY <1>3, <1>5, <2>1 DEF Holds
    <3>2. BodyIn(fat, data, dir'[s]) \in Seq(Byte) /\ Len(BodyIn(fat, data, dir'[s])) = 0
      BY <1>3, TypesAre, BodyIs
    <3> QED
      BY <3>1, <3>2, EmptySeq
  <2>4. ASSUME NEW g \in NamedIn(dir, lost) PROVE Files'[g] = Files[g]
    <3>1. PICK t \in IntactIn(dir, lost) : dir[t].name = g
      BY DEF NamedIn
    <3> QED
      BY <1>5, <2>1, <3>1 DEF Holds
  <2>5. Files' = [g \in DOMAIN Files \cup {f} |-> IF g = f THEN <<>> ELSE Files[g]]
    <3>1. Files' = [g \in NamedIn(dir', lost) |-> Files'[g]]
      BY <1>5 DEF Holds
    <3> QED
      BY <1>6, <2>2, <2>3, <2>4, <3>1
  <2>6. Store!Create(f)
    BY <1>4, <1>6, <2>2, <2>5 DEF Store!Create
  <2> QED
    BY <1>1, <2>6 DEF Steps, Store!Next
<1> QED
  BY <1>7, <1>8

LEMMA DeleteSteps ==
  ASSUME Types, Claims, Types', Claims', NEW f \in Name, Delete(f), ~GiveUp("entry")
  PROVE  Steps
<1> DEFINE s == At(f)
<1>1. op = Idle /\ op'.pc = "unlink" /\ UNCHANGED <<fat, data, lost>>
  BY DeleteIs DEF history
<1>2. /\ s \in LiveIn(dir) /\ dir[s].name = f /\ LiveIn(dir') = LiveIn(dir) \ {s}
      /\ \A t \in LiveIn(dir') : dir'[t] = dir[t] /\ dir[t].name # f
  BY DeleteFiles
<1> HIDE DEF s
<1>3. Replacing = {} /\ Replacing' = {}
  BY <1>1, NoneReplaced, IdleIs
<1>4. Holds(Files, fat, data, dir, lost) /\ Holds(Files', fat, data, dir', lost)
  BY <1>1, HoldsBoth
<1>5. DOMAIN Files = NamedIn(dir, lost) /\ DOMAIN Files' = NamedIn(dir', lost)
  BY <1>4, NamesHeld
<1>6. IntactIn(dir', lost) = IntactIn(dir, lost) \ {s} /\ \A t \in IntactIn(dir', lost) : dir'[t] = dir[t] /\ dir[t].name # f
  BY <1>2 DEF IntactIn
<1>7. CASE dir[s].start \in lost
  <2>1. IntactIn(dir', lost') = IntactIn(dir, lost) /\ \A t \in IntactIn(dir, lost) : dir'[t] = dir[t]
    BY <1>1, <1>6, <1>7 DEF IntactIn
  <2>2. Files' = Files
    BY <1>1, <2>1, FilesKept
  <2> QED
    BY <1>3, <2>2 DEF Steps
<1>8. CASE dir[s].start \notin lost
  <2>1. f \in NamedIn(dir, lost) /\ NamedIn(dir', lost) = NamedIn(dir, lost) \ {f}
    <3>1. s \in IntactIn(dir, lost)
      BY <1>2, <1>8 DEF IntactIn
    <3> QED
      BY <1>2, <1>6, <3>1 DEF NamedIn
  <2>2. ASSUME NEW g \in NamedIn(dir', lost) PROVE Files'[g] = Files[g]
    <3>1. PICK t \in IntactIn(dir', lost) : dir'[t].name = g
      BY DEF NamedIn
    <3>2. t \in IntactIn(dir, lost) /\ dir'[t] = dir[t]
      BY <1>6
    <3> QED
      BY <1>4, <3>1, <3>2 DEF Holds
  <2>3. Files' = Store!Restrict(Files, DOMAIN Files \ {f})
    <3>1. Files' = [g \in NamedIn(dir', lost) |-> Files'[g]]
      BY <1>4 DEF Holds
    <3> QED
      BY <1>5, <2>1, <2>2, <3>1 DEF Store!Restrict
  <2>4. Store!Delete(f)
    BY <1>3, <1>5, <2>1, <2>3 DEF Store!Delete, Store!Restrict
  <2> QED
    BY <2>4 DEF Steps, Store!Next
<1> QED
  BY <1>7, <1>8

(* Whole calls, in the terms of FileStore.                                 *)
LEMMA WholeIsWhole ==
  ASSUME NEW d \in Seq(Byte), WholeIn(d, 0, Len(d))
  PROVE  Store!Whole(d)
<1>1. \A k : k > 0 + 1 <=> k > 1
  OBVIOUS
<1>2. (0 + 1)..Len(d) = 1..Len(d)
  OBVIOUS
<1> QED
  BY <1>1, <1>2 DEF Store!Whole, WholeIn

LEMMA WholeBehind ==
  ASSUME NEW d \in Seq(Byte), NEW a \in Nat, a <= Len(d), WholeIn(d, a, Len(d))
  PROVE  Store!Whole(SubSeq(d, a + 1, Len(d)))
<1> DEFINE n == Len(d) - a
           b == SubSeq(d, a + 1, Len(d))
<1>1. Len(d) \in Nat /\ n \in Nat
  BY LenProperties
<1>2. \A i \in (a + 1)..Len(d) : d[i] \in Byte
  BY <1>1, ElementOfSeq
<1>3. /\ b \in Seq(Byte)
      /\ Len(b) = IF a + 1 <= Len(d) THEN Len(d) - (a + 1) + 1 ELSE 0
      /\ \A i \in 1..(Len(d) - (a + 1) + 1) : b[i] = d[(a + 1) + i - 1]
  BY <1>1, <1>2, SubSeqProperties
<1> HIDE DEF b
<1>4. Len(b) = n /\ \A i \in 1..n : b[i] = d[a + i]
  <2>1. Len(b) = n /\ Len(d) - (a + 1) + 1 = n
    BY <1>1, <1>3
  <2>2. \A i \in 1..n : (a + 1) + i - 1 = a + i
    OBVIOUS
  <2> QED
    BY <1>3, <2>1, <2>2
<1>5. WholeIn(b, 0, n)
  <2> SUFFICES ASSUME NEW k \in (0 + 1)..n
               PROVE  /\ b[k].pos = 1 \/ (k > 0 + 1 /\ b[k - 1] = [b[k] EXCEPT !.pos = @ - 1])
                      /\ b[k].pos = b[k].len \/ (k < n /\ b[k + 1] = [b[k] EXCEPT !.pos = @ + 1])
    BY DEF WholeIn
  <2>1. /\ a + k \in (a + 1)..Len(d) /\ k \in 1..n
        /\ a + k > a + 1 => k - 1 \in 1..n /\ a + (k - 1) = a + k - 1 /\ k > 0 + 1
        /\ a + k < Len(d) => k + 1 \in 1..n /\ a + (k + 1) = a + k + 1 /\ k < n
    BY <1>1
  <2>2. /\ d[a + k].pos = 1 \/ (a + k > a + 1 /\ d[a + k - 1] = [d[a + k] EXCEPT !.pos = @ - 1])
        /\ d[a + k].pos = d[a + k].len \/ (a + k < Len(d) /\ d[a + k + 1] = [d[a + k] EXCEPT !.pos = @ + 1])
    <3>1. \A j \in (a + 1)..Len(d) :
            /\ d[j].pos = 1 \/ (j > a + 1 /\ d[j - 1] = [d[j] EXCEPT !.pos = @ - 1])
            /\ d[j].pos = d[j].len \/ (j < Len(d) /\ d[j + 1] = [d[j] EXCEPT !.pos = @ + 1])
      BY DEF WholeIn
    <3>2. a + k \in (a + 1)..Len(d)
      BY <2>1
    <3> QED
      BY <3>1, <3>2
  <2>3. b[k] = d[a + k]
    BY <1>4, <2>1
  <2>4. b[k].pos = 1 \/ (k > 0 + 1 /\ b[k - 1] = [b[k] EXCEPT !.pos = @ - 1])
    BY <1>4, <2>1, <2>2, <2>3
  <2>5. b[k].pos = b[k].len \/ (k < n /\ b[k + 1] = [b[k] EXCEPT !.pos = @ + 1])
    BY <1>4, <2>1, <2>2, <2>3
  <2> QED
    BY <2>4, <2>5
<1> QED
  BY <1>3, <1>4, <1>5, WholeIsWhole DEF b

LEMMA PrefixIs ==
  ASSUME NEW u \in Seq(Byte), NEW t \in Seq(Byte), Len(u) <= Len(t), \A k \in 1..Len(u) : t[k] = u[k]
  PROVE  Store!IsPrefix(u, t)
<1> DEFINE a == Len(u)
           x == SubSeq(u, 1, a)
           y == SubSeq(t, 1, a)
<1>1. a \in Nat /\ Len(t) \in Nat
  BY LenProperties
<1>2. \A i \in 1..a : u[i] \in Byte /\ t[i] \in Byte
  BY <1>1, ElementOfSeq
<1>3. /\ x \in Seq(Byte) /\ Len(x) = IF 1 <= a THEN a - 1 + 1 ELSE 0
      /\ \A i \in 1..(a - 1 + 1) : x[i] = u[1 + i - 1]
  BY <1>1, <1>2, SubSeqProperties
<1>4. /\ y \in Seq(Byte) /\ Len(y) = IF 1 <= a THEN a - 1 + 1 ELSE 0
      /\ \A i \in 1..(a - 1 + 1) : y[i] = t[1 + i - 1]
  BY <1>1, <1>2, SubSeqProperties
<1> HIDE DEF x, y
<1>5. Len(x) = a /\ Len(y) = a /\ \A i \in 1..a : x[i] = y[i]
  <2>1. a - 1 + 1 = a /\ \A i \in 1..a : 1 + i - 1 = i
    BY <1>1
  <2> HIDE DEF a
  <2>2. Len(x) = a /\ Len(y) = a
    BY <1>1, <1>3, <1>4
  <2>3. \A i \in 1..a : x[i] = y[i]
    BY <1>3, <1>4, <2>1 DEF a
  <2> QED
    BY <2>2, <2>3
<1>6. x = y
  <2>1. x \in [1..a -> Byte] /\ y \in [1..a -> Byte]
    BY <1>3, <1>4, <1>5, LenProperties
  <2> QED
    BY <1>5, <2>1
<1> QED
  BY <1>6 DEF Store!IsPrefix, x, y

LEMMA UpdateSteps ==
  ASSUME Types, Claims, Written, Types', Claims', Update, ~GiveUp("entry")
  PROVE  Steps
<1> DEFINE f == op.name
           h == handles[f]
           s == h.slot
           c == h.start
           u == BodyIn(fat, data, dir[s])
           t == BodyIn(fat, data, dir'[s])
<1>1. /\ f \in Name /\ h \in Handle /\ s \in LiveIn(dir) /\ dir[s].name = f /\ dir[s].start = c
      /\ LiveIn(dir') = LiveIn(dir) /\ dir'[s] = FileEntry(f, h)
      /\ \A x \in LiveIn(dir) : x # s => dir'[x] = dir[x]
  BY UpdateFiles
<1>2. op.pc = "update" /\ op' = Idle /\ UNCHANGED <<fat, data, lost>>
  BY UpdateIs DEF history
<1>3. dir'[s].name = f /\ dir'[s].start = c /\ dir'[s].size = h.size /\ h.size \in Nat /\ dir[s].size \in Nat
  BY <1>1, EntryIs, TypesAre, LiveAre
<1>4. /\ IntactIn(dir', lost') = IntactIn(dir, lost)
      /\ c \notin lost => s \in IntactIn(dir, lost) /\ Good(fat, c)
  <2>1. IntactIn(dir', lost') = IntactIn(dir, lost)
    <3>1. \A x \in LiveIn(dir) : dir'[x].start = dir[x].start
      BY <1>1, <1>3
    <3> QED
      BY <1>1, <1>2, <3>1 DEF IntactIn
  <2>2. c \notin lost => s \in IntactIn(dir, lost)
    BY <1>1 DEF IntactIn
  <2> QED
    BY <1>1, <2>1, <2>2, ClaimsAre DEF ChainsOK
<1>5. ASSUME c \notin lost PROVE Store!Only(f) /\ Files[f] = u /\ Files'[f] = t
  <2>1. \A x \in IntactIn(dir, lost) : x # s =>
            /\ dir'[x] = dir[x]
            /\ \A y \in ChainIn(fat, dir[x].start) : fat'[y] = fat[y] /\ data'[y] = data[y]
    BY <1>1, <1>2 DEF IntactIn
  <2>2. dir'[s].name = dir[s].name
    BY <1>1, <1>3
  <2> HIDE DEF s, c
  <2>3. /\ Store!Only(dir[s].name) /\ Files[dir[s].name] = u
        /\ Files'[dir[s].name] = BodyIn(fat', data', dir'[s])
    BY <1>4, <1>5, <2>1, <2>2, OneChanges
  <2> QED
    BY <1>1, <1>2, <2>3
<1>6. u \in Seq(Byte) /\ Len(u) = dir[s].size /\ t \in Seq(Byte) /\ Len(t) = h.size
  BY <1>3, TypesAre, BodyIs
<1>7. ASSUME c \notin lost PROVE \A k \in 1..h.size : k <= ClusterSize => t[k] = data[c][k]
  <2>1. Good(fat, c)
    BY <1>4, <1>7
  <2> QED
    BY <1>3, <2>1, BodyBytes
<1>8. op.mode = h.mode /\ Replacing' = {}
  BY <1>2, NoneReplaced, IdleIs DEF Written, UpdateOK
<1>9. CASE c \notin lost /\ op.mode = "write"
  <2>1. h.size = op.len /\ op.len \in Nat /\ op.len <= ClusterSize
        /\ \A k \in 1..op.len : data[c][k] = Bytes(writes, op.len)[k]
    BY <1>2, <1>9, TypesAre, OpFields DEF Written, UpdateOK
  <2> HIDE DEF t, u, c
  <2>2. \A k \in 1..op.len : t[0 + k] = Bytes(writes, op.len)[k]
    <3>1. \A k \in 1..op.len : 0 + k = k /\ k <= ClusterSize
      BY <2>1, SizeFacts
    <3> QED
      BY <1>7, <1>9, <2>1, <3>1
  <2>3. WholeIn(t, 0, 0)
    <3>1. (0 + 1)..0 = {}
      OBVIOUS
    <3> QED
      BY <3>1 DEF WholeIn
  <2>4. WholeIn(t, 0, 0 + op.len)
    BY <2>1, <2>2, <2>3, WholeJoins
  <2>5. Store!Whole(t)
    <3>1. 0 + op.len = Len(t)
      BY <1>6, <2>1
    <3> QED
      BY <1>6, <2>4, <3>1, WholeIsWhole
  <2>6. Replacing = {f}
    BY <1>2, <1>9 DEF Replacing, c
  <2>7. Store!Replace(f)
    BY <1>5, <1>8, <1>9, <2>5, <2>6 DEF Store!Replace
  <2> QED
    BY <1>1, <2>7 DEF Steps, Store!Next
<1>10. CASE c \notin lost /\ op.mode # "write"
  <2>1. h.mode = "append"
    BY <1>1, <1>8, <1>10 DEF Handle
  <2>2. AheadOK(dir[s], h, data)
    BY <1>1, <1>10, NullFacts DEF Written, AppendOK
  <2>3. /\ dir[s].size <= h.size
        /\ dir[s].size < h.size => h.size <= ClusterSize /\ WholeIn(data[c], dir[s].size, h.size)
    BY <2>1, <2>2 DEF AheadOK
  <2>4. \A k \in 1..dir[s].size : t[k] = u[k]
    <3>1. \A k \in 1..dir[s].size : k \in 1..h.size
      BY <1>3, <2>3
    <3>2. dir'[s].start = dir[s].start
      BY <1>1, <1>3
    <3> QED
      BY <1>3, <3>1, <3>2 DEF BodyIn
  <2> HIDE DEF t, u, c, s
  <2>5. Store!IsPrefix(u, t)
    BY <1>6, <2>3, <2>4, PrefixIs
  <2>6. WholeIn(t, dir[s].size, h.size)
    <3>1. CASE dir[s].size < h.size
      <4>1. \A k \in 1..h.size : k <= ClusterSize
        BY <1>3, <2>3, <3>1, SizeFacts
      <4>2. \A k \in 1..h.size : t[k] = data[c][k]
        BY <1>7, <1>10, <4>1
      <4> QED
        BY <1>3, <2>3, <3>1, <4>2, WholeSame
    <3>2. CASE ~(dir[s].size < h.size)
      <4>1. (dir[s].size + 1)..h.size = {}
        BY <1>3, <3>2
      <4> QED
        BY <4>1 DEF WholeIn
    <3> QED
      BY <3>1, <3>2
  <2>7. Store!Whole(SubSeq(t, Len(u) + 1, Len(t)))
    BY <1>3, <1>6, <2>3, <2>6, WholeBehind
  <2>8. Replacing = {}
    BY <1>10, NoneReplaced
  <2>9. Store!Grow(f)
    BY <1>5, <1>8, <1>10, <2>5, <2>7, <2>8 DEF Store!Grow
  <2> QED
    BY <1>1, <2>9 DEF Steps, Store!Next
<1>11. CASE c \in lost
  <2>1. \A x \in IntactIn(dir, lost) : x # s
    BY <1>1, <1>11 DEF IntactIn
  <2>2. \A x \in IntactIn(dir, lost) : dir'[x] = dir[x]
    BY <1>1, <2>1 DEF IntactIn
  <2>3. Files' = Files
    BY <1>2, <1>4, <2>2, FilesKept
  <2>4. Replacing = {}
    BY <1>11, NoneReplaced
  <2> QED
    BY <1>8, <2>3, <2>4 DEF Steps
<1> QED
  BY <1>9, <1>10, <1>11

LEMMA EveryStep ==
  ASSUME StoreInv, StoreInv', [Next]_vars, Sound'
  PROVE  Steps
<1>1. Types /\ Claims /\ Written /\ Types' /\ Claims'
  <2>1. Sound
    BY SoundBefore
  <2> QED
    BY <2>1 DEF StoreInv, FatInv
<1>2. CASE UNCHANGED vars
  <2>1. UNCHANGED <<fat, data, dir, op, handles, lost>>
    BY <1>2 DEF vars, card, history
  <2> QED
    BY <2>1, CardKept DEF Steps, Replacing
<1>3. ASSUME NEW f \in Name, (\E mode \in {"write", "append"} : Open(f, mode)) \/ Close(f) PROVE Steps
  BY <1>3, OpenSteps DEF Mode, Steps
<1>4. ASSUME NEW f \in Name, NEW len \in Lens, Write(f, len) PROVE Steps
  BY <1>1, <1>4, WriteSteps
<1>5. ASSUME NEW sector, GiveUp(sector) PROVE Steps
  BY <1>1, <1>5, GivenUp DEF GiveUp
<1>6. ASSUME NEW f \in Name, Delete(f) PROVE Steps
  BY <1>1, <1>5, <1>6, DeleteSteps
<1>7. CASE Allocate \/ Mark \/ Pad \/ Unlink
  BY <1>1, <1>7, QuietSteps DEF Steps
<1>8. CASE Entry
  BY <1>1, <1>5, <1>8, PlaceEntrySteps, OutsideUnsound DEF Entry
<1>9. CASE Link
  BY <1>1, <1>9, ClaimsAre DEF Link, MakingOK
<1>10. CASE SectorStep
  BY <1>1, <1>5, <1>10, WriteSectorSteps, OutsideUnsound DEF SectorStep
<1>11. CASE Update
  BY <1>1, <1>5, <1>11, UpdateSteps
<1>12. CASE Misread
  BY <1>12, AstrayUnsound DEF Misread
<1>13. CASE Crash
  BY <1>1, <1>13, GivenUp DEF Crash
<1> QED
  BY <1>2, <1>3, <1>4, <1>6, <1>7, <1>8, <1>9, <1>10, <1>11, <1>12, <1>13 DEF Next

(* The files on the card change as FileStore says, until one of the        *)
(* defects: one at a time, appends as a whole or not at all, never another *)
(* file.  So it is when power goes and when writes fail, for all files but *)
(* those of a cluster whose mark in the FAT was lost.                      *)
THEOREM SdFatRefinesStore == Spec => RefinesStore
<1>1. Init => Store!Init
  <2> SUFFICES ASSUME Init PROVE Store!Init
    OBVIOUS
  <2>1. Replacing = {}
    BY InitIs, NoneReplaced, IdleIs
  <2>2. DOMAIN Files \subseteq Name
    BY DEF Files
  <2> QED
    BY <2>1, <2>2 DEF Store!Init
<1>2. StoreInv /\ StoreInv' /\ [Next]_vars => [Sound' => Store!Next]_<<Files, Replacing>>
  BY EveryStep DEF Steps
<1> QED
  BY <1>1, <1>2, StoreInvHolds, PTL DEF Spec, RefinesStore
=============================================================================
