-------------------------- MODULE SdFatReadProofs ---------------------------
(***************************************************************************)
(* Proofs about SdFatRead for every set of files, every size of a sector,  *)
(* of a cluster and of the files, and every length that is read: a file    *)
(* whose reading nothing has disturbed is read right, although the place   *)
(* of the reading is kept in variables that all files share.               *)
(***************************************************************************)
EXTENDS SdFatRead, SequenceTheorems, TLAPS

-----------------------------------------------------------------------------
(* The invariant.                                                          *)
Cluster == [file : Name \cup {Other, Eoc}, at : Int]
Sector == [file : Name \cup {Other}, sector : Int]
Byte == [file : Name \cup {Other}, pos : Int]
Call == [pc : {"none", "loop", "failed", "ended", "done"}, file : Name \cup {Other},
         from : Nat, left : Nat, got : Seq(Byte), astray : BOOLEAN]

TypeInv ==
    /\ length \in [Name -> Nat \ {0}]
    /\ cluster \in Cluster /\ sectorIndex \in Int /\ sdBuffer \in Sector
    /\ entryIndex \in [Name -> Nat]
    /\ call \in Call
    /\ call.pc = "loop" => Caller \in Name
    /\ astray \in [Name -> SUBSET {"buffer", "shared", "failed"}]

(* A file that is read right has not come to its end, and one at its start *)
(* has not been disturbed.                                                 *)
InFile ==
    \A f \in Name :
        /\ entryIndex[f] = 0 => astray[f] = {}
        /\ entryIndex[f] # 0 /\ astray[f] = {} => (entryIndex[f] - 1) \div ClusterSize < length[f]

(* The call in progress: it knows if it was disturbed, it has read up to   *)
(* the position of its file, and at the start of the file it is in the     *)
(* first cluster.                                                          *)
InCall ==
    call.pc = "loop" =>
        /\ call.astray <=> astray[Caller] # {}
        /\ Position = call.from + Len(call.got)
        /\ Position = 0 => cluster = ClusterOf(Caller, 1) /\ sectorIndex = 0

ReadInv == TypeInv /\ InFile /\ InCall /\ CursorTrue /\ ReadTrue

-----------------------------------------------------------------------------
(* Positions.  Byte n of a file is byte b of sector j of cluster k.        *)

LEMMA ConstantFacts ==
  /\ SectorSize \in Nat \ {0} /\ Sectors \in Nat \ {0} /\ ClusterSize \in Nat \ {0}
  /\ ClusterSize = Sectors * SectorSize
  /\ IndexMod \in Nat /\ Sectors < IndexMod
  /\ Other \notin Name /\ Eoc \notin Name /\ Eoc # Other
BY ReadAssumption DEF ClusterSize

LEMMA DivMod ==
  ASSUME NEW m \in Nat \ {0}, NEW a \in Int
  PROVE  a % m \in 0 .. m - 1 /\ a \div m \in Int /\ a = m * (a \div m) + (a % m)
OBVIOUS

LEMMA DivModOf ==
  ASSUME NEW m \in Nat \ {0}, NEW q \in Int, NEW r \in 0 .. m - 1
  PROVE  (m * q + r) % m = r /\ (m * q + r) \div m = q
OBVIOUS

LEMMA TimesGrows ==
  ASSUME NEW m \in Nat, NEW a \in Int, NEW b \in Int, a <= b
  PROVE  m * a <= m * b
OBVIOUS

At(n, k, j, b) ==
    /\ k \in Int /\ j \in 0 .. Sectors - 1 /\ b \in 0 .. SectorSize - 1
    /\ n = (k * Sectors + j) * SectorSize + b

LEMMA AtSplits ==
  ASSUME NEW k \in Int, NEW j \in Int, NEW b \in Int
  PROVE  (k * Sectors + j) * SectorSize + b = ClusterSize * k + (SectorSize * j + b)
<1>1. SectorSize \in Int /\ Sectors \in Int
  BY ConstantFacts
<1>2. (k * Sectors) * SectorSize = (Sectors * SectorSize) * k
  BY <1>1
<1>3. (k * Sectors + j) * SectorSize = (k * Sectors) * SectorSize + SectorSize * j
  BY <1>1
<1> QED
  BY <1>1, <1>2, <1>3 DEF ClusterSize

LEMMA SectorInCluster ==
  ASSUME NEW j \in Int, NEW b \in 0 .. SectorSize - 1
  PROVE  SectorSize * j + b \in 0 .. ClusterSize - 1 <=> j \in 0 .. Sectors - 1
<1>1. SectorSize \in Nat \ {0} /\ Sectors \in Nat \ {0}
  BY ConstantFacts
<1>2. ClusterSize = SectorSize * Sectors
  BY <1>1 DEF ClusterSize
<1>3. CASE j < 0
  <2>1. SectorSize * j <= SectorSize * (0 - 1)
    BY <1>1, <1>3, TimesGrows
  <2> QED
    BY <1>1, <1>3, <2>1
<1>4. CASE j >= Sectors
  <2>1. SectorSize * Sectors <= SectorSize * j
    BY <1>1, <1>4, TimesGrows
  <2> QED
    BY <1>1, <1>2, <1>4, <2>1
<1>5. CASE j \in 0 .. Sectors - 1
  <2>1. SectorSize * j <= SectorSize * (Sectors - 1)
    BY <1>1, <1>5, TimesGrows
  <2>2. SectorSize * 0 <= SectorSize * j
    BY <1>1, <1>5, TimesGrows
  <2>3. SectorSize * (Sectors - 1) = SectorSize * Sectors - SectorSize
    BY <1>1
  <2> QED
    BY <1>1, <1>2, <1>5, <2>1, <2>2, <2>3
<1> QED
  BY <1>1, <1>3, <1>4, <1>5

LEMMA AtIs ==
  ASSUME NEW n, NEW k, NEW j, NEW b, At(n, k, j, b)
  PROVE  /\ n \in Int
         /\ n \div ClusterSize = k /\ (n % ClusterSize) \div SectorSize = j
         /\ n % SectorSize = b /\ n \div SectorSize = k * Sectors + j
         /\ n % ClusterSize = 0 <=> j = 0 /\ b = 0
<1>1. /\ SectorSize \in Nat \ {0} /\ Sectors \in Nat \ {0} /\ ClusterSize \in Nat \ {0}
      /\ k \in Int /\ j \in Int /\ b \in Int /\ j \in 0 .. Sectors - 1 /\ b \in 0 .. SectorSize - 1
  BY ConstantFacts DEF At
<1>2. n = ClusterSize * k + (SectorSize * j + b)
  BY <1>1, AtSplits DEF At
<1>3. SectorSize * j + b \in 0 .. ClusterSize - 1
  BY <1>1, SectorInCluster
<1>4. n \div ClusterSize = k /\ n % ClusterSize = SectorSize * j + b
  BY <1>1, <1>2, <1>3, DivModOf
<1>5. (SectorSize * j + b) \div SectorSize = j
  BY <1>1, DivModOf
<1>6. k * Sectors + j \in Int
  BY <1>1
<1>7. n = SectorSize * (k * Sectors + j) + b
  BY <1>1, <1>6 DEF At
<1>8. n % SectorSize = b /\ n \div SectorSize = k * Sectors + j
  BY <1>1, <1>6, <1>7, DivModOf
<1>9. SectorSize * j + b = 0 <=> j = 0 /\ b = 0
  BY <1>1, TimesGrows, SectorSize * 1 = SectorSize
<1>10. n \in Int
  BY <1>1, <1>7
<1> QED
  BY <1>4, <1>5, <1>8, <1>9, <1>10

LEMMA AtExists ==
  ASSUME NEW n \in Nat
  PROVE  \E k \in Nat, j \in 0 .. Sectors - 1, b \in 0 .. SectorSize - 1 : At(n, k, j, b)
<1> DEFINE k == n \div ClusterSize
           r == n % ClusterSize
           j == r \div SectorSize
           b == r % SectorSize
<1>1. SectorSize \in Nat \ {0} /\ Sectors \in Nat \ {0} /\ ClusterSize \in Nat \ {0}
  BY ConstantFacts
<1>2. k \in Int /\ r \in 0 .. ClusterSize - 1 /\ n = ClusterSize * k + r
  BY <1>1, DivMod
<1>3. k \in Nat
  <2>1. SUFFICES ASSUME k <= 0 - 1 PROVE FALSE
    BY <1>2
  <2>2. ClusterSize * k <= ClusterSize * (0 - 1)
    BY <1>1, <1>2, <2>1, TimesGrows
  <2> QED
    BY <1>1, <1>2, <2>2
<1> HIDE DEF k, r
<1>4. r \in Int
  BY <1>1, <1>2
<1>5. j \in Int /\ b \in 0 .. SectorSize - 1 /\ r = SectorSize * j + b
  BY <1>1, <1>4, DivMod
<1> HIDE DEF j, b
<1>6. j \in 0 .. Sectors - 1
  BY <1>2, <1>5, SectorInCluster
<1>7. n = (k * Sectors + j) * SectorSize + b
  <2>1. b \in Int
    BY <1>1, <1>5
  <2> QED
    BY <1>2, <1>5, <2>1, AtSplits
<1> QED
  BY <1>2, <1>3, <1>5, <1>6, <1>7 DEF At

(* The byte before.                                                        *)
LEMMA AtBefore ==
  ASSUME NEW n \in Nat, NEW k, NEW j, NEW b, At(n, k, j, b)
  PROVE  /\ b > 0 => At(n - 1, k, j, b - 1)
         /\ b = 0 /\ j > 0 => At(n - 1, k, j - 1, SectorSize - 1)
         /\ b = 0 /\ j = 0 => At(n - 1, k - 1, Sectors - 1, SectorSize - 1)
<1>1. /\ SectorSize \in Nat \ {0} /\ Sectors \in Nat \ {0}
      /\ k \in Int /\ j \in Int /\ b \in Int /\ j \in 0 .. Sectors - 1 /\ b \in 0 .. SectorSize - 1
      /\ n = (k * Sectors + j) * SectorSize + b
  BY ConstantFacts DEF At
<1>2. ASSUME b > 0 PROVE At(n - 1, k, j, b - 1)
  BY <1>1, <1>2 DEF At
<1>3. ASSUME b = 0, j > 0 PROVE At(n - 1, k, j - 1, SectorSize - 1)
  <2>1. k * Sectors \in Int
    BY <1>1
  <2>2. k * Sectors + (j - 1) = (k * Sectors + j) - 1 /\ k * Sectors + j \in Int
    BY <1>1, <2>1
  <2>3. ((k * Sectors + j) - 1) * SectorSize = (k * Sectors + j) * SectorSize - SectorSize
    BY <1>1, <2>2
  <2> QED
    BY <1>1, <1>3, <2>2, <2>3 DEF At
<1>4. ASSUME b = 0, j = 0 PROVE At(n - 1, k - 1, Sectors - 1, SectorSize - 1)
  <2>1. k * Sectors \in Int /\ (k - 1) * Sectors = k * Sectors - Sectors
    BY <1>1
  <2>2. (k - 1) * Sectors + (Sectors - 1) = (k * Sectors) - 1
    BY <1>1, <2>1
  <2>3. ((k * Sectors) - 1) * SectorSize = (k * Sectors) * SectorSize - SectorSize
    BY <1>1, <2>1
  <2>4. n = (k * Sectors) * SectorSize
    BY <1>1, <1>4, <2>1
  <2> QED
    BY <1>1, <1>4, <2>2, <2>3, <2>4 DEF At
<1> QED
  BY <1>2, <1>3, <1>4

-----------------------------------------------------------------------------
(* One round of the loop of fileRead.                                      *)

(* Where an undisturbed file is, told by the byte before its position.     *)
LEMMA CursorIs ==
  ASSUME ReadInv, NEW f \in Name, entryIndex[f] # 0, astray[f] = {},
         NEW k, NEW j, NEW b, At(entryIndex[f] - 1, k, j, b)
  PROVE  /\ cluster = ClusterOf(f, k + 1) /\ k < length[f]
         /\ sectorIndex = (j + 1) % IndexMod
         /\ MidSector(f) => sdBuffer = [file |-> f, sector |-> k * Sectors + j]
BY AtIs DEF ReadInv, CursorTrue, InFile

(* The end of the chain is found at the end of the last cluster, and else  *)
(* the round is in the cluster, and if it is the first of its sector then  *)
(* at the sector, that the position belongs to.                            *)
LEMMA PlaceTrue ==
  ASSUME ReadInv, call.pc = "loop", ~call.astray,
         NEW k \in Nat, NEW j, NEW b, At(Position, k, j, b)
  PROVE  /\ ChainEnds(Place) => Position = Bytes(Caller)
         /\ ~ChainEnds(Place) =>
               /\ Place.cluster = ClusterOf(Caller, k + 1) /\ k < length[Caller]
               /\ NewSector => Place.sector = j
<1>1. /\ Caller \in Name /\ length[Caller] \in Nat \ {0} /\ Position \in Nat /\ astray[Caller] = {}
      /\ Position = 0 => cluster = ClusterOf(Caller, 1) /\ sectorIndex = 0
  BY DEF ReadInv, TypeInv, InCall, Position
<1>2. /\ k \in Int /\ j \in 0 .. Sectors - 1 /\ b \in 0 .. SectorSize - 1
      /\ Sectors \in Nat \ {0} /\ SectorSize \in Nat \ {0} /\ ClusterSize \in Nat \ {0}
      /\ IndexMod \in Nat /\ Sectors < IndexMod
      /\ Caller # Eoc /\ Caller # Other
  BY <1>1, ConstantFacts DEF At
<1>3. /\ AtBoundary <=> Position > 0 /\ j = 0 /\ b = 0
      /\ NewSector <=> b = 0
  BY AtIs DEF AtBoundary, NewSector
<1>4. CASE Position = 0
  <2>1. At(0, 0, 0, 0)
    BY <1>2 DEF At
  <2>2. k = 0 /\ j = 0
    BY <1>4, <2>1, AtIs
  <2> QED
    BY <1>1, <1>2, <1>3, <1>4, <2>2 DEF Place, ChainEnds, ClusterOf
<1>5. CASE AtBoundary
  <2>1. At(Position - 1, k - 1, Sectors - 1, SectorSize - 1)
    BY <1>1, <1>3, <1>5, AtBefore
  <2>2. cluster = ClusterOf(Caller, (k - 1) + 1) /\ k - 1 < length[Caller]
    <3>1. entryIndex[Caller] # 0 /\ At(entryIndex[Caller] - 1, k - 1, Sectors - 1, SectorSize - 1)
      BY <1>1, <1>3, <1>5, <2>1 DEF Position
    <3> QED
      BY <1>1, <3>1, CursorIs
  <2>3. cluster.file = Caller /\ cluster.at = k /\ k <= length[Caller]
    BY <1>1, <1>2, <2>2 DEF ClusterOf
  <2>4. Place = [cluster |-> IF k < length[Caller] THEN ClusterOf(Caller, k + 1) ELSE ClusterOf(Eoc, 1), sector |-> 0]
    BY <1>1, <1>5, <2>3 DEF Place, After
  <2>5. CASE k < length[Caller]
    BY <1>2, <1>3, <1>5, <2>4, <2>5 DEF ChainEnds, ClusterOf
  <2>6. CASE ~(k < length[Caller])
    <3>1. k = length[Caller]
      BY <1>1, <2>3, <2>6
    <3>2. Position = (k * Sectors + 0) * SectorSize + 0
      BY <1>3, <1>5 DEF At
    <3>3. (k * Sectors + 0) * SectorSize + 0 = k * (Sectors * SectorSize)
      BY <1>2
    <3>4. Position = Bytes(Caller)
      BY <3>1, <3>2, <3>3 DEF Bytes, ClusterSize
    <3>5. ChainEnds(Place)
      BY <1>5, <2>4, <2>6 DEF ChainEnds, ClusterOf
    <3> QED
      BY <3>4, <3>5
  <2> QED
    BY <2>5, <2>6
<1>6. CASE Position > 0 /\ ~AtBoundary
  <2>1. Place = [cluster |-> cluster, sector |-> sectorIndex] /\ ~ChainEnds(Place)
    BY <1>6 DEF Place, ChainEnds
  <2>2. ASSUME b > 0 PROVE cluster = ClusterOf(Caller, k + 1) /\ k < length[Caller]
    BY <1>1, <1>6, <2>2, AtBefore, CursorIs DEF Position
  <2>3. ASSUME b = 0, j > 0
        PROVE  cluster = ClusterOf(Caller, k + 1) /\ k < length[Caller] /\ sectorIndex = j
    <3>1. /\ cluster = ClusterOf(Caller, k + 1) /\ k < length[Caller]
          /\ sectorIndex = ((j - 1) + 1) % IndexMod
      BY <1>1, <1>6, <2>3, AtBefore, CursorIs DEF Position
    <3>2. j \in 0 .. IndexMod - 1 /\ (j - 1) + 1 = j /\ IndexMod * 0 + j = j /\ IndexMod \in Nat \ {0}
      BY <1>2
    <3>3. j % IndexMod = j
      BY <3>2, DivModOf
    <3> QED
      BY <3>1, <3>2, <3>3
  <2> QED
    BY <1>2, <1>3, <1>6, <2>1, <2>2, <2>3
<1> QED
  BY <1>1, <1>4, <1>5, <1>6

(* A round that is led astray by the FAT is one at a new sector.           *)
LEMMA LostAtBoundary ==
  ASSUME ReadInv, call.pc = "loop", NEW p \in Places
  PROVE  /\ AtBoundary => NewSector
         /\ p # Place => AtBoundary
         /\ p \in [cluster : Cluster, sector : Int]
<1>1. Position \in Nat /\ Caller \in Name
  BY DEF ReadInv, TypeInv, Position
<1>2. AtBoundary => NewSector
  <2>1. PICK k \in Nat, j \in 0 .. Sectors - 1, b \in 0 .. SectorSize - 1 : At(Position, k, j, b)
    BY <1>1, AtExists
  <2> QED
    BY <2>1, AtIs DEF AtBoundary, NewSector
<1>3. p # Place => AtBoundary
  BY DEF Places, Misplaced
<1>4. Strange \in Cluster /\ ClusterOf(Eoc, 1) \in Cluster
  BY DEF Strange, ClusterOf, Cluster
<1>5. After(cluster) \in Cluster
  BY <1>4 DEF After, ClusterOf, Cluster, ReadInv, TypeInv
<1>6. Place \in [cluster : Cluster, sector : Int]
  BY <1>5 DEF Place, ReadInv, TypeInv
<1> QED
  BY <1>2, <1>3, <1>4, <1>6 DEF Places, Misplaced

(* The byte an undisturbed round gets is the one at the position, and what *)
(* it leaves behind belongs to that position.                              *)
LEMMA ByteTrue ==
  ASSUME ReadInv, call.pc = "loop", ~call.astray, ReadByte(Place)
  PROVE  /\ ByteAt(sdBuffer', Position % SectorSize) = [file |-> Caller, pos |-> Position]
         /\ cluster' = ClusterOf(Caller, (Position \div ClusterSize) + 1)
         /\ Position \div ClusterSize < length[Caller]
         /\ sectorIndex' = (((Position % ClusterSize) \div SectorSize) + 1) % IndexMod
         /\ sdBuffer' = [file |-> Caller, sector |-> Position \div SectorSize]
<1>1. /\ Caller \in Name /\ Position \in Nat /\ astray[Caller] = {}
      /\ Position = 0 => cluster = ClusterOf(Caller, 1) /\ sectorIndex = 0
      /\ Caller # Other
  BY ConstantFacts DEF ReadInv, TypeInv, InCall, Position
<1>2. PICK k \in Nat, j \in 0 .. Sectors - 1, b \in 0 .. SectorSize - 1 : At(Position, k, j, b)
  BY <1>1, AtExists
<1>3. /\ Position \div ClusterSize = k /\ (Position % ClusterSize) \div SectorSize = j
      /\ Position % SectorSize = b /\ Position \div SectorSize = k * Sectors + j
      /\ NewSector <=> b = 0
  BY <1>2, AtIs DEF NewSector
<1>4. Place.cluster = ClusterOf(Caller, k + 1) /\ k < length[Caller] /\ (NewSector => Place.sector = j)
  BY <1>2, PlaceTrue DEF ReadByte
<1>5. cluster' = ClusterOf(Caller, k + 1)
  BY <1>4 DEF ReadByte
<1>6. /\ SectorSize \in Nat \ {0} /\ Sectors \in Nat \ {0} /\ k \in Int /\ j \in Int /\ b \in Int
      /\ k * Sectors + j \in Int /\ Position = (k * Sectors + j) * SectorSize + b
  BY <1>2, ConstantFacts DEF At
<1>7. ASSUME NewSector
      PROVE  sdBuffer' = [file |-> Caller, sector |-> k * Sectors + j] /\ sectorIndex' = (j + 1) % IndexMod
  <2>1. sdBuffer' = SectorAt(ClusterOf(Caller, k + 1), j) /\ sectorIndex' = NextIndex(j)
    BY <1>4, <1>7 DEF ReadByte
  <2>2. (k + 1) - 1 = k /\ j < Sectors
    BY <1>2, <1>6
  <2> QED
    BY <1>1, <2>1, <2>2 DEF SectorAt, ClusterOf, NextIndex
<1>8. ASSUME ~NewSector
      PROVE  sdBuffer' = [file |-> Caller, sector |-> k * Sectors + j] /\ sectorIndex' = (j + 1) % IndexMod
  <2>1. b > 0 /\ entryIndex[Caller] # 0 /\ MidSector(Caller)
    <3>1. b > 0
      BY <1>2, <1>3, <1>8
    <3>2. Position # 0
      BY <1>3, <1>8, ConstantFacts, DivModOf, SectorSize * 0 + 0 = 0 DEF NewSector
    <3> QED
      BY <1>8, <3>1, <3>2 DEF Position, MidSector, NewSector
  <2>2. At(entryIndex[Caller] - 1, k, j, b - 1)
    BY <1>1, <1>2, <2>1, AtBefore DEF Position
  <2> QED
    BY <1>1, <1>8, <2>1, <2>2, CursorIs DEF ReadByte
<1>9. sdBuffer' = [file |-> Caller, sector |-> k * Sectors + j] /\ sectorIndex' = (j + 1) % IndexMod
  BY <1>7, <1>8
<1>10. sdBuffer' # NoSector
  BY <1>1, <1>9 DEF NoSector
<1>11. ByteAt(sdBuffer', b) = [file |-> Caller, pos |-> Position]
  BY <1>6, <1>9, <1>10 DEF ByteAt
<1> QED
  BY <1>3, <1>4, <1>5, <1>9, <1>11

-----------------------------------------------------------------------------
(* The steps.                                                              *)

LEMMA StraysType ==
  ASSUME ReadInv, NEW hit \in [Name -> SUBSET {"buffer", "shared", "failed"}], Strays(hit)
  PROVE  /\ astray' \in [Name -> SUBSET {"buffer", "shared", "failed"}]
         /\ \A f \in Name : entryIndex'[f] = 0 => astray'[f] = {}
         /\ \A f \in Name : entryIndex'[f] # 0 => astray'[f] = astray[f] \cup hit[f]
BY DEF Strays, ReadInv, TypeInv

LEMMA HitsTyped ==
  /\ Unharmed \in [Name -> SUBSET {"buffer", "shared", "failed"}]
  /\ BufferLost \in [Name -> SUBSET {"buffer", "shared", "failed"}]
  /\ \A mine \in SUBSET {"buffer", "shared", "failed"} :
        OthersLost(mine) \in [Name -> SUBSET {"buffer", "shared", "failed"}]
BY DEF Unharmed, BufferLost, OthersLost

LEMMA InitReads ==
  ASSUME Init
  PROVE  ReadInv
<1>1. TypeInv
  <2>1. MaxClusters \in Nat \ {0} /\ \A m \in 1 .. MaxClusters : m \in Nat \ {0}
    BY ReadAssumption
  <2>2. length \in [Name -> Nat \ {0}]
    BY <2>1 DEF Init
  <2>3. <<>> \in Seq(Byte)
    BY EmptySeq
  <2> QED
    BY <2>2, <2>3 DEF Init, TypeInv, Cluster, Sector, Call, Strange, ClusterOf, NoSector, NoCall
<1>2. InFile /\ InCall /\ CursorTrue /\ ReadTrue
  BY DEF Init, InFile, InCall, CursorTrue, ReadTrue, NoCall
<1> QED
  BY <1>1, <1>2 DEF ReadInv

(* What holds of the files when no cursor has moved, and those that have   *)
(* lost their sector out of its middle count as disturbed.                 *)
LEMMA CursorKept ==
  ASSUME ReadInv,
         UNCHANGED <<length, cluster, sectorIndex>>,
         entryIndex' \in [Name -> Nat],
         \A f \in Name : entryIndex'[f] = 0 => astray'[f] = {},
         \A f \in Name : entryIndex'[f] # 0 =>
             /\ entryIndex'[f] = entryIndex[f]
             /\ astray'[f] = {} => astray[f] = {} /\ (MidSector(f) => sdBuffer' = sdBuffer)
  PROVE  InFile' /\ CursorTrue'
<1>1. \A f \in Name : entryIndex'[f] # 0 => (MidSector(f)' <=> MidSector(f))
  BY DEF MidSector
<1>2. CursorTrue'
  BY <1>1 DEF CursorTrue, ReadInv, TypeInv
<1>3. InFile'
  BY DEF InFile, ReadInv, TypeInv
<1> QED
  BY <1>2, <1>3

LEMMA OpenReads ==
  ASSUME ReadInv, NEW f \in Name, Open(f)
  PROVE  ReadInv'
<1>1. /\ astray' \in [Name -> SUBSET {"buffer", "shared", "failed"}]
      /\ \A g \in Name : entryIndex'[g] = 0 => astray'[g] = {}
      /\ \A g \in Name : entryIndex'[g] # 0 => astray'[g] = astray[g] \cup BufferLost[g]
  BY HitsTyped, StraysType DEF Open
<1>2. entryIndex' \in [Name -> Nat] /\ \A g \in Name : entryIndex'[g] # 0 => entryIndex'[g] = entryIndex[g]
  BY DEF Open, ReadInv, TypeInv
<1>3. TypeInv'
  BY <1>1, <1>2 DEF Open, ReadInv, TypeInv, NoSector, Sector, Caller
<1>4. InFile' /\ CursorTrue'
  <2>1. \A g \in Name : BufferLost[g] = {} => ~MidSector(g)
    BY DEF BufferLost
  <2> QED
    BY <1>1, <1>2, <2>1, CursorKept DEF Open
<1>5. InCall' /\ ReadTrue'
  BY DEF Open, ReadInv, InCall, ReadTrue, Idle, Bytes, Caller
<1> QED
  BY <1>3, <1>4, <1>5 DEF ReadInv

LEMMA ResetReads ==
  ASSUME ReadInv, NEW f \in Name, Reset(f)
  PROVE  ReadInv'
<1>1. /\ astray' \in [Name -> SUBSET {"buffer", "shared", "failed"}]
      /\ \A g \in Name : entryIndex'[g] = 0 => astray'[g] = {}
      /\ \A g \in Name : entryIndex'[g] # 0 => astray'[g] = astray[g] \cup Unharmed[g]
  BY HitsTyped, StraysType DEF Reset
<1>2. entryIndex' \in [Name -> Nat] /\ \A g \in Name : entryIndex'[g] # 0 => entryIndex'[g] = entryIndex[g]
  BY DEF Reset, ReadInv, TypeInv
<1>3. TypeInv'
  BY <1>1, <1>2 DEF Reset, ReadInv, TypeInv, Caller
<1>4. InFile' /\ CursorTrue'
  BY <1>1, <1>2, CursorKept DEF Reset
<1>5. InCall' /\ ReadTrue'
  BY DEF Reset, ReadInv, InCall, ReadTrue, Idle, Bytes, Caller
<1> QED
  BY <1>3, <1>4, <1>5 DEF ReadInv

LEMMA BeginReads ==
  ASSUME ReadInv, NEW f \in Name, NEW len \in Lens, ReadBegin(f, len)
  PROVE  ReadInv'
<1> DEFINE hit == IF entryIndex[f] = 0 THEN [g \in Name |-> IF g = f THEN {} ELSE {"shared"}]
                  ELSE IF f \in Long THEN BufferLost ELSE Unharmed
<1>1. Strays(hit) /\ hit \in [Name -> SUBSET {"buffer", "shared", "failed"}]
  BY HitsTyped DEF ReadBegin
<1>2. /\ astray' \in [Name -> SUBSET {"buffer", "shared", "failed"}]
      /\ \A g \in Name : entryIndex'[g] = 0 => astray'[g] = {}
      /\ \A g \in Name : entryIndex'[g] # 0 => astray'[g] = astray[g] \cup hit[g]
  BY <1>1, StraysType
<1>3. UNCHANGED <<length, entryIndex>> /\ entryIndex \in [Name -> Nat]
  BY DEF ReadBegin, ReadInv, TypeInv
<1>4. call' = [pc |-> "loop", file |-> f, from |-> entryIndex[f], left |-> len, got |-> <<>>, astray |-> astray'[f] # {}]
  BY DEF ReadBegin, NoCall
<1>5. call' \in Call
  <2>1. len \in Nat /\ <<>> \in Seq(Byte)
    BY ReadAssumption, EmptySeq
  <2> QED
    BY <1>3, <1>4, <2>1 DEF Call
<1>6. TypeInv'
  <2>1. cluster' \in Cluster /\ sectorIndex' \in Int
    BY DEF ReadBegin, ReadInv, TypeInv, Cluster, ClusterOf
  <2>2. sdBuffer' \in Sector
    BY DEF ReadBegin, ReadInv, TypeInv, Sector, NoSector
  <2> QED
    BY <1>2, <1>3, <1>4, <1>5, <2>1, <2>2 DEF ReadInv, TypeInv, Caller
<1>7. InFile' /\ CursorTrue'
  <2>1. CASE entryIndex[f] = 0
    <3>1. \A g \in Name : entryIndex'[g] # 0 => astray'[g] # {}
      BY <1>2, <1>3, <2>1
    <3> QED
      BY <1>2, <3>1 DEF InFile, CursorTrue
  <2>2. CASE entryIndex[f] # 0
    <3>1. UNCHANGED <<cluster, sectorIndex>>
      BY <2>2 DEF ReadBegin
    <3>2. \A g \in Name : entryIndex'[g] # 0 /\ astray'[g] = {} =>
              astray[g] = {} /\ (MidSector(g) => sdBuffer' = sdBuffer)
      BY <1>2, <2>2 DEF BufferLost, ReadBegin
    <3> QED
      BY <1>2, <1>3, <3>1, <3>2, CursorKept
  <2> QED
    BY <2>1, <2>2
<1>8. InCall' /\ ReadTrue'
  <2>1. Caller' = f /\ Position' = entryIndex[f] /\ Len(call'.got) = 0 /\ DOMAIN call'.got = {}
    BY <1>3, <1>4, EmptySeq DEF Caller, Position
  <2>2. Position' = 0 => cluster' = ClusterOf(f, 1) /\ sectorIndex' = 0
    BY <2>1 DEF ReadBegin
  <2>3. call'.astray <=> astray'[f] # {}
    BY <1>4
  <2>4. Position' = call'.from + Len(call'.got)
    BY <1>3, <1>4, <2>1
  <2>5. InCall'
    BY <2>1, <2>2, <2>3, <2>4 DEF InCall
  <2> QED
    BY <1>4, <2>1, <2>5 DEF ReadTrue
<1> QED
  BY <1>6, <1>7, <1>8 DEF ReadInv

LEMMA ByteReads ==
  ASSUME ReadInv, call.pc = "loop", call.left > 0, NEW p \in Places, ReadByte(p)
  PROVE  ReadInv'
<1> DEFINE hit == IF NewSector THEN OthersLost(IF Lost(p) THEN {"failed"} ELSE {}) ELSE Unharmed
           byte == ByteAt(sdBuffer', Position % SectorSize)
<1>1. /\ Caller \in Name /\ Position \in Nat /\ Position = entryIndex[Caller]
      /\ call \in Call /\ call.got \in Seq(Byte)
      /\ p.cluster \in Cluster /\ p.sector \in Int
  BY LostAtBoundary DEF ReadInv, TypeInv, Position, Call
<1>2. Strays(hit) /\ hit \in [Name -> SUBSET {"buffer", "shared", "failed"}]
  BY HitsTyped DEF ReadByte
<1>3. /\ astray' \in [Name -> SUBSET {"buffer", "shared", "failed"}]
      /\ \A g \in Name : entryIndex'[g] = 0 => astray'[g] = {}
      /\ \A g \in Name : entryIndex'[g] # 0 => astray'[g] = astray[g] \cup hit[g]
  BY <1>2, StraysType
<1>4. /\ entryIndex' \in [Name -> Nat] /\ entryIndex'[Caller] = Position + 1
      /\ \A g \in Name \ {Caller} : entryIndex'[g] = entryIndex[g]
  BY <1>1 DEF ReadByte, ReadInv, TypeInv
<1>5. cluster' \in Cluster /\ sectorIndex' \in Int /\ sdBuffer' \in Sector
  <2>1. cluster' \in Cluster
    BY <1>1 DEF ReadByte
  <2>2. NextIndex(p.sector) \in Int
    <3>1. IndexMod \in Nat \ {0} /\ p.sector + 1 \in Int
      BY <1>1, ConstantFacts
    <3> QED
      BY <3>1, DivMod DEF NextIndex
  <2>3. SectorAt(p.cluster, p.sector) \in Sector
    <3>1. Sectors \in Nat \ {0}
      BY ConstantFacts
    <3>2. (p.cluster.at - 1) * Sectors + p.sector \in Int
      BY <1>1, <3>1 DEF Cluster
    <3> QED
      BY <1>1, <3>2 DEF SectorAt, Sector, NoSector
  <2> QED
    BY <2>1, <2>2, <2>3 DEF ReadByte, ReadInv, TypeInv
<1>6. byte \in Byte
  <2> DEFINE offset == Position % SectorSize
  <2>1. SectorSize \in Nat \ {0} /\ Position \in Int
    BY <1>1, ConstantFacts
  <2>2. offset \in Int
    BY <2>1, DivMod
  <2> HIDE DEF offset
  <2>3. sdBuffer'.sector * SectorSize + offset \in Int
    BY <1>5, <2>1, <2>2 DEF Sector
  <2>4. ByteAt(sdBuffer', offset) \in Byte
    BY <1>5, <2>3 DEF ByteAt, Byte, Sector
  <2> QED
    BY <2>4 DEF offset
<1>7. /\ call' = [call EXCEPT !.left = @ - 1, !.astray = @ \/ Lost(p), !.got = Append(@, byte)]
      /\ Append(call.got, byte) \in Seq(Byte) /\ call.left - 1 \in Nat
  BY <1>1, <1>6 DEF ReadByte, Call
<1>8. /\ call'.pc = "loop" /\ call'.file = call.file /\ call'.from = call.from
      /\ call'.got = Append(call.got, byte) /\ (call'.astray <=> call.astray \/ Lost(p))
  BY <1>1, <1>7 DEF Call
<1>9. call' \in Call
  BY <1>1, <1>7 DEF Call
<1>10. TypeInv'
  BY <1>1, <1>3, <1>4, <1>5, <1>8, <1>9 DEF ReadByte, ReadInv, TypeInv, Caller
<1>11. call'.astray <=> astray'[Caller] # {}
  <2>1. call.astray <=> astray[Caller] # {}
    BY DEF ReadInv, InCall
  <2>2. astray'[Caller] = astray[Caller] \cup hit[Caller]
    BY <1>1, <1>3, <1>4
  <2>3. hit[Caller] = IF Lost(p) THEN {"failed"} ELSE {}
    BY <1>1, LostAtBoundary DEF OthersLost, Unharmed, Lost
  <2> QED
    BY <1>8, <2>1, <2>2, <2>3
<1>12. ASSUME ~call'.astray
       PROVE  /\ byte = [file |-> Caller, pos |-> Position]
              /\ cluster' = ClusterOf(Caller, (Position \div ClusterSize) + 1)
              /\ Position \div ClusterSize < length[Caller]
              /\ sectorIndex' = (((Position % ClusterSize) \div SectorSize) + 1) % IndexMod
              /\ sdBuffer' = [file |-> Caller, sector |-> Position \div SectorSize]
  <2>1. ~call.astray /\ p = Place
    BY <1>8, <1>12 DEF Lost
  <2> QED
    BY <2>1, ByteTrue
<1>13. ASSUME NEW g \in Name, g # Caller, entryIndex'[g] # 0, astray'[g] = {}
       PROVE  /\ ~NewSector /\ astray[g] = {} /\ entryIndex'[g] = entryIndex[g] /\ entryIndex[g] # 0
              /\ UNCHANGED <<cluster, sectorIndex, sdBuffer>>
  <2>1. ~NewSector /\ astray[g] = {}
    BY <1>3, <1>13 DEF OthersLost
  <2>2. p.cluster = cluster
    BY <2>1, LostAtBoundary DEF Place
  <2> QED
    BY <1>4, <1>13, <2>1, <2>2 DEF ReadByte
<1>14. CursorTrue'
  <2> SUFFICES ASSUME NEW g \in Name, entryIndex'[g] # 0, astray'[g] = {}
               PROVE  /\ cluster' = ClusterOf(g, ((entryIndex'[g] - 1) \div ClusterSize) + 1)
                      /\ sectorIndex' = ((((entryIndex'[g] - 1) % ClusterSize) \div SectorSize) + 1) % IndexMod
                      /\ MidSector(g)' => sdBuffer' = [file |-> g, sector |-> (entryIndex'[g] - 1) \div SectorSize]
    BY DEF CursorTrue
  <2>1. CASE g = Caller
    <3>1. entryIndex'[g] - 1 = Position
      BY <1>1, <1>4, <2>1
    <3> QED
      BY <1>11, <1>12, <2>1, <3>1
  <2>2. CASE g # Caller
    <3>1. MidSector(g)' <=> MidSector(g)
      BY <1>13, <2>2 DEF MidSector
    <3> QED
      BY <1>13, <2>2, <3>1 DEF ReadInv, CursorTrue
  <2> QED
    BY <2>1, <2>2
<1>15. InFile'
  <2> SUFFICES ASSUME NEW g \in Name, entryIndex'[g] # 0, astray'[g] = {}
               PROVE  (entryIndex'[g] - 1) \div ClusterSize < length'[g]
    BY <1>3 DEF InFile
  <2>1. length' = length
    BY DEF ReadByte
  <2>2. CASE g = Caller
    <3>1. entryIndex'[g] - 1 = Position
      BY <1>1, <1>4, <2>2
    <3> QED
      BY <1>11, <1>12, <2>1, <2>2, <3>1
  <2>3. CASE g # Caller
    BY <1>13, <2>1, <2>3 DEF ReadInv, InFile
  <2> QED
    BY <2>2, <2>3
<1>16. InCall'
  <2>1. Caller' = Caller /\ Position' = Position + 1
    BY <1>4, <1>8 DEF Caller, Position
  <2>2. Len(call'.got) = Len(call.got) + 1 /\ Len(call.got) \in Nat
    BY <1>1, <1>6, <1>8, AppendProperties, LenProperties
  <2>3. Position = call.from + Len(call.got) /\ call.from \in Nat
    BY <1>1 DEF ReadInv, InCall, Call
  <2> QED
    BY <1>1, <1>8, <1>11, <2>1, <2>2, <2>3 DEF InCall
<1>17. ReadTrue'
  <2> SUFFICES ASSUME ~call'.astray, NEW i \in DOMAIN call'.got
               PROVE  call'.got[i] = [file |-> Caller, pos |-> call.from + i - 1]
    BY <1>8 DEF ReadTrue, Caller
  <2>1. /\ call'.got = Append(call.got, byte) /\ Len(call.got) \in Nat
        /\ DOMAIN call.got = 1 .. Len(call.got) /\ DOMAIN call'.got = 1 .. Len(call.got) + 1
        /\ \A n \in 1 .. Len(call.got) : call'.got[n] = call.got[n]
        /\ call'.got[Len(call.got) + 1] = byte
    BY <1>1, <1>6, <1>8, AppendProperties, LenProperties
  <2>2. CASE i \in 1 .. Len(call.got)
    <3>1. ~call.astray /\ call.file # Other
      BY <1>1, <1>8, ConstantFacts DEF Caller
    <3> QED
      BY <2>1, <2>2, <3>1 DEF ReadInv, ReadTrue
  <2>3. CASE i = Len(call.got) + 1
    <3>1. Position = call.from + Len(call.got) /\ call.from \in Nat
      BY <1>1 DEF ReadInv, InCall, Call
    <3>2. Position = call.from + i - 1
      BY <2>1, <2>3, <3>1
    <3> QED
      BY <1>12, <2>1, <2>3, <3>2
  <2> QED
    BY <2>1, <2>2, <2>3
<1> QED
  BY <1>10, <1>14, <1>15, <1>16, <1>17 DEF ReadInv

(* A sector that takes the place of what all files share.                  *)
LEMMA AllDisturbed ==
  ASSUME ReadInv, Caller \in Name, NEW mine \in SUBSET {"buffer", "shared", "failed"},
         Strays(OthersLost(mine)), UNCHANGED length,
         entryIndex' \in [Name -> Nat],
         entryIndex'[Caller] = 0 \/ mine # {}
  PROVE  /\ astray' \in [Name -> SUBSET {"buffer", "shared", "failed"}]
         /\ InFile' /\ CursorTrue'
<1>1. /\ astray' \in [Name -> SUBSET {"buffer", "shared", "failed"}]
      /\ \A g \in Name : entryIndex'[g] = 0 => astray'[g] = {}
      /\ \A g \in Name : entryIndex'[g] # 0 => astray'[g] = astray[g] \cup OthersLost(mine)[g]
  BY HitsTyped, StraysType
<1>2. \A g \in Name : entryIndex'[g] # 0 => astray'[g] # {}
  BY <1>1 DEF OthersLost
<1> QED
  BY <1>1, <1>2 DEF InFile, CursorTrue

LEMMA FailReads ==
  ASSUME ReadInv, call.pc = "loop", NEW p \in Places, ReadFails(p)
  PROVE  ReadInv'
<1>1. /\ Caller \in Name /\ call \in Call /\ p.cluster \in Cluster /\ p.sector \in Int
      /\ entryIndex \in [Name -> Nat]
  BY LostAtBoundary DEF ReadInv, TypeInv
<1>2. /\ astray' \in [Name -> SUBSET {"buffer", "shared", "failed"}]
      /\ InFile' /\ CursorTrue'
  BY <1>1, AllDisturbed DEF ReadFails
<1>3. call' = [call EXCEPT !.pc = "failed"] /\ call' \in Call /\ call'.pc = "failed"
  BY <1>1 DEF ReadFails, Call
<1>4. TypeInv'
  <2>1. IndexMod \in Nat \ {0} /\ p.sector + 1 \in Int
    BY <1>1, ConstantFacts
  <2>2. NextIndex(p.sector) \in Int
    BY <2>1, DivMod DEF NextIndex
  <2>3. NoSector \in Sector
    BY DEF NoSector, Sector
  <2> QED
    BY <1>1, <1>2, <1>3, <2>2, <2>3 DEF ReadFails, ReadInv, TypeInv
<1>5. InCall' /\ ReadTrue'
  <2>1. call.file # Other /\ ~call.astray =>
            \A i \in DOMAIN call.got : call.got[i] = [file |-> Caller, pos |-> call.from + i - 1]
    BY DEF ReadInv, ReadTrue
  <2>2. /\ call'.file = call.file /\ call'.from = call.from /\ call'.got = call.got
        /\ call'.astray <=> call.astray
    BY <1>1, <1>3 DEF Call
  <2> QED
    BY <1>3, <2>1, <2>2 DEF InCall, ReadTrue, Caller
<1> QED
  BY <1>2, <1>4, <1>5 DEF ReadInv

LEMMA EndReads ==
  ASSUME ReadInv, call.pc = "loop", NEW p \in Places, ReadEnds(p)
  PROVE  ReadInv'
<1>1. /\ Caller \in Name /\ call \in Call /\ p.cluster \in Cluster
      /\ entryIndex \in [Name -> Nat] /\ Position \in Nat
  BY LostAtBoundary DEF ReadInv, TypeInv, Position
<1>2. entryIndex' \in [Name -> Nat] /\ entryIndex'[Caller] = 0
  BY <1>1 DEF ReadEnds
<1>3. /\ astray' \in [Name -> SUBSET {"buffer", "shared", "failed"}]
      /\ InFile' /\ CursorTrue'
  BY <1>1, <1>2, AllDisturbed DEF ReadEnds
<1>4. /\ call' = [call EXCEPT !.pc = "ended", !.astray = @ \/ Lost(p)] /\ call' \in Call
      /\ call'.pc = "ended" /\ call'.file = call.file /\ call'.from = call.from /\ call'.got = call.got
      /\ call'.astray <=> call.astray \/ Lost(p)
  BY <1>1 DEF ReadEnds, Call
<1>5. TypeInv'
  <2>1. NoSector \in Sector
    BY DEF NoSector, Sector
  <2> QED
    BY <1>1, <1>2, <1>3, <1>4, <2>1 DEF ReadEnds, ReadInv, TypeInv
<1>6. ReadTrue'
  <2> SUFFICES ASSUME ~call.astray, p = Place
               PROVE  /\ \A i \in DOMAIN call.got : call.got[i] = [file |-> Caller, pos |-> call.from + i - 1]
                      /\ call.from + Len(call.got) = Bytes(Caller)
    BY <1>4 DEF ReadTrue, Lost, ReadEnds, Bytes, Caller
  <2>1. \A i \in DOMAIN call.got : call.got[i] = [file |-> Caller, pos |-> call.from + i - 1]
    BY <1>1, ConstantFacts DEF ReadInv, ReadTrue, Caller
  <2>2. PICK k \in Nat, j \in 0 .. Sectors - 1, b \in 0 .. SectorSize - 1 : At(Position, k, j, b)
    BY <1>1, AtExists
  <2>3. Position = Bytes(Caller)
    BY <2>2, PlaceTrue DEF ReadEnds
  <2> QED
    BY <2>1, <2>3 DEF ReadInv, InCall
<1>7. InCall'
  BY <1>4 DEF InCall
<1> QED
  BY <1>3, <1>5, <1>6, <1>7 DEF ReadInv

LEMMA DoneReads ==
  ASSUME ReadInv, ReadDone
  PROVE  ReadInv'
<1>1. /\ call' \in Call /\ call'.pc = "done" /\ call'.file = call.file /\ call'.from = call.from
      /\ call'.got = call.got /\ (call'.astray <=> call.astray)
  BY DEF ReadDone, ReadInv, TypeInv, Call
<1>2. TypeInv'
  BY <1>1 DEF ReadDone, ReadInv, TypeInv
<1>3. InFile' /\ CursorTrue'
  BY DEF ReadDone, ReadInv, InFile, CursorTrue, MidSector
<1>4. InCall' /\ ReadTrue'
  BY <1>1 DEF ReadDone, ReadInv, InCall, ReadTrue, Caller, Bytes
<1> QED
  BY <1>2, <1>3, <1>4 DEF ReadInv

LEMMA StepReads ==
  ASSUME ReadInv, [Next]_vars
  PROVE  ReadInv'
<1>1. ASSUME NEW f \in Name, Open(f) \/ Reset(f)
      PROVE  ReadInv'
  BY <1>1, OpenReads, ResetReads
<1>2. ASSUME NEW f \in Name, NEW len \in Lens, ReadBegin(f, len)
      PROVE  ReadInv'
  BY <1>2, BeginReads
<1>3. CASE ReadRound
  <2>1. PICK p \in Places : ReadByte(p) \/ ReadFails(p) \/ ReadEnds(p)
    BY <1>3 DEF ReadRound
  <2> QED
    BY <1>3, <2>1, ByteReads, FailReads, EndReads DEF ReadRound
<1>4. CASE ReadDone
  BY <1>4, DoneReads
<1>5. CASE UNCHANGED vars
  BY <1>5 DEF vars, ReadInv, TypeInv, InFile, InCall, CursorTrue, ReadTrue, MidSector, Caller, Position, Bytes
<1> QED
  BY <1>1, <1>2, <1>3, <1>4, <1>5 DEF Next

LEMMA Reads == Spec => []ReadInv
<1>1. Init => ReadInv
  BY InitReads
<1>2. ReadInv /\ [Next]_vars => ReadInv'
  BY StepReads
<1> QED
  BY <1>1, <1>2, PTL DEF Spec

-----------------------------------------------------------------------------
(* The static cluster and sectorIndex of fileRead and the one sdBuffer     *)
(* belong to the position of every file that nothing has disturbed.        *)
THEOREM SdReadCursorTrue == Spec => []CursorTrue
<1>1. ReadInv => CursorTrue
  BY DEF ReadInv
<1> QED
  BY <1>1, Reads, PTL

(* An undisturbed fileRead returns the bytes of the file from its position *)
(* on, and reports the end of the file at the end of its last cluster.     *)
THEOREM SdReadTrue == Spec => []ReadTrue
<1>1. ReadInv => ReadTrue
  BY DEF ReadInv
<1> QED
  BY <1>1, Reads, PTL
=============================================================================
