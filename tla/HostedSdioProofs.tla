-------------------------- MODULE HostedSdioProofs --------------------------
(***************************************************************************)
(* Proofs about HostedSdio for every size of the two counters, of the      *)
(* slave's buffers and of the queue above, for every set of frames, every  *)
(* choice of the transfers that fail and every bound: what the host counts *)
(* is what the slave has, and frames neither change places nor vanish.     *)
(***************************************************************************)
EXTENDS HostedSdio, FiniteSetTheorems, SequenceTheorems, TLAPS

-----------------------------------------------------------------------------
(* Arithmetic of the two counters.                                         *)

LEMMA DivMod ==
  ASSUME NEW m \in Nat \ {0}, NEW a \in Int
  PROVE  a % m \in 0 .. m - 1 /\ a \div m \in Int /\ a = m * (a \div m) + (a % m)
OBVIOUS

LEMMA ModOf ==
  ASSUME NEW m \in Nat \ {0}, NEW q \in Int, NEW r \in 0 .. m - 1
  PROVE  (m * q + r) % m = r
OBVIOUS

(* A counter may be reduced before or after something is added to it.      *)
LEMMA ModPlus ==
  ASSUME NEW m \in Nat \ {0}, NEW a \in Int, NEW b \in Int
  PROVE  ((a % m) + b) % m = (a + b) % m
<1> DEFINE q == a \div m
           r == a % m
           x == r + b
           s == x \div m
           t == x % m
<1>1. q \in Int /\ r \in 0 .. m - 1 /\ a = m * q + r
  BY DivMod
<1> HIDE DEF q, r
<1>2. x \in Int
  BY <1>1
<1> HIDE DEF x
<1>3. s \in Int /\ t \in 0 .. m - 1 /\ x = m * s + t
  BY <1>2, DivMod
<1> HIDE DEF s, t
<1>4. m * q + m * s = m * (q + s) /\ q + s \in Int
  BY <1>1, <1>3
<1>5. a + b = m * (q + s) + t
  BY <1>1, <1>3, <1>4 DEF x
<1>6. (a + b) % m = t
  BY <1>3, <1>4, <1>5, ModOf
<1> QED
  BY <1>6 DEF r, t, x

LEMMA ModSmall ==
  ASSUME NEW m \in Nat \ {0}, NEW a \in 0 .. m - 1
  PROVE  a % m = a
BY ModOf, m * 0 + a = a

(* The distance of two reduced counters is the distance of the counters,   *)
(* as long as that is less than the modulus.                               *)
LEMMA ModDistance ==
  ASSUME NEW m \in Nat \ {0}, NEW c \in Int, NEW d \in 0 .. m - 1
  PROVE  \/ (c + d) % m = (c % m) + d /\ (c % m) + d < m
         \/ (c + d) % m = (c % m) + d - m /\ (c % m) + d >= m
<1> DEFINE r == c % m
<1>1. r \in 0 .. m - 1
  BY DivMod
<1>2. d \in Int
  OBVIOUS
<1>3. (r + d) % m = (c + d) % m
  BY <1>2, ModPlus
<1> HIDE DEF r
<1> SUFFICES \/ (c + d) % m = r + d /\ r + d < m
             \/ (c + d) % m = r + d - m /\ r + d >= m
  BY DEF r
<1>4. CASE r + d < m
  <2>1. r + d \in 0 .. m - 1
    BY <1>1, <1>4
  <2> QED
    BY <2>1, <1>3, <1>4, ModSmall
<1>5. CASE r + d >= m
  <2> DEFINE e == r + d - m
  <2>1. e \in 0 .. m - 1 /\ m * 1 + e = r + d
    BY <1>1, <1>5
  <2> HIDE DEF e
  <2>2. (m * 1 + e) % m = e
    BY <2>1, ModOf
  <2>3. (r + d) % m = e
    BY <2>1, <2>2, Zenon
  <2>4. (c + d) % m = e
    BY <2>3, <1>3, Zenon
  <2> QED
    BY <2>4, <1>5 DEF e
<1> QED
  BY <1>1, <1>4, <1>5

-----------------------------------------------------------------------------
(* The buffers of a frame: what the host counts is what the slave fills.   *)
LEMMA BuffersAgree ==
  ASSUME NEW len \in Nat \ {0}
  PROVE  /\ SlaveBuffers(len) = BufNeeded(len)
         /\ BufNeeded(len) \in Nat \ {0}
<1> DEFINE n == BufNeeded(len)
           P(k) == (k - 1) * Window < len /\ len <= k * Window
<1>1. Window \in Nat \ {0}
  BY SdioAssumption
<1>2. n \in Int /\ (len + Window - 1) % Window \in 0 .. Window - 1
      /\ len + Window - 1 = Window * n + ((len + Window - 1) % Window)
  <2>1. len + Window - 1 \in Int
    BY <1>1
  <2> QED
    BY <2>1, <1>1, DivMod DEF BufNeeded
<1> HIDE DEF n
<1>3. n * Window = Window * n /\ (n - 1) * Window = Window * n - Window
      /\ n * Window \in Int
  BY <1>1, <1>2
<1>4. P(n)
  BY <1>1, <1>2, <1>3
<1>5. n >= 1
  <2> SUFFICES ASSUME n <= 0 PROVE FALSE
    BY <1>2
  <2>1. n * Window <= 0
    BY <1>1, <1>2
  <2> QED
    BY <2>1, <1>3, <1>4
<1>6. n <= len
  <2> SUFFICES ASSUME n - 1 >= len PROVE FALSE
    BY <1>2
  <2>1. (n - 1) * Window >= n - 1 /\ (n - 1) * Window \in Int
    BY <1>1, <1>2, <1>5
  <2>2. (n - 1) * Window < len
    BY <1>4
  <2> QED
    BY <2>1, <2>2, <1>2
<1>7. ASSUME NEW k \in 1 .. len, P(k)
      PROVE  k = n
  <2>1. CASE k < n
    <3>1. k * Window <= (n - 1) * Window
      BY <2>1, <1>1, <1>2
    <3> QED
      BY <3>1, <1>1, <1>2, <1>4, <1>7, <1>3
  <2>2. CASE n < k
    <3>1. n * Window <= (k - 1) * Window
      BY <2>2, <1>1, <1>2
    <3> QED
      BY <3>1, <1>1, <1>2, <1>4, <1>7, <1>3
  <2> QED
    BY <2>1, <2>2, <1>2
<1>8. SlaveBuffers(len) = n
  <2>1. n \in 1 .. len
    BY <1>2, <1>5, <1>6
  <2> QED
    BY <2>1, <1>4, <1>7 DEF SlaveBuffers
<1> QED
  BY <1>8, <1>2, <1>5 DEF n

-----------------------------------------------------------------------------
(* The inductive invariant, in parts.                                      *)

HostType ==
    /\ attached \in BOOLEAN /\ throttled \in BOOLEAN
    /\ rxCount \in 0 .. RxMod - 1
    /\ txCount \in 0 .. TxMod - 1

PollType ==
    /\ pc \in {"idle", "raw", "clear", "len", "data", "drain", "parse", "token", "write"}
    /\ budget \in 0 .. Budget
    /\ intr \subseteq {"new", "start", "stop"}
    /\ want \in 0 .. RxMod - 1
    /\ batch \in Seq(RxFrame)
    /\ tx \in TxKind \cup {NoTx}

SlaveType ==
    /\ intRaw \subseteq {"new", "start", "stop"}
    /\ produced \in Nat /\ consumed \in 0 .. produced
    /\ fifo \in Seq(RxFrame)
    /\ token \in 0 .. TxMod - 1
    /\ free \in 0 .. Buffers
    /\ slaveBusy \in BOOLEAN
    /\ apart \subseteq {"rx", "tx"}

AboveType == up \in BOOLEAN /\ queue \in Seq(RxFrame) /\ dropped \in Nat /\ out \in RxFrame

LEMMA TypeParts ==
  /\ TypeOK <=> HostType /\ PollType /\ SlaveType /\ AboveType
  /\ TypeOK' <=> HostType' /\ PollType' /\ SlaveType' /\ AboveType'
BY DEF TypeOK, HostType, PollType, SlaveType, AboveType

(* What belongs to the place the host is at.                               *)
Stage ==
    /\ pc # "idle" => attached
    /\ pc = "raw" => budget > 0
    /\ pc \in {"token", "write"} => tx \in TxKind
    /\ pc # "parse" => batch = <<>>

Bounds == made \in 0 .. MaxFrames /\ lost \in Nat /\ attaches \in Nat

(* What the slave has offered is what the host has used and what is left.  *)
Credit == attached /\ "tx" \notin apart => token = (txCount + free) % TxMod

(* The frames that are not read yet follow one another without a gap, from *)
(* the first byte that is not read to the last one sent.                   *)
Start(i) == fifo[i].end - fifo[i].kind.size

Stream ==
    /\ produced - consumed < RxMod
    /\ fifo = <<>> => consumed = produced
    /\ fifo # <<>> => consumed = Start(1) /\ fifo[Len(fifo)].end = produced
    /\ \A i \in 1 .. Len(fifo) - 1 : Start(i + 1) = fifo[i].end
    /\ \A i, k \in 1 .. Len(fifo) : i < k => fifo[i].end < fifo[k].end

InStep == attached /\ "rx" \notin apart => rxCount = consumed % RxMod

(* What the host is about to read ends where a frame ends.                 *)
Wanted ==
    pc \in {"data", "drain"} /\ "rx" \notin apart =>
        \E j \in 1 .. Len(fifo) : consumed + want = fifo[j].end

IInv == TypeOK /\ Bounds /\ Stage /\ Credit /\ NeverOverrun /\ Stream /\ InStep /\ Wanted

-----------------------------------------------------------------------------
(* Frames.                                                                 *)
LEMMA FrameFacts ==
  ASSUME NEW f \in RxFrame
  PROVE  /\ f.id \in 0 .. MaxFrames /\ f.end \in Nat /\ f.kind \in RxKind
         /\ f.kind.size \in Nat \ {0}
BY SdioAssumption DEF RxFrame, RxKindType

LEMMA TxFacts ==
  ASSUME NEW k \in TxKind
  PROVE  k.len \in Nat \ {0}
BY SdioAssumption DEF TxKindType

LEMMA FifoFacts ==
  ASSUME TypeOK
  PROVE  /\ Len(fifo) \in Nat /\ DOMAIN fifo = 1 .. Len(fifo)
         /\ \A i \in 1 .. Len(fifo) :
              /\ fifo[i] \in RxFrame
              /\ fifo[i].end \in Nat /\ fifo[i].kind.size \in Nat \ {0}
         /\ fifo = <<>> <=> Len(fifo) = 0
<1>1. fifo \in Seq(RxFrame)
  BY DEF TypeOK
<1> QED
  BY <1>1, FrameFacts

(* The read the host is about to make takes a whole number of frames.      *)
LEMMA ServedIs ==
  ASSUME TypeOK, Stream, Wanted, pc \in {"data", "drain"}, "rx" \notin apart
  PROVE  Served \in 1 .. Len(fifo) /\ fifo[Served].end = consumed + want
<1>1. PICK j \in 1 .. Len(fifo) : consumed + want = fifo[j].end
  BY DEF Wanted
<1> DEFINE S == {i \in DOMAIN fifo : fifo[i].end <= consumed + want}
<1>2. S = 1 .. j
  <2>1. \A i \in 1 .. Len(fifo) : i < j => fifo[i].end < fifo[j].end
    BY DEF Stream
  <2>2. \A i \in 1 .. Len(fifo) : j < i => fifo[j].end < fifo[i].end
    BY DEF Stream
  <2>3. \A i \in 1 .. Len(fifo) : fifo[i].end <= fifo[j].end <=> i <= j
    BY <2>1, <2>2, FifoFacts
  <2> QED
    BY <2>3, <1>1, FifoFacts
<1>3. Cardinality(1 .. j) = j
  BY FS_Interval
<1>4. Served = j
  BY <1>2, <1>3 DEF Served
<1> QED
  BY <1>1, <1>4

(* What is left after it.                                                  *)
LEMMA ServesFifo ==
  ASSUME TypeOK, Stream, Wanted, pc \in {"data", "drain"}, SlaveServes
  PROVE  /\ Served \in 1 .. Len(fifo)
         /\ fifo' \in Seq(RxFrame)
         /\ Len(fifo') = Len(fifo) - Served
         /\ \A i \in 1 .. Len(fifo) - Served : fifo'[i] = fifo[Served + i]
         /\ consumed' = fifo[Served].end
<1>1. Served \in 1 .. Len(fifo) /\ fifo[Served].end = consumed + want
  BY ServedIs DEF SlaveServes
<1> DEFINE n == Served
<1>2. n \in 1 .. Len(fifo) /\ fifo' = SubSeq(fifo, n + 1, Len(fifo))
  BY <1>1 DEF SlaveServes
<1> HIDE DEF n
<1>3. \A i \in n + 1 .. Len(fifo) : fifo[i] \in RxFrame
  BY <1>2, FifoFacts
<1>4. /\ fifo' \in Seq(RxFrame)
      /\ Len(fifo') = Len(fifo) - n
      /\ \A i \in 1 .. Len(fifo) - n : fifo'[i] = fifo[n + i]
  <2> DEFINE m == n + 1
             L == Len(fifo)
  <2>1. m \in Int /\ L \in Int /\ n \in 1 .. L
    BY <1>2, FifoFacts
  <2> HIDE DEF m, L
  <2>2. /\ SubSeq(fifo, m, L) \in Seq(RxFrame)
        /\ Len(SubSeq(fifo, m, L)) = IF m <= L THEN L - m + 1 ELSE 0
        /\ \A i \in 1 .. L - m + 1 : SubSeq(fifo, m, L)[i] = fifo[m + i - 1]
    BY <2>1, <1>3, SubSeqProperties DEF m, L
  <2>3. fifo' = SubSeq(fifo, m, L)
    BY <1>2 DEF m, L
  <2>4. \A i \in 1 .. L - n : i \in 1 .. L - m + 1 /\ m + i - 1 = n + i
    BY <2>1 DEF m
  <2>5. Len(fifo') = L - n
    BY <2>1, <2>2, <2>3 DEF m
  <2> QED
    BY <2>2, <2>3, <2>4, <2>5 DEF L
<1> QED
  BY <1>1, <1>4 DEF n, SlaveServes

LEMMA ServesStream ==
  ASSUME TypeOK, Stream, Wanted, pc \in {"data", "drain"}, SlaveServes
  PROVE  Stream' /\ consumed' \in 0 .. produced'
<1> DEFINE n == Served
           L == Len(fifo)
<1>1. /\ n \in 1 .. L
      /\ fifo' \in Seq(RxFrame) /\ Len(fifo') = L - n
      /\ \A i \in 1 .. L - n : fifo'[i] = fifo[n + i]
      /\ consumed' = fifo[n].end /\ produced' = produced
  BY ServesFifo DEF SlaveServes
<1>2. L \in Nat /\ fifo # <<>> /\ (fifo' = <<>> <=> L - n = 0)
  BY <1>1, FifoFacts
<1> HIDE DEF n, L
<1>3. fifo[L].end = produced
  BY <1>2 DEF Stream, L
<1>4. \A i \in 1 .. L : fifo[i].end \in Nat /\ fifo[i].kind.size \in Nat \ {0}
  BY FifoFacts DEF L
<1>5. \A i, k \in 1 .. L : i < k => fifo[i].end < fifo[k].end
  BY DEF Stream, L
<1>6. \A i \in 1 .. L - 1 : Start(i + 1) = fifo[i].end
  BY DEF Stream, L
<1>7. produced \in Nat /\ consumed \in 0 .. produced /\ want \in Nat
  BY DEF TypeOK
<1>8. n < L => fifo[n].end < fifo[L].end
  BY <1>1, <1>2, <1>5
<1>9. consumed' \in 0 .. produced' /\ produced' - consumed' < RxMod
  <2>1. consumed' >= consumed
    BY <1>7 DEF SlaveServes
  <2>2. consumed' <= produced
    BY <1>1, <1>2, <1>3, <1>4, <1>8
  <2> QED
    BY SMTT(30), <2>1, <2>2, <1>1, <1>4, <1>7, SdioAssumption DEF Stream
<1>10. fifo' = <<>> => consumed' = produced'
  BY <1>1, <1>2, <1>3
<1>11. fifo' # <<>> => consumed' = Start(1)' /\ fifo'[Len(fifo')].end = produced'
  <2> SUFFICES ASSUME fifo' # <<>>
               PROVE  consumed' = Start(1)' /\ fifo'[Len(fifo')].end = produced'
    OBVIOUS
  <2>1. n < L /\ fifo'[1] = fifo[n + 1] /\ fifo'[L - n] = fifo[n + (L - n)]
    BY <1>1, <1>2
  <2>2. n + (L - n) = L
    BY <1>1, <1>2
  <2>3. Start(n + 1) = fifo[n].end
    BY <2>1, <1>1, <1>2, <1>6
  <2> QED
    BY <2>1, <2>2, <2>3, <1>1, <1>3 DEF Start
<1>12. \A i \in 1 .. L - n - 1 : Start(i + 1)' = fifo'[i].end
  <2> SUFFICES ASSUME NEW i \in 1 .. L - n - 1
               PROVE  Start(i + 1)' = fifo'[i].end
    OBVIOUS
  <2>1. fifo'[i] = fifo[n + i] /\ fifo'[i + 1] = fifo[n + (i + 1)]
    BY <1>1, <1>2
  <2>2. n + (i + 1) = (n + i) + 1 /\ n + i \in 1 .. L - 1
    BY <1>1, <1>2
  <2>3. Start((n + i) + 1) = fifo[n + i].end
    BY <2>2, <1>6
  <2> QED
    BY <2>1, <2>2, <2>3 DEF Start
<1>13. \A i, k \in 1 .. L - n : i < k => fifo'[i].end < fifo'[k].end
  <2> SUFFICES ASSUME NEW i \in 1 .. L - n, NEW k \in 1 .. L - n, i < k
               PROVE  fifo'[i].end < fifo'[k].end
    OBVIOUS
  <2>1. n + i \in 1 .. L /\ n + k \in 1 .. L /\ n + i < n + k
    BY <1>1, <1>2
  <2> QED
    BY <2>1, <1>1, <1>5
<1> QED
  BY <1>1, <1>9, <1>10, <1>11, <1>12, <1>13 DEF Stream

(* The length register, against what the host has counted.                 *)
LEMMA LenFacts ==
  ASSUME TypeOK, Stream, InStep, attached
  PROVE  /\ LenFromSlave \in 0 .. RxMod - 1
         /\ "rx" \notin apart => LenFromSlave = produced - consumed
<1> DEFINE len == produced % RxMod
           d == produced - consumed
<1>1. /\ RxMod \in Nat \ {0} /\ rxCount \in 0 .. RxMod - 1
      /\ produced \in Int /\ consumed \in Int /\ d \in 0 .. RxMod - 1
  BY SdioAssumption DEF TypeOK, Stream
<1>2. len \in 0 .. RxMod - 1 /\ consumed + d = produced
  BY <1>1, DivMod
<1>3. LenFromSlave = IF len >= rxCount THEN (len + RxMod - rxCount) % RxMod
                     ELSE (RxMod - rxCount) + len
  BY DEF LenFromSlave
<1> HIDE DEF d, len
<1>4. LenFromSlave \in 0 .. RxMod - 1
  <2>1. CASE len >= rxCount
    <3>1. len + RxMod - rxCount \in Int
      BY <1>1, <1>2
    <3> QED
      BY <3>1, <2>1, <1>1, <1>3, DivMod
  <2>2. CASE len < rxCount
    BY <2>2, <1>1, <1>2, <1>3
  <2> QED
    BY <2>1, <2>2, <1>1, <1>2
<1>5. ASSUME "rx" \notin apart
      PROVE  LenFromSlave = d
  <2>1. rxCount = consumed % RxMod
    BY <1>5 DEF InStep
  <2>2. \/ len = rxCount + d /\ rxCount + d < RxMod
        \/ len = rxCount + d - RxMod /\ rxCount + d >= RxMod
    BY <2>1, <1>1, <1>2, ModDistance DEF len
  <2>3. CASE len = rxCount + d
    <3>1. len + RxMod - rxCount = RxMod * 1 + d /\ len >= rxCount
      BY <2>3, <1>1
    <3>2. (RxMod * 1 + d) % RxMod = d
      BY <1>1, ModOf
    <3> QED
      BY <3>1, <3>2, <1>3
  <2>4. CASE len = rxCount + d - RxMod
    <3>1. len < rxCount /\ (RxMod - rxCount) + len = d
      BY <2>4, <1>1
    <3> QED
      BY <3>1, <1>1, <1>2, <1>3
  <2> QED
    BY <2>2, <2>3, <2>4
<1> QED
  BY <1>4, <1>5 DEF d

(* The credit the host computes.                                           *)
LEMMA CreditFacts ==
  ASSUME TypeOK, Credit, attached, "tx" \notin apart
  PROVE  TxBufferNum = free
<1>1. /\ TxMod \in Nat \ {0} /\ txCount \in 0 .. TxMod - 1
      /\ free \in 0 .. TxMod - 1 /\ token \in 0 .. TxMod - 1
  BY SdioAssumption DEF TypeOK
<1>2. token = (txCount + free) % TxMod
  BY DEF Credit
<1>3. txCount % TxMod = txCount
  BY <1>1, ModSmall
<1>4. \/ token = txCount + free /\ txCount + free < TxMod
      \/ token = txCount + free - TxMod /\ txCount + free >= TxMod
  BY <1>1, <1>2, <1>3, ModDistance
<1>5. CASE token = txCount + free
  <2>1. token + TxMod - txCount = TxMod * 1 + free
    BY <1>1, <1>5
  <2>2. (TxMod * 1 + free) % TxMod = free
    BY <1>1, ModOf
  <2> QED
    BY <2>1, <2>2 DEF TxBufferNum
<1>6. CASE token = txCount + free - TxMod
  <2>1. token + TxMod - txCount = free
    BY <1>1, <1>6
  <2> QED
    BY <2>1, <1>1, ModSmall DEF TxBufferNum
<1> QED
  BY <1>4, <1>5, <1>6

-----------------------------------------------------------------------------
LEMMA ConstantFacts ==
  /\ 0 \in 0 .. RxMod - 1 /\ 0 \in 0 .. TxMod - 1 /\ 0 \in 0 .. Budget
  /\ Buffers \in 0 .. TxMod - 1 /\ Buffers \in 0 .. Buffers /\ 0 \in 0 .. 0
  /\ 0 \in 0 .. MaxFrames
BY SdioAssumption

LEMMA InitIInv == Init => IInv
<1> SUFFICES ASSUME Init
             PROVE  IInv
  OBVIOUS
<1> USE DEF Init, SlaveFresh
<1>1. TypeOK
  <2>1. out \in RxFrame
    <3>1. (CHOOSE k \in RxKind : TRUE) \in RxKind
      BY SdioAssumption
    <3> QED
      BY <3>1, ConstantFacts DEF RxFrame
  <2>2. NoTx \in TxKind \cup {NoTx} /\ <<>> \in Seq(RxFrame)
    OBVIOUS
  <2>3. HostType
    BY ConstantFacts DEF HostType
  <2>4. PollType
    BY <2>2, ConstantFacts DEF PollType
  <2>5. SlaveType
    BY <2>2, ConstantFacts DEF SlaveType
  <2>6. AboveType
    BY <2>1, <2>2 DEF AboveType
  <2> QED
    BY <2>3, <2>4, <2>5, <2>6, TypeParts
<1>2. Bounds /\ Stage /\ Credit /\ NeverOverrun /\ InStep /\ Wanted
  BY ConstantFacts DEF Bounds, Stage, Credit, NeverOverrun, InStep, Wanted
<1>3. Stream
  BY SdioAssumption DEF Stream
<1> QED
  BY <1>1, <1>2, <1>3 DEF IInv

(* Attaching brings the two sides together.                                *)
LEMMA AttachStep ==
  ASSUME IInv, Attach
  PROVE  IInv'
<1> USE DEF IInv
<1>1. /\ pc = "idle" /\ pc' = "idle" /\ batch' = batch /\ tx' = tx /\ budget' = budget
      /\ intr' = intr /\ want' = want /\ attaches' = attaches + 1
      /\ rxCount' = 0 /\ txCount' = 0 /\ throttled' = FALSE /\ attached' \in BOOLEAN
      /\ made' = made
      /\ up' \in BOOLEAN /\ queue' = queue /\ dropped' = dropped /\ out' = out
  BY DEF Attach, CardInitFails, HostCleared, poll, above, TypeOK
<1>2. HostType'
  BY <1>1, ConstantFacts DEF HostType
<1>3. PollType' /\ AboveType'
  BY <1>1, TypeParts DEF PollType, AboveType
<1>4. Stage' /\ NeverOverrun' /\ Wanted'
  BY <1>1 DEF Stage, NeverOverrun, Wanted
<1>5. (0 + Buffers) % TxMod = Buffers /\ 0 % RxMod = 0
  BY ModSmall, SdioAssumption
<1>6. CASE SlaveReset /\ lost' = lost + Len(fifo) /\ apart' = {}
  <2>1. /\ intRaw' = {} /\ produced' = 0 /\ consumed' = 0 /\ fifo' = <<>>
        /\ token' = Buffers /\ free' = Buffers /\ slaveBusy' = FALSE
    BY <1>6 DEF SlaveReset
  <2>2. SlaveType'
    <3>1. <<>> \in Seq(RxFrame)
      OBVIOUS
    <3> QED
      BY <1>6, <2>1, <3>1, ConstantFacts DEF SlaveType
  <2>3. Bounds'
    BY <1>1, <1>6, FifoFacts DEF Bounds
  <2>4. Credit' /\ InStep' /\ Stream'
    BY <1>1, <1>5, <1>6, <2>1, SdioAssumption DEF Credit, InStep, Stream
  <2> QED
    BY <1>2, <1>3, <1>4, <2>2, <2>3, <2>4, TypeParts
<1>7. CASE UNCHANGED <<slave, lost>> /\ apart' = IF SlaveFresh THEN {} ELSE {"rx", "tx"}
  <2>1. /\ UNCHANGED <<intRaw, produced, consumed, fifo, token, free, slaveBusy, lost>>
        /\ apart' \subseteq {"rx", "tx"}
    BY <1>7 DEF slave
  <2>2. SlaveType' /\ Bounds'
    BY <1>1, <2>1, TypeParts DEF SlaveType, Bounds
  <2>3. Stream'
    BY <2>1 DEF Stream, Start
  <2>4. CASE SlaveFresh
    <3>1. consumed' = 0 /\ token' = Buffers /\ free' = Buffers
      BY <2>1, <2>4 DEF SlaveFresh
    <3> QED
      BY <1>1, <1>2, <1>3, <1>4, <1>5, <2>2, <2>3, <3>1, TypeParts DEF Credit, InStep
  <2>5. CASE ~SlaveFresh
    BY <1>2, <1>3, <1>4, <1>7, <2>2, <2>3, <2>5, TypeParts DEF Credit, InStep
  <2> QED
    BY <2>4, <2>5
<1> QED
  BY <1>6, <1>7 DEF Attach, CardInitFails, SlavePulsed

LEMMA DetachStep ==
  ASSUME IInv, Detach
  PROVE  IInv'
<1> USE DEF IInv
<1>1. /\ UNCHANGED <<poll, slave, above, history>> /\ pc = "idle"
      /\ attached' = FALSE /\ throttled' = FALSE /\ rxCount' = 0 /\ txCount' = 0
  BY DEF Detach, HostCleared
<1>2. TypeOK'
  <2>1. HostType'
    BY <1>1, ConstantFacts DEF HostType
  <2>2. PollType' /\ SlaveType' /\ AboveType'
    BY <1>1, TypeParts DEF PollType, SlaveType, AboveType, poll, slave, above, history, rift
  <2> QED
    BY <2>1, <2>2, TypeParts
<1>3. Stream' /\ Bounds'
  BY <1>1 DEF Stream, Start, Bounds, slave, history
<1>4. Stage' /\ Credit' /\ NeverOverrun' /\ InStep' /\ Wanted'
  BY <1>1 DEF Stage, Credit, NeverOverrun, InStep, Wanted, poll
<1> QED
  BY <1>2, <1>3, <1>4

-----------------------------------------------------------------------------
(* The steps of a poll before anything is read.                            *)

(* What keeps when neither the counters nor the slave's buffers move.      *)
LEMMA CountersKept ==
  ASSUME IInv, UNCHANGED <<host, produced, consumed, fifo, token, free, apart, made, lost, attaches>>
  PROVE  /\ HostType' /\ Bounds' /\ Credit' /\ Stream' /\ InStep'
         /\ produced' \in Nat /\ consumed' \in 0 .. produced' /\ fifo' \in Seq(RxFrame)
         /\ token' \in 0 .. TxMod - 1 /\ free' \in 0 .. Buffers /\ apart' \subseteq {"rx", "tx"}
<1>1. HostType' /\ Bounds'
  BY TypeParts DEF IInv, HostType, Bounds, host
<1>2. Stream' /\ Credit' /\ InStep'
  BY DEF IInv, Stream, Start, Credit, InStep, host
<1> QED
  BY <1>1, <1>2, TypeParts DEF IInv, SlaveType

LEMMA PollBeginStep ==
  ASSUME IInv, PollBegin
  PROVE  IInv'
<1> USE DEF IInv
<1>1. /\ attached /\ pc' = "raw" /\ budget' = Budget
      /\ UNCHANGED <<host, intr, want, batch, tx, slave, above, history>>
  BY DEF PollBegin
<1>2. HostType' /\ Bounds' /\ Credit' /\ Stream' /\ InStep' /\ SlaveType'
  BY <1>1, CountersKept, TypeParts DEF slave, history, rift, SlaveType
<1>3. PollType' /\ AboveType'
  BY <1>1, TypeParts, SdioAssumption DEF PollType, AboveType, above
<1>4. Stage' /\ NeverOverrun' /\ Wanted'
  BY <1>1, SdioAssumption DEF Stage, NeverOverrun, Wanted, host, PollBegin
<1> QED
  BY <1>2, <1>3, <1>4, TypeParts

LEMMA NextRoundFacts ==
  ASSUME PollType, NextRound
  PROVE  /\ budget' \in 0 .. Budget /\ intr' = {} /\ want' = 0
         /\ pc' \in {"idle", "raw"} /\ (pc' = "raw" => budget' > 0)
BY SMTT(30), SdioAssumption DEF NextRound, PollReturns, PollType

LEMMA PollRawStep ==
  ASSUME IInv, PollRaw
  PROVE  IInv'
<1> USE DEF IInv
<1>1. /\ pc = "raw" /\ pc' \in {"clear", "idle"} /\ budget' \in 0 .. Budget
      /\ intr' \subseteq {"new", "start", "stop"} /\ want' \in {0, want}
      /\ UNCHANGED <<host, batch, tx, slave, above, history>>
  <2>1. budget \in 1 .. Budget /\ intRaw \subseteq {"new", "start", "stop"} /\ pc = "raw"
    BY SMTT(30), TypeParts, SdioAssumption DEF PollRaw, PollType, SlaveType, Stage
  <2>2. CASE intRaw # {} /\ intr' = intRaw /\ budget' = budget - 1 /\ pc' = "clear" /\ UNCHANGED want
    BY <2>1, <2>2, SdioAssumption DEF PollRaw
  <2>3. CASE PollReturns
    BY <2>1, <2>3, ConstantFacts DEF PollRaw, PollReturns
  <2> QED
    BY <2>2, <2>3 DEF PollRaw
<1>2. HostType' /\ Bounds' /\ Credit' /\ Stream' /\ InStep' /\ SlaveType'
  BY <1>1, CountersKept, TypeParts DEF slave, history, rift, SlaveType
<1>3. PollType' /\ AboveType'
  BY <1>1, TypeParts, ConstantFacts DEF PollType, AboveType, above
<1>4. Stage' /\ NeverOverrun' /\ Wanted'
  BY <1>1 DEF Stage, NeverOverrun, Wanted, host
<1> QED
  BY <1>2, <1>3, <1>4, TypeParts

LEMMA PollClearStep ==
  ASSUME IInv, PollClear
  PROVE  IInv'
<1> USE DEF IInv
<1>1. /\ pc = "clear" /\ throttled' \in BOOLEAN
      /\ intRaw' \subseteq {"new", "start", "stop"}
      /\ UNCHANGED <<attached, rxCount, txCount, batch, tx>>
      /\ UNCHANGED <<produced, consumed, fifo, token, free, slaveBusy, above, history>>
  BY TypeParts DEF PollClear, HostType, SlaveType
<1>2. /\ budget' \in 0 .. Budget /\ intr' \subseteq {"new", "start", "stop"}
      /\ want' \in {0, want} /\ pc' \in {"idle", "raw", "len"} /\ (pc' = "raw" => budget' > 0)
  BY NextRoundFacts, TypeParts DEF PollClear, PollType
<1>3. HostType' /\ SlaveType'
  BY <1>1, TypeParts DEF HostType, SlaveType, history, rift
<1>4. PollType' /\ AboveType'
  BY <1>1, <1>2, TypeParts, ConstantFacts DEF PollType, AboveType, above
<1>5. Bounds' /\ Credit' /\ Stream' /\ InStep'
  BY <1>1 DEF Bounds, Credit, Stream, Start, InStep, history, rift
<1>6. Stage' /\ NeverOverrun' /\ Wanted'
  BY <1>1, <1>2 DEF Stage, NeverOverrun, Wanted
<1> QED
  BY <1>3, <1>4, <1>5, <1>6, TypeParts

LEMMA PollLenStep ==
  ASSUME IInv, PollLen
  PROVE  IInv'
<1> USE DEF IInv
<1>1. /\ pc = "len" /\ attached
      /\ UNCHANGED <<host, batch, tx, slave, above, history>>
  BY DEF PollLen, Stage
<1>2. LenFromSlave \in 0 .. RxMod - 1 /\ ("rx" \notin apart => LenFromSlave = produced - consumed)
  BY <1>1, LenFacts
<1>3. \/ /\ pc' \in {"data", "drain"} /\ want' = LenFromSlave /\ want' > 0
         /\ UNCHANGED <<budget, intr>>
      \/ pc' = "idle" /\ budget' = 0 /\ intr' = {} /\ want' = 0
  BY DEF PollLen, PollReturns
<1>4. HostType' /\ Bounds' /\ Credit' /\ Stream' /\ InStep' /\ SlaveType'
  BY <1>1, CountersKept, TypeParts DEF slave, history, rift, SlaveType
<1>5. PollType' /\ AboveType'
  BY <1>1, <1>2, <1>3, TypeParts, ConstantFacts DEF PollType, AboveType, above
<1>6. Stage' /\ NeverOverrun'
  BY <1>1, <1>3 DEF Stage, NeverOverrun, host
<1>7. Wanted'
  <2> SUFFICES ASSUME pc' \in {"data", "drain"}, "rx" \notin apart
               PROVE  \E j \in 1 .. Len(fifo) : consumed + want' = fifo[j].end
    BY <1>1 DEF Wanted, slave, history, rift
  <2>1. want' = produced - consumed /\ want' > 0
    BY <1>2, <1>3
  <2>2. produced \in Nat /\ consumed \in Nat
    BY DEF TypeOK
  <2>3. fifo # <<>> /\ consumed + want' = produced
    BY <2>1, <2>2 DEF Stream
  <2>4. Len(fifo) \in 1 .. Len(fifo) /\ fifo[Len(fifo)].end = produced
    BY <2>3, FifoFacts DEF Stream
  <2> QED
    BY <2>3, <2>4
<1> QED
  BY <1>4, <1>5, <1>6, <1>7, TypeParts

-----------------------------------------------------------------------------
(* The steps that read.                                                    *)

(* What the slave gives, and what a failed read leaves.                    *)
LEMMA ServesSlave ==
  ASSUME IInv, pc \in {"data", "drain"}, SlaveServes,
         apart' = apart \/ apart' = apart \cup {"rx"}
  PROVE  SlaveType' /\ Stream' /\ Served \in Nat
<1>1. Stream' /\ consumed' \in 0 .. produced' /\ fifo' \in Seq(RxFrame) /\ Served \in Nat
  BY ServesStream, ServesFifo, FifoFacts DEF IInv
<1> QED
  BY <1>1, TypeParts DEF IInv, SlaveType, SlaveServes

LEMMA CountReadInStep ==
  ASSUME IInv, pc \in {"data", "drain"}, SlaveServes, CountRead
  PROVE  rxCount' \in 0 .. RxMod - 1 /\ InStep'
<1>1. /\ RxMod \in Nat \ {0} /\ consumed \in Int /\ want \in Int
      /\ rxCount \in Int
  BY SdioAssumption DEF IInv, TypeOK
<1>2. rxCount = consumed % RxMod
  BY DEF IInv, Stage, InStep, SlaveServes
<1>3. rxCount' = (consumed + want) % RxMod
  BY <1>1, <1>2, ModPlus DEF CountRead
<1>4. consumed + want \in Int
  BY <1>1
<1> QED
  BY <1>1, <1>3, <1>4, DivMod DEF InStep, SlaveServes

LEMMA ReadFailsStep ==
  ASSUME IInv, pc \in {"data", "drain"}, NEW soon, NEW late, ReadFails(soon, late),
         UNCHANGED <<host, batch, tx, above, made, sent, throttles, attaches, restarts>>
  PROVE  IInv'
<1> USE DEF IInv
<1>1. pc' = "idle" /\ budget' = 0 /\ intr' = {} /\ want' = 0
  BY DEF ReadFails, PollReturns
<1>2. HostType' /\ PollType' /\ AboveType'
  BY <1>1, TypeParts, ConstantFacts DEF HostType, PollType, AboveType, host, above
<1>3. Stage' /\ NeverOverrun' /\ Wanted'
  BY <1>1 DEF Stage, NeverOverrun, Wanted
<1>4. CASE UNCHANGED <<slave, apart, lost>>
  <2>1. SlaveType' /\ Bounds' /\ Stream' /\ Credit' /\ InStep'
    BY <1>4, CountersKept, TypeParts DEF slave, SlaveType
  <2> QED
    BY <1>2, <1>3, <2>1, TypeParts
<1>5. CASE SlaveServes /\ apart' = apart \cup {"rx"} /\ lost' = lost + Served
  <2>1. SlaveType' /\ Stream' /\ Served \in Nat
    BY <1>5, ServesSlave
  <2>2. Bounds'
    BY <1>5, <2>1 DEF Bounds
  <2>3. Credit' /\ InStep'
    BY <1>5 DEF Credit, InStep, SlaveServes, host
  <2> QED
    BY <1>2, <1>3, <2>1, <2>2, <2>3, TypeParts
<1> QED
  BY <1>4, <1>5 DEF ReadFails

LEMMA PollDrainStep ==
  ASSUME IInv, PollDrain
  PROVE  IInv'
<1>1. pc = "drain" /\ UNCHANGED <<attached, throttled, txCount, batch, tx, above, made, sent, throttles, attaches, restarts>>
  BY DEF PollDrain
<1>2. CASE SlaveServes /\ CountRead /\ lost' = lost + Served /\ NextRound /\ UNCHANGED apart
  <2> USE DEF IInv
  <2>1. SlaveType' /\ Stream' /\ Served \in Nat
    BY <1>1, <1>2, ServesSlave
  <2>2. rxCount' \in 0 .. RxMod - 1 /\ InStep'
    BY <1>1, <1>2, CountReadInStep
  <2>3. /\ budget' \in 0 .. Budget /\ intr' = {} /\ want' = 0
        /\ pc' \in {"idle", "raw"} /\ (pc' = "raw" => budget' > 0)
    BY <1>2, NextRoundFacts, TypeParts
  <2>4. HostType' /\ PollType' /\ AboveType'
    BY <1>1, <2>2, <2>3, TypeParts, ConstantFacts DEF HostType, PollType, AboveType, above
  <2>5. Bounds' /\ Credit'
    BY <1>1, <1>2, <2>1 DEF Bounds, Credit, SlaveServes
  <2>6. Stage' /\ NeverOverrun' /\ Wanted'
    BY <1>1, <2>3 DEF Stage, NeverOverrun, Wanted
  <2> QED
    BY <2>1, <2>2, <2>4, <2>5, <2>6, TypeParts
<1>3. CASE ReadFails("drain", "drain_late") /\ UNCHANGED rxCount
  BY <1>1, <1>3, ReadFailsStep DEF host
<1> QED
  BY <1>2, <1>3 DEF PollDrain

LEMMA PollDataStep ==
  ASSUME IInv, PollData
  PROVE  IInv'
<1>1. pc = "data" /\ UNCHANGED <<attached, throttled, txCount, tx, above, made, sent, throttles, attaches, restarts>>
  BY DEF PollData
<1>2. CASE /\ SlaveServes /\ CountRead /\ batch' = SubSeq(fifo, 1, Served)
           /\ pc' = "parse" /\ UNCHANGED <<budget, intr, want, lost, apart>>
  <2> USE DEF IInv
  <2>1. SlaveType' /\ Stream' /\ Served \in Nat
    BY <1>1, <1>2, ServesSlave
  <2>2. rxCount' \in 0 .. RxMod - 1 /\ InStep'
    BY <1>1, <1>2, CountReadInStep
  <2>3. batch' \in Seq(RxFrame)
    <3>1. Served \in 1 .. Len(fifo)
      BY <1>1, <1>2, ServesFifo
    <3> QED
      BY <3>1, <1>2, FifoFacts, SubSeqProperties
  <2>4. HostType' /\ PollType' /\ AboveType'
    BY <1>1, <1>2, <2>2, <2>3, TypeParts DEF HostType, PollType, AboveType, above
  <2>5. Bounds' /\ Credit'
    BY <1>1, <1>2 DEF Bounds, Credit, SlaveServes
  <2>6. Stage' /\ NeverOverrun' /\ Wanted'
    BY <1>1, <1>2 DEF Stage, NeverOverrun, Wanted
  <2> QED
    BY <2>1, <2>2, <2>4, <2>5, <2>6, TypeParts
<1>3. CASE ReadFails("data", "data_late") /\ UNCHANGED <<rxCount, batch>>
  BY <1>1, <1>3, ReadFailsStep DEF host
<1> QED
  BY <1>2, <1>3 DEF PollData

(* A frame of the batch goes to the queue above, or nowhere.               *)
LEMMA PollParseStep ==
  ASSUME IInv, PollParse
  PROVE  IInv'
<1> USE DEF IInv
<1>1. /\ pc = "parse" /\ batch \in Seq(RxFrame) /\ attached
      /\ UNCHANGED <<host, tx, slave, made, sent, throttles, attaches, rift>>
  BY TypeParts DEF PollParse, PollType, Stage
<1>2. SlaveType' /\ HostType' /\ Credit' /\ Stream' /\ InStep'
  BY <1>1, TypeParts DEF SlaveType, HostType, Credit, Stream, Start, InStep, slave, host, rift
<1>3. /\ batch' \in Seq(RxFrame) /\ AboveType' /\ lost' \in Nat
      /\ \/ NextRound /\ batch' = <<>>
         \/ UNCHANGED <<pc, budget, intr, want>>
  <2>1. lost \in Nat /\ AboveType /\ Len(batch) \in Nat
    BY <1>1, TypeParts DEF Bounds
  <2>2. CASE batch = <<>> /\ NextRound /\ UNCHANGED <<batch, lost, above>>
    BY <2>1, <2>2, <1>1 DEF AboveType, above
  <2>3. CASE /\ batch # <<>> /\ batch' = Tail(batch)
             /\ UNCHANGED <<pc, budget, intr, want, lost>>
             /\ Q!Accept(Head(batch)) \/ Q!Refuse
    <3>1. Head(batch) \in RxFrame /\ Tail(batch) \in Seq(RxFrame)
      BY <1>1, <2>3, HeadTailProperties
    <3>2. AboveType'
      <4>1. CASE Q!Accept(Head(batch))
        BY <4>1, <3>1, <2>1, AppendProperties DEF Q!Accept, AboveType
      <4>2. CASE Q!Refuse
        BY <4>2, <2>1 DEF Q!Refuse, AboveType
      <4> QED
        BY <2>3, <4>1, <4>2
    <3> QED
      BY <2>1, <2>3, <3>1, <3>2
  <2>4. CASE lost' = lost + Len(batch) /\ batch' = <<>> /\ UNCHANGED <<pc, budget, intr, want, above>>
    BY <2>1, <2>4 DEF AboveType, above
  <2> QED
    BY <2>2, <2>3, <2>4 DEF PollParse
<1>4. /\ budget' \in 0 .. Budget /\ intr' \subseteq {"new", "start", "stop"}
      /\ want' \in {0, want} /\ pc' \in {"idle", "raw", "parse"} /\ (pc' = "raw" => budget' > 0)
      /\ pc' # "parse" => batch' = <<>>
  BY <1>1, <1>3, NextRoundFacts, TypeParts DEF PollType
<1>5. PollType'
  BY <1>1, <1>3, <1>4, TypeParts, ConstantFacts DEF PollType
<1>6. Bounds' /\ Stage' /\ NeverOverrun' /\ Wanted'
  BY <1>1, <1>3, <1>4 DEF Bounds, Stage, NeverOverrun, Wanted, host
<1> QED
  BY <1>2, <1>3, <1>5, <1>6, TypeParts

-----------------------------------------------------------------------------
(* The steps that send.                                                    *)

LEMMA TxBeginStep ==
  ASSUME IInv, NEW k \in TxKind, TxBegin(k)
  PROVE  IInv'
<1> USE DEF IInv
<1>1. /\ pc = "idle" /\ attached /\ tx' = k /\ pc' = "token"
      /\ UNCHANGED <<host, budget, intr, want, batch, slave, above, history>>
  BY DEF TxBegin
<1>2. HostType' /\ Bounds' /\ Credit' /\ Stream' /\ InStep' /\ SlaveType'
  BY <1>1, CountersKept, TypeParts DEF slave, history, rift, SlaveType
<1>3. PollType' /\ AboveType'
  BY <1>1, TypeParts DEF PollType, AboveType, above
<1>4. Stage' /\ NeverOverrun' /\ Wanted'
  BY <1>1 DEF Stage, NeverOverrun, Wanted, host
<1> QED
  BY <1>2, <1>3, <1>4, TypeParts

(* The token was enough for the frame, and it was the truth.               *)
LEMMA TxTokenStep ==
  ASSUME IInv, TxToken
  PROVE  IInv'
<1> USE DEF IInv
<1>1. /\ pc = "token" /\ attached /\ tx \in TxKind
      /\ UNCHANGED <<host, budget, intr, want, batch, slave, above, history>>
      /\ \/ pc' = "write" /\ tx' = tx /\ TxBufferNum >= BufNeeded(tx.len)
         \/ pc' = "idle" /\ tx' = NoTx
  BY DEF TxToken, TxReturns, Stage
<1>2. HostType' /\ Bounds' /\ Credit' /\ Stream' /\ InStep' /\ SlaveType'
  BY <1>1, CountersKept, TypeParts DEF slave, history, rift, SlaveType
<1>3. PollType' /\ AboveType'
  BY <1>1, TypeParts DEF PollType, AboveType, above
<1>4. Stage' /\ Wanted'
  BY <1>1 DEF Stage, Wanted, host
<1>5. NeverOverrun'
  <2> SUFFICES ASSUME pc' = "write", "tx" \notin apart
               PROVE  SlaveBuffers(tx.len) <= free
    BY <1>1 DEF NeverOverrun, slave, history, rift
  <2>1. TxBufferNum = free
    BY <1>1, CreditFacts
  <2>2. SlaveBuffers(tx.len) = BufNeeded(tx.len) /\ BufNeeded(tx.len) \in Nat
    BY <1>1, TxFacts, BuffersAgree
  <2> QED
    BY <2>1, <2>2, <1>1
<1> QED
  BY <1>2, <1>3, <1>4, <1>5, TypeParts

(* The slave has the buffers the frame fills.                              *)
LEMMA TakesFree ==
  ASSUME IInv, pc = "write", SlaveTakes
  PROVE  /\ free' = free - BufNeeded(tx.len) /\ free' \in 0 .. Buffers
         /\ BufNeeded(tx.len) \in Nat \ {0}
<1>1. tx \in TxKind
  BY DEF IInv, Stage
<1>2. SlaveBuffers(tx.len) = BufNeeded(tx.len) /\ BufNeeded(tx.len) \in Nat \ {0}
  BY <1>1, TxFacts, BuffersAgree
<1>3. SlaveBuffers(tx.len) <= free
  BY DEF IInv, NeverOverrun, SlaveTakes
<1>4. free \in 0 .. Buffers /\ Buffers \in Nat
  BY SdioAssumption DEF IInv, TypeOK
<1>5. free' = free - SlaveBuffers(tx.len)
  BY DEF SlaveTakes
<1> QED
  BY <1>2, <1>3, <1>4, <1>5

LEMMA TxWriteStep ==
  ASSUME IInv, TxWrite
  PROVE  IInv'
<1> USE DEF IInv
<1>1. /\ pc = "write" /\ attached /\ pc' = "idle" /\ tx' = NoTx
      /\ UNCHANGED <<attached, throttled, rxCount, budget, intr, want, batch>>
      /\ UNCHANGED <<intRaw, produced, consumed, fifo, token, slaveBusy, above>>
      /\ UNCHANGED <<made, lost, attaches, restarts>>
  BY DEF TxWrite, TxReturns, Stage
<1>2. /\ TxMod \in Nat \ {0} /\ txCount \in 0 .. TxMod - 1 /\ free \in 0 .. Buffers
  BY SdioAssumption DEF TypeOK
<1>3. /\ txCount' \in 0 .. TxMod - 1 /\ free' \in 0 .. Buffers /\ Credit'
      /\ apart' \in {apart, apart \cup {"tx"}}
  <2>1. CASE /\ SlaveTakes /\ txCount' = (txCount + BufNeeded(tx.len)) % TxMod
             /\ UNCHANGED apart
    <3> DEFINE n == BufNeeded(tx.len)
    <3>1. free' = free - n /\ free' \in 0 .. Buffers /\ n \in Nat \ {0}
      BY <1>1, <2>1, TakesFree
    <3> HIDE DEF n
    <3>2. txCount + n \in Int /\ free - n \in Int /\ (txCount + n) + (free - n) = txCount + free
      BY <1>2, <3>1
    <3>3. (((txCount + n) % TxMod) + (free - n)) % TxMod = (txCount + free) % TxMod
      BY <1>2, <3>2, ModPlus
    <3>4. txCount' = (txCount + n) % TxMod
      BY <2>1 DEF n
    <3>5. txCount' \in 0 .. TxMod - 1
      BY <1>2, <3>2, <3>4, DivMod
    <3>6. Credit'
      BY <1>1, <2>1, <3>1, <3>3, <3>4 DEF Credit
    <3> QED
      BY <2>1, <3>1, <3>5, <3>6
  <2>2. CASE UNCHANGED <<free, apart, txCount>>
    BY <2>2, <1>1, <1>2 DEF Credit
  <2>3. CASE SlaveTakes /\ apart' = apart \cup {"tx"} /\ UNCHANGED txCount
    BY <2>3, <1>1, <1>2, TakesFree DEF Credit
  <2> QED
    BY <2>1, <2>2, <2>3 DEF TxWrite, WriteFails
<1>4. HostType' /\ PollType' /\ AboveType'
  BY <1>1, <1>3, TypeParts DEF HostType, PollType, AboveType, above
<1>5. SlaveType'
  BY <1>1, <1>3, TypeParts DEF SlaveType
<1>6. Bounds' /\ Stage' /\ NeverOverrun' /\ Wanted'
  BY <1>1 DEF Bounds, Stage, NeverOverrun, Wanted
<1>7. Stream' /\ InStep'
  BY <1>1, <1>3 DEF Stream, Start, InStep
<1> QED
  BY <1>3, <1>4, <1>5, <1>6, <1>7, TypeParts

-----------------------------------------------------------------------------
(* The steps of the slave.                                                 *)

LEMMA SlaveSendsStep ==
  ASSUME IInv, NEW k \in RxKind, SlaveSends(k)
  PROVE  IInv'
<1> USE DEF IInv
<1> DEFINE f == [id |-> made + 1, end |-> produced + k.size, kind |-> k]
           L == Len(fifo)
<1>1. /\ attached /\ made' = made + 1 /\ produced' = produced + k.size
      /\ fifo' = Append(fifo, f) /\ intRaw' = intRaw \cup {"new"}
      /\ made < MaxFrames /\ produced + k.size - consumed < RxMod
      /\ UNCHANGED <<host, poll, consumed, token, free, slaveBusy, above, lost, attaches, rift>>
  BY DEF SlaveSends
<1>2. /\ produced \in Nat /\ consumed \in 0 .. produced /\ made \in 0 .. MaxFrames
      /\ k.size \in Nat \ {0} /\ MaxFrames \in Nat
  BY SdioAssumption DEF TypeOK, Bounds, RxKindType
<1>3. f \in RxFrame /\ f.end = produced + k.size /\ f.kind = k
  BY <1>1, <1>2 DEF RxFrame
<1>4. /\ L \in Nat /\ (fifo = <<>> <=> L = 0)
      /\ \A i \in 1 .. L : fifo[i].end \in Nat
  BY FifoFacts
<1> HIDE DEF f
<1>5. /\ fifo' \in Seq(RxFrame) /\ fifo' # <<>> /\ Len(fifo') = L + 1
      /\ \A i \in 1 .. L : fifo'[i] = fifo[i]
      /\ fifo'[L + 1] = f
  <2>1. fifo \in Seq(RxFrame)
    BY DEF TypeOK
  <2> QED
    BY <2>1, <1>1, <1>3, AppendProperties
<1> HIDE DEF L
<1>6. Stream'
  <2>1. produced' - consumed' < RxMod
    BY <1>1, <1>2
  <2>2. consumed' = Start(1)' /\ fifo'[Len(fifo')].end = produced'
    <3>1. CASE L = 0
      BY <3>1, <1>1, <1>2, <1>3, <1>4, <1>5 DEF Stream, Start
    <3>2. CASE L > 0
      <4>1. fifo'[1] = fifo[1] /\ consumed = Start(1)
        BY <3>2, <1>4, <1>5 DEF Stream
      <4> QED
        BY <4>1, <1>1, <1>3, <1>5 DEF Start
    <3> QED
      BY <3>1, <3>2, <1>4
  <2>3. ASSUME NEW i \in 1 .. L
        PROVE  Start(i + 1)' = fifo'[i].end
    <3>1. CASE i < L
      <4>1. i \in 1 .. L - 1 /\ i + 1 \in 1 .. L
        BY <3>1, <1>4
      <4>2. Start(i + 1) = fifo[i].end
        BY <4>1 DEF Stream, L
      <4> QED
        BY <4>1, <4>2, <1>5 DEF Start
    <3>2. CASE i = L
      <4>1. fifo[L].end = produced
        BY <3>2, <1>4 DEF Stream, L
      <4>2. fifo'[i] = fifo[L] /\ fifo'[i + 1] = f
        BY <3>2, <1>5
      <4> QED
        BY <4>1, <4>2, <1>2, <1>3 DEF Start
    <3> QED
      BY <3>1, <3>2, <1>4
  <2>4. ASSUME NEW i \in 1 .. L + 1, NEW j \in 1 .. L + 1, i < j
        PROVE  fifo'[i].end < fifo'[j].end
    <3>1. CASE j <= L
      <4>1. i \in 1 .. L /\ j \in 1 .. L
        BY <3>1, <2>4, <1>4
      <4>2. fifo[i].end < fifo[j].end
        BY <4>1, <2>4 DEF Stream, L
      <4> QED
        BY <4>1, <4>2, <1>5
    <3>2. CASE j = L + 1
      <4>1. i \in 1 .. L /\ L \in 1 .. L /\ fifo'[i] = fifo[i] /\ fifo'[j] = f
        BY <3>2, <2>4, <1>4, <1>5
      <4>2. fifo[L].end = produced
        BY <4>1, <1>4 DEF Stream, L
      <4>3. fifo[i].end <= fifo[L].end
        <5>1. CASE i = L
          BY <5>1, <4>1, <1>4
        <5>2. CASE i < L
          <6>1. fifo[i].end < fifo[L].end
            BY <5>2, <4>1 DEF Stream, L
          <6> QED
            BY <6>1, <4>1, <1>4
        <5> QED
          BY <5>1, <5>2, <4>1, <1>4
      <4> QED
        BY <4>1, <4>2, <4>3, <1>2, <1>3, <1>4
    <3> QED
      BY <3>1, <3>2, <1>4
  <2>5. Len(fifo') - 1 = L
    BY <1>4, <1>5
  <2> QED
    BY <2>1, <2>2, <2>3, <2>4, <2>5, <1>5 DEF Stream
<1>7. HostType' /\ PollType' /\ AboveType'
  BY <1>1, TypeParts DEF HostType, PollType, AboveType, host, poll, above
<1>8. SlaveType'
  BY SMTT(30), <1>1, <1>2, <1>5, TypeParts DEF SlaveType, rift
<1>9. Bounds' /\ Stage' /\ NeverOverrun'
  BY <1>1, <1>2 DEF Bounds, Stage, NeverOverrun, host, poll, rift
<1>10. Credit' /\ InStep'
  BY <1>1 DEF Credit, InStep, host, rift
<1>11. Wanted'
  <2> SUFFICES ASSUME pc \in {"data", "drain"}, "rx" \notin apart
               PROVE  \E j \in 1 .. Len(fifo') : consumed + want = fifo'[j].end
    BY <1>1 DEF Wanted, poll, rift
  <2>1. PICK j \in 1 .. Len(fifo) : consumed + want = fifo[j].end
    BY DEF Wanted
  <2>2. j \in 1 .. Len(fifo') /\ fifo'[j] = fifo[j]
    BY <1>4, <1>5 DEF L
  <2> QED
    BY <2>1, <2>2
<1> QED
  BY <1>6, <1>7, <1>8, <1>9, <1>10, <1>11, TypeParts

LEMMA SlaveFreesStep ==
  ASSUME IInv, SlaveFrees
  PROVE  IInv'
<1> USE DEF IInv
<1>1. /\ free < Buffers /\ free' = free + 1 /\ token' = (token + 1) % TxMod
      /\ UNCHANGED <<host, poll, intRaw, produced, consumed, fifo, slaveBusy, above, history>>
  BY DEF SlaveFrees
<1>2. /\ TxMod \in Nat \ {0} /\ Buffers \in Nat /\ txCount \in Int
      /\ free \in 0 .. Buffers /\ token \in Int
  BY SdioAssumption DEF TypeOK
<1>3. token' \in 0 .. TxMod - 1 /\ free' \in 0 .. Buffers
  <2>1. token + 1 \in Int
    BY <1>2
  <2> QED
    BY <2>1, <1>1, <1>2, DivMod
<1>4. Credit'
  <2> SUFFICES ASSUME attached, "tx" \notin apart
               PROVE  token' = (txCount + free') % TxMod
    BY <1>1 DEF Credit, host, history, rift
  <2>1. token = (txCount + free) % TxMod
    BY DEF Credit
  <2> DEFINE x == txCount + free
  <2>2. x \in Int /\ x + 1 = txCount + free' /\ token = x % TxMod
    BY <2>1, <1>1, <1>2
  <2> HIDE DEF x
  <2>3. ((x % TxMod) + 1) % TxMod = (x + 1) % TxMod
    <3>1. TxMod \in Nat \ {0} /\ x \in Int /\ 1 \in Int
      BY <1>2, <2>2
    <3> QED
      BY <3>1, ModPlus, Zenon
  <2> QED
    BY <2>2, <2>3, <1>1
<1>5. HostType' /\ PollType' /\ AboveType'
  BY <1>1, TypeParts DEF HostType, PollType, AboveType, host, poll, above
<1>6. SlaveType'
  BY <1>1, <1>3, TypeParts DEF SlaveType, history, rift
<1>7. Bounds' /\ Stage' /\ Stream' /\ InStep' /\ Wanted'
  BY <1>1 DEF Bounds, Stage, Stream, Start, InStep, Wanted, host, poll, history, rift
<1>8. NeverOverrun'
  <2> SUFFICES ASSUME pc = "write", "tx" \notin apart
               PROVE  SlaveBuffers(tx.len) <= free + 1
    BY <1>1 DEF NeverOverrun, poll, history, rift
  <2>1. SlaveBuffers(tx.len) \in Nat /\ SlaveBuffers(tx.len) <= free
    BY TxFacts, BuffersAgree DEF Stage, NeverOverrun
  <2> QED
    BY <2>1, <1>2
<1> QED
  BY <1>3, <1>4, <1>5, <1>6, <1>7, <1>8, TypeParts

LEMMA SlaveSignalsStep ==
  ASSUME IInv, SlaveThrottles \/ SlaveReleases
  PROVE  IInv'
<1> USE DEF IInv
<1>1. /\ slaveBusy' \in BOOLEAN /\ intRaw' \subseteq {"new", "start", "stop"}
      /\ UNCHANGED <<host, poll, produced, consumed, fifo, token, free, above>>
      /\ UNCHANGED <<made, lost, attaches, rift>>
  BY TypeParts DEF SlaveThrottles, SlaveReleases, SlaveType, history
<1>2. HostType' /\ PollType' /\ AboveType' /\ SlaveType'
  BY <1>1, TypeParts DEF HostType, PollType, AboveType, SlaveType, host, poll, above, rift
<1>3. Bounds' /\ Stage' /\ Credit' /\ NeverOverrun' /\ Wanted'
  BY <1>1 DEF Bounds, Stage, Credit, NeverOverrun, Wanted, host, poll, rift
<1>4. Stream' /\ InStep'
  BY <1>1 DEF Stream, Start, InStep, host, rift
<1> QED
  BY <1>2, <1>3, <1>4, TypeParts

LEMMA SlaveRestartsStep ==
  ASSUME IInv, SlaveRestarts
  PROVE  IInv'
<1> USE DEF IInv
<1>1. /\ apart' = {"rx", "tx"} /\ lost' = lost + Len(fifo)
      /\ intRaw' = {} /\ produced' = 0 /\ consumed' = 0 /\ fifo' = <<>>
      /\ token' = Buffers /\ free' = Buffers /\ slaveBusy' = FALSE
      /\ UNCHANGED <<host, poll, above, made, attaches>> /\ attached
  BY DEF SlaveRestarts, SlaveReset
<1>2. HostType' /\ PollType' /\ AboveType'
  BY <1>1, TypeParts DEF HostType, PollType, AboveType, host, poll, above
<1>3. SlaveType'
  <2>1. <<>> \in Seq(RxFrame)
    OBVIOUS
  <2> QED
    BY <2>1, <1>1, ConstantFacts DEF SlaveType
<1>4. Bounds' /\ Stage'
  BY <1>1, FifoFacts DEF Bounds, Stage, host, poll
<1>5. Credit' /\ NeverOverrun' /\ InStep' /\ Wanted'
  BY <1>1 DEF Credit, NeverOverrun, InStep, Wanted
<1>6. Stream'
  BY <1>1, SdioAssumption DEF Stream
<1> QED
  BY <1>2, <1>3, <1>4, <1>5, <1>6, TypeParts

LEMMA DispatchStep ==
  ASSUME IInv, Dispatch
  PROVE  IInv'
<1> USE DEF IInv
<1>1. /\ queue # <<>> /\ out' = Head(queue) /\ queue' = Tail(queue)
      /\ UNCHANGED <<up, dropped, host, poll, slave, made, lost, attaches, rift>>
  BY DEF Dispatch, Q!HandOut
<1>2. AboveType'
  <2>1. queue \in Seq(RxFrame) /\ up \in BOOLEAN /\ dropped \in Nat
    BY DEF TypeOK
  <2> QED
    BY <2>1, <1>1, HeadTailProperties DEF AboveType
<1>3. HostType' /\ PollType' /\ SlaveType'
  BY <1>1, TypeParts DEF HostType, PollType, SlaveType, host, poll, slave, rift
<1>4. Bounds' /\ Stage' /\ Credit' /\ NeverOverrun' /\ Wanted'
  BY <1>1 DEF Bounds, Stage, Credit, NeverOverrun, Wanted, host, poll, slave, rift
<1>5. Stream' /\ InStep'
  BY <1>1 DEF Stream, Start, InStep, host, slave, rift
<1> QED
  BY <1>2, <1>3, <1>4, <1>5, TypeParts

-----------------------------------------------------------------------------
LEMMA NextIInv == IInv /\ [Next]_vars => IInv'
<1> SUFFICES ASSUME IInv, [Next]_vars
             PROVE  IInv'
  OBVIOUS
<1>1. CASE UNCHANGED vars
  <2> USE <1>1 DEF IInv, vars, host, poll, slave, above, rift, history
  <2>1. TypeOK'
    BY TypeParts DEF HostType, PollType, SlaveType, AboveType
  <2>2. Bounds' /\ Stage' /\ Credit' /\ NeverOverrun' /\ Wanted' /\ Stream' /\ InStep'
    BY DEF Bounds, Stage, Credit, NeverOverrun, Wanted, Stream, Start, InStep
  <2> QED
    BY <2>1, <2>2
<1>2. CASE Attach \/ Detach
  BY <1>2, AttachStep, DetachStep
<1>3. CASE PollBegin \/ PollRaw \/ PollClear \/ PollLen
  BY <1>3, PollBeginStep, PollRawStep, PollClearStep, PollLenStep
<1>4. CASE PollDrain \/ PollData \/ PollParse
  BY <1>4, PollDrainStep, PollDataStep, PollParseStep
<1>5. CASE (\E k \in TxKind : TxBegin(k)) \/ TxToken \/ TxWrite
  BY <1>5, TxBeginStep, TxTokenStep, TxWriteStep
<1>6. CASE (\E k \in RxKind : SlaveSends(k)) \/ SlaveFrees
  BY <1>6, SlaveSendsStep, SlaveFreesStep
<1>7. CASE SlaveThrottles \/ SlaveReleases \/ SlaveRestarts
  BY <1>7, SlaveSignalsStep, SlaveRestartsStep
<1>8. CASE Dispatch
  BY <1>8, DispatchStep
<1> QED
  BY <1>1, <1>2, <1>3, <1>4, <1>5, <1>6, <1>7, <1>8 DEF Next, HostStep

-----------------------------------------------------------------------------
(* The host and the slave never leave their types: no counter goes beyond  *)
(* its register and the slave never lends more buffers than it has.        *)
THEOREM SdioTypeOK == Spec => []TypeOK
<1>1. IInv => TypeOK
  BY DEF IInv
<1> QED
  BY <1>1, InitIInv, NextIInv, PTL DEF Spec

(* transport_poll and get_len_from_slave: the next byte the host reads is  *)
(* the first of a frame, whatever wrapped, failed, was drained or attached *)
(* anew.                                                                   *)
THEOREM SdioReadsInStep == Spec => []ReadsInStep
<1>1. IInv => ReadsInStep
  <2> SUFFICES ASSUME IInv, attached, "rx" \notin apart, fifo # <<>>
               PROVE  Head(fifo) = fifo[1]
    BY DEF IInv, InStep, Stream, Start, ReadsInStep
  <2> QED
    BY DEF IInv, TypeOK
<1> QED
  BY <1>1, InitIInv, NextIInv, PTL DEF Spec

(* get_tx_buffer_num: the credit the host computes is what the slave has.  *)
THEOREM SdioCreditInStep == Spec => []CreditInStep
<1>1. IInv => CreditInStep
  BY CreditFacts DEF IInv, CreditInStep
<1> QED
  BY <1>1, InitIInv, NextIInv, PTL DEF Spec

(* transport_tx: no frame is written for which the slave has no buffers.   *)
THEOREM SdioNeverOverrun == Spec => []NeverOverrun
<1>1. IInv => NeverOverrun
  BY DEF IInv
<1> QED
  BY <1>1, InitIInv, NextIInv, PTL DEF Spec

-----------------------------------------------------------------------------
(***************************************************************************)
(* Proofs about the frames of HostedSdio on their way from the slave to    *)
(* the client, for every choice of the constants: they stay in the order   *)
(* in which the slave sent them, and none is missing that was not thrown   *)
(* away.                                                                   *)
(***************************************************************************)

-----------------------------------------------------------------------------
(* Sequences of frames, by their numbers.                                  *)
Rising(s) == \A i, k \in 1 .. Len(s) : i < k => s[i].id < s[k].id
Before(s, t) == \A i \in 1 .. Len(s), k \in 1 .. Len(t) : s[i].id < t[k].id
Within(s, low, high) == \A i \in 1 .. Len(s) : low < s[i].id /\ s[i].id <= high

(* t is what stands in s behind the first n.                               *)
IsPart(t, s, n) == Len(t) + n <= Len(s) /\ \A i \in 1 .. Len(t) : t[i] = s[n + i]

LEMMA FrameSeq ==
  ASSUME NEW s \in Seq(RxFrame)
  PROVE  /\ Len(s) \in Nat
         /\ \A i \in 1 .. Len(s) : s[i] \in RxFrame /\ s[i].id \in Nat
<1>1. Len(s) \in Nat /\ \A i \in 1 .. Len(s) : s[i] \in RxFrame
  OBVIOUS
<1>2. \A f \in RxFrame : f.id \in Nat
  BY FrameFacts, SdioAssumption
<1> QED
  BY <1>1, <1>2

LEMMA PartOrder ==
  ASSUME NEW s \in Seq(RxFrame), NEW t \in Seq(RxFrame), NEW u \in Seq(RxFrame),
         NEW n \in Nat, IsPart(t, s, n)
  PROVE  /\ Rising(s) => Rising(t)
         /\ Before(s, u) => Before(t, u)
         /\ Before(u, s) => Before(u, t)
         /\ \A low, high \in Nat : Within(s, low, high) => Within(t, low, high)
<1>1. /\ Len(t) \in Nat /\ Len(s) \in Nat /\ Len(t) + n <= Len(s)
      /\ \A i \in 1 .. Len(t) : t[i] = s[n + i] /\ n + i \in 1 .. Len(s)
  BY FrameSeq DEF IsPart
<1>2. Rising(s) => Rising(t)
  <2> SUFFICES ASSUME Rising(s), NEW i \in 1 .. Len(t), NEW k \in 1 .. Len(t), i < k
               PROVE  t[i].id < t[k].id
    BY DEF Rising
  <2>1. n + i < n + k
    BY <1>1
  <2> QED
    BY <2>1, <1>1 DEF Rising
<1>3. Before(s, u) => Before(t, u)
  BY <1>1 DEF Before
<1>4. Before(u, s) => Before(u, t)
  BY <1>1 DEF Before
<1>5. \A low, high \in Nat : Within(s, low, high) => Within(t, low, high)
  BY <1>1 DEF Within
<1> QED
  BY <1>2, <1>3, <1>4, <1>5

LEMMA TailIsPart ==
  ASSUME NEW s \in Seq(RxFrame), s # <<>>
  PROVE  /\ Tail(s) \in Seq(RxFrame) /\ IsPart(Tail(s), s, 1)
         /\ Head(s) = s[1] /\ Head(s) \in RxFrame /\ 1 \in 1 .. Len(s)
<1>1. /\ Tail(s) \in Seq(RxFrame) /\ Len(Tail(s)) = Len(s) - 1 /\ Len(s) \in Nat \ {0}
      /\ \A i \in 1 .. Len(Tail(s)) : Tail(s)[i] = s[i + 1]
  BY HeadTailProperties, EmptySeq
<1>2. \A i \in 1 .. Len(Tail(s)) : 1 + i = i + 1
  BY <1>1
<1> QED
  BY <1>1, <1>2 DEF IsPart

LEMMA EmptyOrder ==
  ASSUME NEW s
  PROVE  /\ Rising(<<>>) /\ Before(<<>>, s) /\ Before(s, <<>>)
         /\ \A low, high \in Nat : Within(<<>>, low, high)
         /\ <<>> \in Seq(RxFrame) /\ Len(<<>>) = 0
BY DEF Rising, Before, Within

(* A frame behind all the others.                                          *)
LEMMA AppendOrder ==
  ASSUME NEW s \in Seq(RxFrame), NEW f \in RxFrame, NEW u \in Seq(RxFrame),
         NEW low \in Nat, NEW high \in Nat,
         \A i \in 1 .. Len(s) : s[i].id < f.id, low < f.id, f.id <= high
  PROVE  /\ Append(s, f) \in Seq(RxFrame) /\ Len(Append(s, f)) = Len(s) + 1
         /\ Rising(s) => Rising(Append(s, f))
         /\ Within(s, low, high) => Within(Append(s, f), low, high)
         /\ Before(s, u) /\ (\A k \in 1 .. Len(u) : f.id < u[k].id) => Before(Append(s, f), u)
         /\ Before(u, s) /\ (\A k \in 1 .. Len(u) : u[k].id < f.id) => Before(u, Append(s, f))
<1> DEFINE t == Append(s, f)
           L == Len(s)
<1>1. /\ t \in Seq(RxFrame) /\ Len(t) = L + 1 /\ L \in Nat
      /\ \A i \in 1 .. L : t[i] = s[i]
      /\ t[L + 1] = f
  BY AppendProperties, FrameSeq
<1>2. \A i \in 1 .. L + 1 : i \in 1 .. L \/ i = L + 1
  BY <1>1
<1> HIDE DEF t
<1>3. Rising(s) => Rising(t)
  <2> SUFFICES ASSUME Rising(s), NEW i \in 1 .. L + 1, NEW k \in 1 .. L + 1, i < k
               PROVE  t[i].id < t[k].id
    BY <1>1 DEF Rising
  <2>1. i \in 1 .. L
    BY <1>1
  <2> QED
    BY <2>1, <1>1, <1>2 DEF Rising
<1>4. Within(s, low, high) => Within(t, low, high)
  BY <1>1, <1>2 DEF Within
<1>5. Before(s, u) /\ (\A k \in 1 .. Len(u) : f.id < u[k].id) => Before(t, u)
  BY <1>1, <1>2 DEF Before
<1>6. Before(u, s) /\ (\A k \in 1 .. Len(u) : u[k].id < f.id) => Before(u, t)
  BY <1>1, <1>2 DEF Before
<1> QED
  BY <1>1, <1>3, <1>4, <1>5, <1>6 DEF t

(* One sequence behind another.                                            *)
LEMMA ConcatOrder ==
  ASSUME NEW s \in Seq(RxFrame), NEW t \in Seq(RxFrame), NEW u \in Seq(RxFrame)
  PROVE  /\ s \o t \in Seq(RxFrame)
         /\ Rising(s) /\ Rising(t) /\ Before(s, t) => Rising(s \o t)
         /\ Before(s, u) /\ Before(t, u) => Before(s \o t, u)
<1> DEFINE c == s \o t
           m == Len(s)
           n == Len(t)
<1>1. /\ c \in Seq(RxFrame) /\ Len(c) = m + n /\ m \in Nat /\ n \in Nat
      /\ \A i \in 1 .. m + n : c[i] = IF i <= m THEN s[i] ELSE t[i - m]
  BY ConcatProperties, FrameSeq
<1>2. Rising(s) <=> \A i, k \in 1 .. m : i < k => s[i].id < s[k].id
  BY DEF Rising
<1>3. Rising(t) <=> \A i, k \in 1 .. n : i < k => t[i].id < t[k].id
  BY DEF Rising
<1>4. Before(s, t) <=> \A i \in 1 .. m, k \in 1 .. n : s[i].id < t[k].id
  BY DEF Before
<1>5. /\ Before(s, u) <=> \A i \in 1 .. m, k \in 1 .. Len(u) : s[i].id < u[k].id
      /\ Before(t, u) <=> \A i \in 1 .. n, k \in 1 .. Len(u) : t[i].id < u[k].id
  BY DEF Before
<1> HIDE DEF c, m, n
<1>6. ASSUME NEW i \in 1 .. m + n
      PROVE  \/ i \in 1 .. m /\ c[i] = s[i]
             \/ i > m /\ i - m \in 1 .. n /\ c[i] = t[i - m]
  <2>1. CASE i <= m
    BY <2>1, <1>1
  <2>2. CASE i > m
    <3>1. i - m \in 1 .. n /\ ~(i <= m)
      BY <2>2, <1>1
    <3> QED
      BY <3>1, <2>2, <1>1
  <2> QED
    BY <2>1, <2>2, <1>1
<1>7. Rising(s) /\ Rising(t) /\ Before(s, t) => Rising(c)
  <2> SUFFICES ASSUME Rising(s), Rising(t), Before(s, t),
                      NEW i \in 1 .. m + n, NEW k \in 1 .. m + n, i < k
               PROVE  c[i].id < c[k].id
    BY <1>1 DEF Rising
  <2>1. CASE i <= m /\ k <= m
    <3>1. i \in 1 .. m /\ k \in 1 .. m /\ ~(i > m) /\ ~(k > m)
      BY <2>1, <1>1
    <3>2. c[i] = s[i] /\ c[k] = s[k]
      BY <3>1, <1>6
    <3> QED
      BY <3>1, <3>2, <1>2
  <2>2. CASE i <= m /\ k > m
    <3>1. i \in 1 .. m /\ ~(i > m) /\ k \notin 1 .. m
      BY <2>2, <1>1
    <3>2. c[i] = s[i] /\ k - m \in 1 .. n /\ c[k] = t[k - m]
      BY <3>1, <1>6
    <3> QED
      BY <3>1, <3>2, <1>4
  <2>3. CASE i > m /\ k > m
    <3>1. i - m < k - m /\ i \notin 1 .. m /\ k \notin 1 .. m
      BY <2>3, <1>1
    <3>2. i - m \in 1 .. n /\ c[i] = t[i - m] /\ k - m \in 1 .. n /\ c[k] = t[k - m]
      BY <3>1, <1>6
    <3> QED
      BY <3>1, <3>2, <1>3
  <2> QED
    BY <2>1, <2>2, <2>3, <1>1
<1>8. Before(s, u) /\ Before(t, u) => Before(c, u)
  BY <1>1, <1>5, <1>6 DEF Before
<1> QED
  BY <1>1, <1>7, <1>8 DEF c

(* What reading a whole number of frames does to the frames not read.      *)
LEMMA ServedParts ==
  ASSUME IInv, pc \in {"data", "drain"}, SlaveServes
  PROVE  /\ Served \in 1 .. Len(fifo) /\ fifo' \in Seq(RxFrame) /\ IsPart(fifo', fifo, Served)
         /\ Len(fifo') = Len(fifo) - Served
<1>1. /\ Served \in 1 .. Len(fifo) /\ fifo' \in Seq(RxFrame)
      /\ Len(fifo') = Len(fifo) - Served
      /\ \A i \in 1 .. Len(fifo) - Served : fifo'[i] = fifo[Served + i]
  BY ServesFifo DEF IInv
<1> QED
  BY <1>1, FifoFacts DEF IInv, IsPart

LEMMA TakenPart ==
  ASSUME TypeOK, NEW n \in 1 .. Len(fifo)
  PROVE  LET b == SubSeq(fifo, 1, n)
         IN  b \in Seq(RxFrame) /\ Len(b) = n /\ IsPart(b, fifo, 0)
<1> DEFINE b == SubSeq(fifo, 1, n)
<1>1. /\ Len(fifo) \in Nat /\ \A i \in 1 .. n : fifo[i] \in RxFrame
  BY FifoFacts
<1>2. /\ b \in Seq(RxFrame) /\ Len(b) = n /\ \A i \in 1 .. n : b[i] = fifo[i]
  <2>1. /\ b \in Seq(RxFrame) /\ Len(b) = IF 1 <= n THEN n - 1 + 1 ELSE 0
        /\ \A i \in 1 .. n - 1 + 1 : b[i] = fifo[1 + i - 1]
    BY <1>1, SubSeqProperties
  <2>2. n - 1 + 1 = n /\ \A i \in 1 .. n : 1 + i - 1 = i
    BY <1>1
  <2> QED
    BY <2>1, <2>2
<1> HIDE DEF b
<1>3. Len(b) + 0 <= Len(fifo) /\ \A i \in 1 .. Len(b) : b[i] = fifo[0 + i]
  BY <1>1, <1>2
<1> QED
  BY <1>2, <1>3 DEF b, IsPart

-----------------------------------------------------------------------------
(* The path, in pairs.                                                     *)
Order ==
    /\ Rising(queue) /\ Rising(batch) /\ Rising(fifo)
    /\ Within(queue, out.id, made) /\ Within(batch, out.id, made) /\ Within(fifo, out.id, made)
    /\ Before(queue, batch) /\ Before(queue, fifo) /\ Before(batch, fifo)
    /\ out.id <= made

LEMMA PathFacts ==
  ASSUME IInv
  PROVE  /\ queue \in Seq(RxFrame) /\ batch \in Seq(RxFrame) /\ fifo \in Seq(RxFrame)
         /\ out \in RxFrame /\ out.id \in Nat /\ made \in Nat /\ lost \in Nat /\ dropped \in Nat
         /\ Len(queue) \in Nat /\ Len(batch) \in Nat /\ Len(fifo) \in Nat
<1>1. queue \in Seq(RxFrame) /\ batch \in Seq(RxFrame) /\ fifo \in Seq(RxFrame) /\ out \in RxFrame /\ dropped \in Nat
  BY DEF IInv, TypeOK
<1>2. made \in Nat /\ lost \in Nat
  BY SdioAssumption DEF IInv, Bounds
<1> QED
  BY <1>1, <1>2, FrameSeq, FrameFacts, SdioAssumption

LEMMA InitOrder == Init => Order
<1> SUFFICES ASSUME Init PROVE Order
  OBVIOUS
<1>1. queue = <<>> /\ batch = <<>> /\ fifo = <<>> /\ out.id = 0 /\ made = 0
  BY DEF Init, SlaveFresh
<1> QED
  BY <1>1, EmptyOrder DEF Order

-----------------------------------------------------------------------------
(* What a step does to the path.                                           *)
Lossless == UNCHANGED <<lost, dropped>>

Kept == UNCHANGED <<queue, batch, fifo, out, made, handed>> /\ Lossless
Restarted ==
    /\ fifo' = <<>> /\ lost' = lost + Len(fifo)
    /\ UNCHANGED <<queue, batch, out, made, handed, dropped>>
Skipped ==
    /\ fifo' \in Seq(RxFrame)
    /\ \E n \in 1 .. Len(fifo) : IsPart(fifo', fifo, n) /\ Len(fifo') = Len(fifo) - n /\ lost' = lost + n
    /\ UNCHANGED <<queue, batch, out, made, handed, dropped>>
Taken ==
    /\ batch = <<>> /\ batch' \in Seq(RxFrame) /\ fifo' \in Seq(RxFrame)
    /\ \E n \in 1 .. Len(fifo) :
          /\ IsPart(batch', fifo, 0) /\ Len(batch') = n
          /\ IsPart(fifo', fifo, n) /\ Len(fifo') = Len(fifo) - n
    /\ UNCHANGED <<queue, out, made, handed>> /\ Lossless
Accepted ==
    /\ batch # <<>> /\ queue' = Append(queue, Head(batch)) /\ batch' = Tail(batch)
    /\ UNCHANGED <<fifo, out, made, handed>> /\ Lossless
Refused ==
    /\ batch # <<>> /\ batch' = Tail(batch) /\ dropped' = dropped + 1
    /\ UNCHANGED <<queue, fifo, out, made, handed, lost>>
Spoiled ==
    /\ batch # <<>> /\ batch' = <<>> /\ lost' = lost + Len(batch)
    /\ UNCHANGED <<queue, fifo, out, made, handed, dropped>>
Sent ==
    /\ \E f \in RxFrame : f.id = made + 1 /\ fifo' = Append(fifo, f)
    /\ made' = made + 1
    /\ UNCHANGED <<queue, batch, out, handed>> /\ Lossless
Handed ==
    /\ queue # <<>> /\ out' = Head(queue) /\ queue' = Tail(queue) /\ handed' = handed + 1
    /\ UNCHANGED <<batch, fifo, made>> /\ Lossless

PathStep ==
    \/ Kept \/ Restarted \/ Skipped \/ Taken
    \/ Accepted \/ Refused \/ Spoiled \/ Sent \/ Handed

LEMMA ReadFailsPath ==
  ASSUME IInv, pc \in {"data", "drain"}, NEW soon, NEW late, ReadFails(soon, late),
         UNCHANGED <<batch, above, made, handed>>
  PROVE  PathStep
<1>1. CASE UNCHANGED <<slave, apart, lost>>
  BY <1>1 DEF PathStep, Kept, Lossless, slave, above
<1>2. CASE SlaveServes /\ lost' = lost + Served
  BY <1>2, ServedParts DEF PathStep, Skipped, above
<1> QED
  BY <1>1, <1>2 DEF ReadFails

LEMMA PathSteps ==
  ASSUME IInv, [Next]_vars
  PROVE  PathStep
<1> USE DEF poll, slave, above, rift, history
<1>1. CASE UNCHANGED vars
  BY <1>1 DEF vars, PathStep, Kept, Lossless
<1>2. CASE Attach
  BY <1>2 DEF Attach, CardInitFails, SlavePulsed, SlaveReset, PathStep, Kept, Lossless, Restarted
<1>3. CASE Detach \/ PollBegin \/ PollRaw \/ PollClear \/ PollLen
  BY <1>3 DEF Detach, PollBegin, PollRaw, PollClear, PollLen, PathStep, Kept, Lossless
<1>4. CASE (\E k \in TxKind : TxBegin(k)) \/ TxToken \/ TxWrite
  BY <1>4 DEF TxBegin, TxToken, TxWrite, PathStep, Kept, Lossless
<1>5. CASE SlaveFrees \/ SlaveThrottles \/ SlaveReleases
  BY <1>5 DEF SlaveFrees, SlaveThrottles, SlaveReleases, PathStep, Kept, Lossless
<1>6. CASE SlaveRestarts
  BY <1>6 DEF SlaveRestarts, SlaveReset, PathStep, Restarted
<1>7. CASE PollDrain
  <2>1. pc = "drain" /\ UNCHANGED <<batch, above, made, handed>>
    BY <1>7 DEF PollDrain
  <2>2. CASE SlaveServes /\ lost' = lost + Served
    BY <2>1, <2>2, ServedParts DEF PathStep, Skipped
  <2>3. CASE ReadFails("drain", "drain_late")
    BY <2>1, <2>3, ReadFailsPath
  <2> QED
    BY <1>7, <2>2, <2>3 DEF PollDrain
<1>8. CASE PollData
  <2>1. pc = "data" /\ UNCHANGED <<above, made, handed>>
    BY <1>8 DEF PollData
  <2>2. CASE SlaveServes /\ batch' = SubSeq(fifo, 1, Served) /\ UNCHANGED lost
    <3>1. /\ Served \in 1 .. Len(fifo) /\ fifo' \in Seq(RxFrame)
          /\ IsPart(fifo', fifo, Served) /\ Len(fifo') = Len(fifo) - Served
      BY <2>1, <2>2, ServedParts
    <3>2. batch' \in Seq(RxFrame) /\ Len(batch') = Served /\ IsPart(batch', fifo, 0)
      BY <2>2, <3>1, TakenPart DEF IInv
    <3>3. batch = <<>>
      BY <2>1 DEF IInv, Stage
    <3> QED
      BY <2>1, <2>2, <3>1, <3>2, <3>3 DEF PathStep, Taken, Lossless
  <2>3. CASE ReadFails("data", "data_late") /\ UNCHANGED batch
    BY <2>1, <2>3, ReadFailsPath
  <2> QED
    BY <1>8, <2>2, <2>3 DEF PollData
<1>9. CASE PollParse
  BY <1>9 DEF PollParse, PathStep, Kept, Accepted, Refused, Spoiled, Lossless, Q!Accept, Q!Refuse
<1>10. CASE \E k \in RxKind : SlaveSends(k)
  <2>1. PICK k \in RxKind : SlaveSends(k)
    BY <1>10
  <2> DEFINE f == [id |-> made + 1, end |-> produced + k.size, kind |-> k]
  <2>2. f \in RxFrame /\ f.id = made + 1
    <3>1. made + 1 \in 0 .. MaxFrames /\ produced + k.size \in Nat
      <4>1. made < MaxFrames /\ made \in 0 .. MaxFrames /\ MaxFrames \in Nat
        BY <2>1, SdioAssumption DEF SlaveSends, IInv, Bounds
      <4>2. k.size \in Nat /\ produced \in Nat
        BY SdioAssumption DEF IInv, TypeOK, RxKindType
      <4> QED
        BY <4>1, <4>2
    <3> QED
      BY <3>1 DEF RxFrame
  <2>3. fifo' = Append(fifo, f) /\ made' = made + 1 /\ UNCHANGED <<queue, batch, out, handed, lost, dropped>>
    BY <2>1 DEF SlaveSends
  <2> HIDE DEF f
  <2> QED
    BY <2>2, <2>3 DEF PathStep, Sent, Lossless
<1>11. CASE Dispatch
  BY <1>11 DEF Dispatch, Q!HandOut, PathStep, Handed, Lossless
<1> QED
  BY <1>1, <1>2, <1>3, <1>4, <1>5, <1>6, <1>7, <1>8, <1>9, <1>10, <1>11 DEF Next, HostStep

-----------------------------------------------------------------------------
LEMMA NextOrder == IInv /\ IInv' /\ Order /\ PathStep => Order'
<1> SUFFICES ASSUME IInv, IInv', Order, PathStep
             PROVE  Order'
  OBVIOUS
<1>0. /\ queue \in Seq(RxFrame) /\ batch \in Seq(RxFrame) /\ fifo \in Seq(RxFrame)
      /\ out.id \in Nat /\ made \in Nat
      /\ Len(queue) \in Nat /\ Len(batch) \in Nat /\ Len(fifo) \in Nat
  BY PathFacts
<1>1. CASE Kept
  BY <1>1 DEF Kept, Order
<1>2. CASE Restarted
  <2>1. fifo' = <<>> /\ UNCHANGED <<queue, batch, out, made>>
    BY <1>2 DEF Restarted
  <2> QED
    BY <2>1, <1>0, EmptyOrder DEF Order
<1>3. CASE Skipped
  <2>1. PICK n \in 1 .. Len(fifo) : IsPart(fifo', fifo, n)
    BY <1>3 DEF Skipped
  <2>2. fifo' \in Seq(RxFrame) /\ n \in Nat /\ UNCHANGED <<queue, batch, out, made>>
    BY <1>3, <1>0 DEF Skipped
  <2> QED
    BY <2>1, <2>2, <1>0, PartOrder DEF Order
<1>4. CASE Taken
  <2>1. PICK n \in 1 .. Len(fifo) :
          /\ IsPart(batch', fifo, 0) /\ Len(batch') = n
          /\ IsPart(fifo', fifo, n) /\ Len(fifo') = Len(fifo) - n
    BY <1>4 DEF Taken
  <2>2. /\ batch' \in Seq(RxFrame) /\ fifo' \in Seq(RxFrame) /\ n \in Nat /\ 0 \in Nat
        /\ UNCHANGED <<queue, out, made>>
    BY <1>4, <1>0 DEF Taken
  <2>3. /\ Rising(fifo') /\ Within(fifo', out.id, made) /\ Before(queue, fifo')
    BY <2>1, <2>2, <1>0, PartOrder DEF Order
  <2>4. /\ Rising(batch') /\ Within(batch', out.id, made) /\ Before(queue, batch')
    BY <2>1, <2>2, <1>0, PartOrder DEF Order
  <2>5. Before(batch', fifo')
    <3> SUFFICES ASSUME NEW i \in 1 .. Len(batch'), NEW k \in 1 .. Len(fifo')
                 PROVE  batch'[i].id < fifo'[k].id
      BY DEF Before
    <3>1. batch'[i] = fifo[i] /\ fifo'[k] = fifo[n + k]
      BY <2>1, <2>2, <1>0 DEF IsPart
    <3>2. i \in 1 .. Len(fifo) /\ n + k \in 1 .. Len(fifo) /\ i < n + k
      BY <2>1, <2>2, <1>0
    <3> QED
      BY <3>1, <3>2 DEF Order, Rising
  <2> QED
    BY <2>2, <2>3, <2>4, <2>5, EmptyOrder DEF Order
<1>5. CASE Accepted \/ Refused
  <2>1. /\ batch # <<>> /\ batch' = Tail(batch) /\ UNCHANGED <<fifo, out, made>>
        /\ queue' \in {queue, Append(queue, Head(batch))}
    BY <1>5 DEF Accepted, Refused
  <2>2. /\ batch' \in Seq(RxFrame) /\ IsPart(batch', batch, 1)
        /\ Head(batch) = batch[1] /\ Head(batch) \in RxFrame /\ 1 \in 1 .. Len(batch) /\ 1 \in Nat
    BY <2>1, <1>0, TailIsPart
  <2>3. /\ Rising(batch') /\ Within(batch', out.id, made) /\ Before(queue, batch') /\ Before(batch', fifo)
    BY <2>2, <1>0, PartOrder DEF Order
  <2>4. CASE queue' = queue
    BY <2>1, <2>3, <2>4 DEF Order
  <2>5. CASE queue' = Append(queue, Head(batch))
    <3> DEFINE f == Head(batch)
    <3>1. /\ f \in RxFrame /\ out.id < f.id /\ f.id <= made
          /\ \A i \in 1 .. Len(queue) : queue[i].id < f.id
          /\ \A k \in 1 .. Len(fifo) : f.id < fifo[k].id
      BY <2>2 DEF Order, Within, Before
    <3>2. \A k \in 1 .. Len(batch') : f.id < batch'[k].id
      <4> SUFFICES ASSUME NEW k \in 1 .. Len(batch')
                   PROVE  f.id < batch'[k].id
        OBVIOUS
      <4>1. batch'[k] = batch[1 + k] /\ 1 + k \in 1 .. Len(batch) /\ 1 < 1 + k
        BY <2>2, <1>0, FrameSeq DEF IsPart
      <4> QED
        BY <4>1, <2>2 DEF Order, Rising
    <3> HIDE DEF f
    <3>3. /\ Rising(queue') /\ Within(queue', out.id, made) /\ Before(queue', fifo)
      BY <2>5, <3>1, <1>0, AppendOrder DEF Order, f
    <3>4. Before(queue', batch')
      BY <2>2, <2>3, <2>5, <3>1, <3>2, <1>0, AppendOrder DEF Order, f
    <3> QED
      BY <2>1, <2>3, <3>3, <3>4 DEF Order
  <2> QED
    BY <2>1, <2>4, <2>5
<1>6. CASE Spoiled
  <2>1. batch' = <<>> /\ UNCHANGED <<queue, fifo, out, made>>
    BY <1>6 DEF Spoiled
  <2> QED
    BY <2>1, <1>0, EmptyOrder DEF Order
<1>7. CASE Sent
  <2>1. PICK f \in RxFrame : f.id = made + 1 /\ fifo' = Append(fifo, f)
    BY <1>7 DEF Sent
  <2>2. made' = made + 1 /\ UNCHANGED <<queue, batch, out>>
    BY <1>7 DEF Sent
  <2>3. /\ \A i \in 1 .. Len(fifo) : fifo[i].id <= made
        /\ \A i \in 1 .. Len(queue) : queue[i].id <= made
        /\ \A i \in 1 .. Len(batch) : batch[i].id <= made
    BY DEF Order, Within
  <2>4. /\ \A i \in 1 .. Len(fifo) : fifo[i].id < f.id
        /\ \A i \in 1 .. Len(queue) : queue[i].id < f.id
        /\ \A i \in 1 .. Len(batch) : batch[i].id < f.id
        /\ out.id < f.id /\ f.id <= made + 1
    <3>1. out.id <= made /\ f.id = made + 1
      BY <2>1 DEF Order
    <3>2. /\ \A i \in 1 .. Len(fifo) : fifo[i].id \in Nat
          /\ \A i \in 1 .. Len(queue) : queue[i].id \in Nat
          /\ \A i \in 1 .. Len(batch) : batch[i].id \in Nat
      BY <1>0, FrameSeq
    <3>3. \A x \in Nat : x <= made => x < f.id
      BY <3>1, <1>0
    <3>4. out.id < f.id /\ f.id <= made + 1
      BY <3>1, <3>3, <1>0
    <3> QED
      BY <3>2, <3>3, <3>4, <2>3
  <2>5. /\ Within(queue, out.id, made + 1) /\ Within(batch, out.id, made + 1)
        /\ Within(fifo, out.id, made + 1) /\ made + 1 \in Nat
    BY <1>0, FrameSeq DEF Order, Within
  <2>6. /\ Rising(fifo') /\ Within(fifo', out.id, made + 1)
        /\ Before(queue, fifo') /\ Before(batch, fifo')
    BY <2>1, <2>4, <2>5, <1>0, AppendOrder DEF Order
  <2> QED
    BY <2>2, <2>5, <2>6, <1>0 DEF Order
<1>8. CASE Handed
  <2>1. /\ queue # <<>> /\ out' = Head(queue) /\ queue' = Tail(queue)
        /\ UNCHANGED <<batch, fifo, made>>
    BY <1>8 DEF Handed
  <2>2. /\ queue' \in Seq(RxFrame) /\ IsPart(queue', queue, 1)
        /\ out' = queue[1] /\ out' \in RxFrame /\ 1 \in 1 .. Len(queue) /\ 1 \in Nat
    BY <2>1, <1>0, TailIsPart
  <2>3. /\ Rising(queue') /\ Within(queue', out.id, made) /\ Before(queue', batch) /\ Before(queue', fifo)
    BY <2>2, <1>0, PartOrder DEF Order
  <2>4. out'.id <= made
    BY <2>2 DEF Order, Within
  <2>5. Within(queue', out'.id, made)
    <3> SUFFICES ASSUME NEW k \in 1 .. Len(queue')
                 PROVE  out'.id < queue'[k].id
      BY <2>3 DEF Within
    <3>1. queue'[k] = queue[1 + k] /\ 1 + k \in 1 .. Len(queue) /\ 1 < 1 + k
      BY <2>2, <1>0, FrameSeq DEF IsPart
    <3> QED
      BY <3>1, <2>2 DEF Order, Rising
  <2>6. Within(batch, out'.id, made) /\ Within(fifo, out'.id, made)
    BY <2>2 DEF Order, Within, Before
  <2> QED
    BY <2>1, <2>3, <2>4, <2>5, <2>6 DEF Order
<1> QED
  BY <1>1, <1>2, <1>3, <1>4, <1>5, <1>6, <1>7, <1>8 DEF PathStep

-----------------------------------------------------------------------------
(* Every frame is somewhere.                                               *)
Counted == handed \in Nat /\ NothingVanishes

LEMMA InitCounted == Init => Counted
<1> SUFFICES ASSUME Init PROVE Counted
  OBVIOUS
<1>1. /\ queue = <<>> /\ batch = <<>> /\ fifo = <<>>
      /\ made = 0 /\ handed = 0 /\ dropped = 0 /\ lost = 0
  BY DEF Init, SlaveFresh
<1> QED
  BY <1>1, EmptySeq DEF Counted, NothingVanishes

LEMMA NextCounted == IInv /\ Counted /\ PathStep => Counted'
<1> SUFFICES ASSUME IInv, Counted, PathStep
             PROVE  Counted'
  OBVIOUS
<1> DEFINE q == Len(queue)
           b == Len(batch)
           n == Len(fifo)
<1>1. /\ queue \in Seq(RxFrame) /\ batch \in Seq(RxFrame) /\ fifo \in Seq(RxFrame)
      /\ made \in Nat /\ lost \in Nat /\ dropped \in Nat /\ handed \in Nat
      /\ q \in Nat /\ b \in Nat /\ n \in Nat
      /\ made = handed + dropped + lost + q + b + n
  BY PathFacts DEF Counted, NothingVanishes
<1>2. SUFFICES handed' \in Nat /\ made' = handed' + dropped' + lost' + Len(queue') + Len(batch') + Len(fifo')
  BY DEF Counted, NothingVanishes
<1>3. CASE Kept
  BY <1>1, <1>3 DEF Kept, Lossless
<1>4. CASE Restarted
  <2>1. Len(fifo') = 0 /\ lost' = lost + n
    BY <1>4 DEF Restarted
  <2> HIDE DEF q, b, n
  <2>2. Len(queue') = q /\ Len(batch') = b /\ UNCHANGED <<made, handed, dropped>>
    BY <1>4 DEF Restarted, q, b
  <2> QED
    BY <1>1, <2>1, <2>2
<1>5. CASE Skipped
  <2>1. PICK k \in 1 .. n : Len(fifo') = n - k /\ lost' = lost + k
    BY <1>5 DEF Skipped
  <2>2. Len(queue') = q /\ Len(batch') = b /\ UNCHANGED <<made, handed, dropped>>
    BY <1>5 DEF Skipped
  <2> HIDE DEF q, b, n
  <2> QED
    BY <1>1, <2>1, <2>2
<1>6. CASE Taken
  <2>1. PICK k \in 1 .. n : Len(batch') = k /\ Len(fifo') = n - k
    BY <1>6 DEF Taken
  <2>2. Len(queue') = q /\ b = 0 /\ UNCHANGED <<made, handed, dropped, lost>>
    BY <1>6 DEF Taken, Lossless
  <2> HIDE DEF q, b, n
  <2> QED
    BY <1>1, <2>1, <2>2
<1>7. ASSUME batch # <<>>, batch' = Tail(batch) PROVE Len(batch') = b - 1
  BY <1>1, <1>7, HeadTailProperties
<1>8. CASE Accepted
  <2>1. Len(batch') = b - 1 /\ UNCHANGED <<fifo, made, handed, dropped, lost>>
    BY <1>7, <1>8 DEF Accepted, Lossless
  <2>2. Len(queue') = q + 1
    <3>1. Head(batch) \in RxFrame /\ queue' = Append(queue, Head(batch))
      BY <1>1, <1>8, TailIsPart DEF Accepted
    <3> QED
      BY <1>1, <3>1, AppendProperties
  <2>3. Len(fifo') = n
    BY <2>1
  <2> HIDE DEF q, b, n
  <2> QED
    BY <1>1, <2>1, <2>2, <2>3
<1>9. CASE Refused
  <2>1. Len(batch') = b - 1 /\ Len(queue') = q /\ Len(fifo') = n /\ dropped' = dropped + 1
        /\ UNCHANGED <<made, handed, lost>>
    BY <1>7, <1>9 DEF Refused
  <2> HIDE DEF q, b, n
  <2> QED
    BY <1>1, <2>1
<1>10. CASE Spoiled
  <2>1. Len(batch') = 0 /\ Len(queue') = q /\ Len(fifo') = n /\ lost' = lost + b
        /\ UNCHANGED <<made, handed, dropped>>
    BY <1>10 DEF Spoiled
  <2> HIDE DEF q, b, n
  <2> QED
    BY <1>1, <2>1
<1>11. CASE Sent
  <2>1. PICK f \in RxFrame : fifo' = Append(fifo, f)
    BY <1>11 DEF Sent
  <2>2. Len(fifo') = n + 1
    BY <1>1, <2>1, AppendProperties
  <2>3. Len(queue') = q /\ Len(batch') = b /\ made' = made + 1 /\ UNCHANGED <<handed, lost, dropped>>
    BY <1>11 DEF Sent, Lossless
  <2> HIDE DEF q, b, n
  <2> QED
    BY <1>1, <2>2, <2>3
<1>12. CASE Handed
  <2>1. Len(queue') = q - 1
    BY <1>1, <1>12, HeadTailProperties DEF Handed
  <2>2. Len(batch') = b /\ Len(fifo') = n /\ handed' = handed + 1 /\ UNCHANGED <<made, lost, dropped>>
    BY <1>12 DEF Handed, Lossless
  <2> HIDE DEF q, b, n
  <2> QED
    BY <1>1, <2>1, <2>2
<1> QED
  BY <1>3, <1>4, <1>5, <1>6, <1>8, <1>9, <1>10, <1>11, <1>12 DEF PathStep

-----------------------------------------------------------------------------
PInv == IInv /\ Order /\ Counted

LEMMA InitPInv == Init => PInv
BY InitIInv, InitOrder, InitCounted DEF PInv

LEMMA NextPInv == PInv /\ [Next]_vars => PInv'
<1> SUFFICES ASSUME PInv, [Next]_vars
             PROVE  PInv'
  OBVIOUS
<1>1. IInv /\ IInv' /\ PathStep /\ Order /\ Counted
  BY NextIInv, PathSteps DEF PInv
<1>2. Order'
  BY <1>1, NextOrder
<1>3. Counted'
  BY <1>1, NextCounted
<1> QED
  BY <1>1, <1>2, <1>3 DEF PInv

(* From esp_hosted_sdio_parse_rx_frames up to the client and down to the   *)
(* slave: the frames are in the order the slave sent them, and none is     *)
(* twice on the path.                                                      *)
THEOREM SdioPathInOrder == Spec => []PathInOrder
<1>1. PInv => PathInOrder
  <2> SUFFICES ASSUME PInv PROVE PathInOrder
    OBVIOUS
  <2> DEFINE s0 == <<out>>
             s1 == s0 \o queue
             s2 == s1 \o batch
             s3 == s2 \o fifo
  <2>1. /\ queue \in Seq(RxFrame) /\ batch \in Seq(RxFrame) /\ fifo \in Seq(RxFrame)
        /\ out \in RxFrame /\ Order
    BY PathFacts DEF PInv
  <2>2. s0 \in Seq(RxFrame) /\ Len(s0) = 1 /\ s0[1] = out
    BY <2>1
  <2> HIDE DEF s0
  <2>3. /\ Rising(s0) /\ Before(s0, queue) /\ Before(s0, batch) /\ Before(s0, fifo)
    BY <2>1, <2>2 DEF Order, Within, Rising, Before
  <2>4. s1 \in Seq(RxFrame) /\ Rising(s1) /\ Before(s1, batch) /\ Before(s1, fifo)
    BY <2>1, <2>2, <2>3, ConcatOrder DEF Order
  <2> HIDE DEF s1
  <2>5. s2 \in Seq(RxFrame) /\ Rising(s2) /\ Before(s2, fifo)
    BY <2>1, <2>4, ConcatOrder DEF Order
  <2> HIDE DEF s2
  <2>6. s3 \in Seq(RxFrame) /\ Rising(s3)
    BY <2>1, <2>5, ConcatOrder DEF Order
  <2> HIDE DEF s3
  <2>7. \A i \in 1 .. Len(s3) - 1 : s3[i].id < s3[i + 1].id
    BY SMTT(30), <2>6, FrameSeq DEF Rising
  <2> QED
    BY <2>7 DEF PathInOrder, s0, s1, s2, s3
<1> QED
  BY <1>1, InitPInv, NextPInv, PTL DEF Spec

(* On the way from the slave to the client every frame is at one place, or *)
(* has been handed out, refused and counted by the full queue, or thrown   *)
(* away by one of the steps that write "lost"; none is missing, and none   *)
(* there twice.                                                            *)
THEOREM SdioNothingVanishes == Spec => []NothingVanishes
<1>1. PInv => NothingVanishes
  BY DEF PInv, Counted
<1> QED
  BY <1>1, InitPInv, NextPInv, PTL DEF Spec
=============================================================================
