-------------------------- MODULE I2sStreamProofs ---------------------------
(***************************************************************************)
(* Proofs about I2sStream for every number of buffers and every bound, for *)
(* an application that does not call i2s_stream_poll by itself: the queue  *)
(* is true, chunks are moved once and in order, and a drain that succeeds  *)
(* means that all of them were.                                            *)
(***************************************************************************)
EXTENDS I2sStream, FiniteSetTheorems, TLAPS

-----------------------------------------------------------------------------
(* Where the program is, and what its call has still to do.                *)
Writing == {"test", "fill", "link", "queue"}
Polling == {"poll", "poll_queued", "poll_owner", "poll_resume", "polled"}

Stage ==
    /\ run.at # "idle" => run.call # "none"
    /\ run.call = "poll" => run.at \in Polling
    /\ run.call = "write" => accepted + run.todo <= MaxChunks
    /\ run.at \in Writing => run.call = "write" /\ run.todo > 0
    /\ run.at = "start" => run.call = "write"
    /\ run.at = "sleep" => run.sleeps > 0
    /\ run.call = "drain" /\ run.at \notin {"idle", "top"} => run.sleeps > 0
    /\ run.at \in Polling /\ run.call # "poll" => run.ret = "check"
    /\ run.at \in {"resume", "restart"} => run.ret = "check" \/ (run.ret = "top" /\ run.call = "write")

TypeInv == TypeOK /\ Stage

-----------------------------------------------------------------------------
(* Chunk c is in slot SlotOf(c).                                           *)
SlotOf(c) == (c - 1) % Count

(* The chunks reclaimed, and the last one the channel can come to: the one *)
(* being appended, once it is linked.                                      *)
Base == accepted - dev.queued
Linked == dev.queued > 0 /\ desc[SlotOf(accepted)].next # NULL
Reach == IF Linked THEN accepted + 1 ELSE accepted

Handle ==
    /\ dev.mode /\ ~dev.error /\ "desc_error" \notin status
    /\ run.at \notin Polling
    /\ dev.queued <= Count /\ dev.queued <= accepted
    /\ dev.head = SlotOf(accepted + 1) /\ dev.tail = SlotOf(Base + 1)
    /\ Base <= moved /\ moved <= Reach

Chunks ==
    \A c \in Base + 1 .. accepted :
        buf[SlotOf(c)] = c /\ (desc[SlotOf(c)].owner = "CPU" <=> c <= moved)

Links == 
    /\ \A c \in Base + 1 .. accepted - 1 : desc[SlotOf(c)].next = SlotOf(c + 1) /\ ~desc[SlotOf(c)].eof
    /\ dev.queued > 0 =>
          LET d == desc[SlotOf(accepted)]
          IN  /\ ~locked => d.next = NULL /\ d.eof
              /\ run.at = "link" => d.next \in {NULL, dev.head} /\ d.eof
              /\ run.at = "queue" => d.next = dev.head /\ ~d.eof

Rest ==
    \A c \in accepted + 1 .. Base + Count : desc[SlotOf(c)] = Free \/ (c = accepted + 1 /\ locked)

Appending ==
    /\ run.at = "link" => dev.queued > 0
    /\ run.at \in {"fill", "link", "queue"} => buf[dev.head] = accepted + 1 /\ dev.queued < Count
    /\ locked => desc[dev.head] = [Free EXCEPT !.owner = IF moved = accepted + 1 THEN "CPU" ELSE "DMA"]

Channel ==
    /\ dma.cur # NULL =>
          /\ dma.cur = SlotOf(moved + 1) /\ moved + 1 <= Reach
          /\ \/ dma.next = NULL /\ dma.eof
             \/ dma.next = SlotOf(moved + 2) /\ moved + 2 <= Reach
    /\ dma.cur = NULL /\ dma.next # NULL => dma.next = SlotOf(moved + 1) /\ moved + 1 <= Reach
    /\ ~DmaIdle => dev.started
    /\ moved # Base => "done" \in status /\ dev.started

Drained ==
    /\ drained # "none" => run.at = "idle"
    /\ drained = "true" => moved = accepted

Ring == Handle /\ Chunks /\ Links /\ Rest /\ Appending

LockTrue == locked <=> run.at \in {"link", "queue"}

Stream == irqOwner => Ring /\ Channel /\ Drained

Inv == TypeInv /\ LockTrue /\ Stream
-----------------------------------------------------------------------------
(* Arithmetic of the ring.                                                 *)

LEMMA DivMod ==
  ASSUME NEW m \in Nat \ {0}, NEW a \in Int
  PROVE  a % m \in 0 .. m - 1 /\ a \div m \in Int /\ a = m * (a \div m) + (a % m)
OBVIOUS

LEMMA ModOf ==
  ASSUME NEW m \in Nat \ {0}, NEW q \in Int, NEW r \in 0 .. m - 1
  PROVE  (m * q + r) % m = r
OBVIOUS

(* What is added may be added before or after the reduction.               *)
LEMMA ModPlus ==
  ASSUME NEW m \in Nat \ {0}, NEW a \in Int, NEW b \in Int
  PROVE  ((a % m) + b) % m = (a + b) % m
<1> DEFINE q == a \div m
           r == a % m
           x == r + b
           s == x \div m
           t == x % m
<1>1. q \in Int /\ r \in 0 .. m - 1 /\ a = m * q + r
  BY DivMod
<1> HIDE DEF q, r
<1>2. x \in Int
  BY <1>1
<1> HIDE DEF x
<1>3. s \in Int /\ t \in 0 .. m - 1 /\ x = m * s + t
  BY <1>2, DivMod
<1> HIDE DEF s, t
<1>4. m * q + m * s = m * (q + s) /\ q + s \in Int
  BY <1>1, <1>3
<1>5. a + b = m * (q + s) + t
  BY <1>1, <1>3, <1>4 DEF x
<1>6. (a + b) % m = t
  BY <1>3, <1>4, <1>5, ModOf
<1> QED
  BY <1>6 DEF r, t, x

LEMMA ModSmall ==
  ASSUME NEW m \in Nat \ {0}, NEW a \in 0 .. m - 1
  PROVE  a % m = a
BY ModOf, m * 0 + a = a

(* A distance of less than the modulus does not vanish.                    *)
LEMMA ModApart ==
  ASSUME NEW m \in Nat \ {0}, NEW a \in Int, NEW d \in 1 .. m - 1
  PROVE  (a + d) % m # a % m
<1> DEFINE r == a % m
<1>1. r \in 0 .. m - 1 /\ (r + d) % m = (a + d) % m
  <2>1. d \in Int
    OBVIOUS
  <2> QED
    BY <2>1, DivMod, ModPlus
<1> HIDE DEF r
<1>2. CASE r + d < m
  <2>1. (r + d) % m = r + d
    BY <1>1, <1>2, ModSmall
  <2> QED
    BY <1>1, <2>1 DEF r
<1>3. CASE r + d >= m
  <2> DEFINE e == r + d - m
  <2>1. e \in 0 .. m - 1 /\ m * 1 + e = r + d /\ e # r
    BY <1>1, <1>3
  <2> HIDE DEF e
  <2>2. (m * 1 + e) % m = e
    BY <2>1, ModOf
  <2>3. (a + d) % m = e
    BY <2>1, <2>2, <1>1, Zenon
  <2> QED
    BY <2>1, <2>3, Zenon DEF r
<1> QED
  BY <1>1, <1>2, <1>3

LEMMA CountIs == Count \in Nat \ {0} /\ CountMod \in Nat \ {0} /\ Count < CountMod /\ NULL \notin Slot
BY I2sAssumption DEF Slot

(* The slots of the chunks: a ring.                                        *)
LEMMA SlotIn ==
  ASSUME NEW c \in Int
  PROVE  SlotOf(c) \in Slot /\ SlotOf(c) # NULL
<1>1. SlotOf(c) \in Slot
  BY CountIs, DivMod, c - 1 \in Int DEF SlotOf, Slot
<1> QED
  BY <1>1, CountIs

LEMMA SlotPlus ==
  ASSUME NEW c \in Int, NEW k \in Int
  PROVE  (SlotOf(c) + k) % Count = SlotOf(c + k)
<1>1. c - 1 \in Int /\ (c - 1) + k = (c + k) - 1
  OBVIOUS
<1>2. (((c - 1) % Count) + k) % Count = ((c - 1) + k) % Count
  BY <1>1, CountIs, ModPlus
<1>3. SlotOf(c + k) = ((c + k) - 1) % Count
  BY Zenon DEF SlotOf
<1>4. (SlotOf(c) + k) % Count = (((c - 1) % Count) + k) % Count
  BY Zenon DEF SlotOf
<1>5. SlotOf(c + k) = ((c - 1) + k) % Count
  BY <1>1, <1>3, Zenon
<1> QED
  BY <1>2, <1>4, <1>5, Zenon

LEMMA SlotNext ==
  ASSUME NEW c \in Int
  PROVE  Succ(SlotOf(c)) = SlotOf(c + 1)
BY SlotPlus DEF Succ

LEMMA SlotRound ==
  ASSUME NEW c \in Int
  PROVE  SlotOf(c + Count) = SlotOf(c)
<1> DEFINE q == (c - 1) \div Count
           r == (c - 1) % Count
<1>1. q \in Int /\ r \in 0 .. Count - 1 /\ c - 1 = Count * q + r
  BY CountIs, DivMod, c - 1 \in Int
<1> HIDE DEF q, r
<1>2. (c + Count) - 1 = Count * (q + 1) + r
  <2>1. Count * (q + 1) = Count * q + Count
    BY <1>1, CountIs
  <2> QED
    BY <1>1, <2>1, CountIs
<1>3. (Count * (q + 1) + r) % Count = r
  BY <1>1, CountIs, ModOf, q + 1 \in Int
<1>4. SlotOf(c + Count) = ((c + Count) - 1) % Count /\ SlotOf(c) = (c - 1) % Count
  BY Zenon DEF SlotOf
<1>5. SlotOf(c + Count) = r
  BY <1>2, <1>3, <1>4, Zenon
<1> QED
  BY <1>4, <1>5, Zenon DEF r

LEMMA SlotBefore ==
  ASSUME NEW c \in Int
  PROVE  Pred(SlotOf(c)) = SlotOf(c - 1)
<1>1. SlotOf(c) + Count - 1 = SlotOf(c) + (Count - 1) /\ Count - 1 \in Int
  BY SlotIn, CountIs DEF Slot
<1>2. Pred(SlotOf(c)) = SlotOf(c + (Count - 1))
  BY <1>1, SlotPlus DEF Pred
<1>3. c + (Count - 1) = (c - 1) + Count /\ c - 1 \in Int
  BY CountIs
<1> QED
  BY <1>2, <1>3, SlotRound

LEMMA SlotApart ==
  ASSUME NEW c \in Int, NEW d \in Int, c < d, d - c < Count
  PROVE  SlotOf(c) # SlotOf(d)
<1>1. c - 1 \in Int /\ d - c \in 1 .. Count - 1 /\ (c - 1) + (d - c) = d - 1
  BY CountIs
<1> QED
  BY <1>1, CountIs, ModApart DEF SlotOf

(* Of any Count chunks one is in a given slot.                             *)
LEMMA SlotFound ==
  ASSUME NEW i \in Slot, NEW b \in Int
  PROVE  \E c \in b + 1 .. b + Count : SlotOf(c) = i
<1> DEFINE k == (i - b) % Count
<1>1. i - b \in Int /\ i \in 0 .. Count - 1
  BY CountIs DEF Slot
<1>2. k \in 0 .. Count - 1
  BY <1>1, CountIs, DivMod
<1>3. (k + b) % Count = (i - b + b) % Count
  BY <1>1, CountIs, ModPlus
<1>4. i - b + b = i /\ i % Count = i
  BY <1>1, CountIs, ModSmall
<1> HIDE DEF k
<1>5. b + 1 + k \in b + 1 .. b + Count /\ (b + 1 + k) - 1 = k + b
  BY <1>2, CountIs
<1>6. SlotOf(b + 1 + k) = ((b + 1 + k) - 1) % Count
  BY Zenon DEF SlotOf
<1>7. SlotOf(b + 1 + k) = i
  BY <1>3, <1>4, <1>5, <1>6, Zenon
<1> QED
  BY <1>5, <1>7
-----------------------------------------------------------------------------
(* Types, and what the call in progress has still to do: in every          *)
(* application, i2s_stream_poll included.                                  *)

DescType == [owner : {"CPU", "DMA"}, next : Slot \cup {NULL}, eof : BOOLEAN]
DevType ==
    [mode : BOOLEAN, head : Slot, tail : Slot, queued : 0 .. CountMod - 1, started : BOOLEAN, error : BOOLEAN]
DmaType == [cur : Slot \cup {NULL}, next : Slot \cup {NULL}, eof : BOOLEAN]
RunType ==
    [at : Place, call : {"none", "write", "drain", "poll"},
     ret : {"idle", "check", "top"}, todo : 0 .. MaxLen, sleeps : 0 .. Sleeps]

HardwareType ==
    /\ desc \in [Slot -> DescType]
    /\ dev \in DevType
    /\ dma \in DmaType

OtherType ==
    /\ buf \in [Slot -> 0 .. MaxChunks]
    /\ irqOwner \in BOOLEAN /\ locked \in BOOLEAN
    /\ status \subseteq {"done", "desc_error"}
    /\ run \in RunType
    /\ accepted \in 0 .. MaxChunks /\ moved \in 0 .. MaxChunks
    /\ drained \in {"none", "true", "false"}

LEMMA Types == TypeOK <=> HardwareType /\ OtherType
BY DEF TypeOK, HardwareType, OtherType, DescType, DevType, DmaType, RunType

LEMMA SlotMod ==
  ASSUME NEW x \in Int
  PROVE  x % Count \in Slot
BY CountIs, DivMod DEF Slot

LEMMA Values ==
  /\ 0 \in Slot /\ Free \in DescType /\ Off \in DmaType
  /\ \A mode \in BOOLEAN : Fresh(mode) \in DevType
  /\ Waiting \in RunType
<1>1. 0 \in Slot
  BY CountIs DEF Slot
<1>2. Free \in DescType /\ Off \in DmaType
  BY DEF Free, DescType, Off, DmaType
<1>3. \A mode \in BOOLEAN : Fresh(mode) \in DevType
  BY <1>1, CountIs DEF Fresh, DevType
<1>4. Waiting \in RunType
  BY I2sAssumption DEF Waiting, RunType, Place
<1> QED
  BY <1>1, <1>2, <1>3, <1>4

LEMMA CompletedIs ==
  ASSUME HardwareType
  PROVE  Cardinality(Completed) \in Nat
<1>1. dev.queued \in Nat
  BY CountIs DEF HardwareType, DevType
<1>2. IsFiniteSet(1 .. dev.queued)
  BY <1>1, FS_Interval
<1>3. Completed \in SUBSET (1 .. dev.queued)
  BY DEF Completed
<1> QED
  BY <1>2, <1>3, FS_Subset, FS_CardinalityType

LEMMA ReclaimTypes ==
  ASSUME HardwareType, Reclaim
  PROVE  HardwareType'
<1> DEFINE n == Cardinality(Completed)
<1>1. n \in Nat
  BY CompletedIs
<1> HIDE DEF n
<1>2. desc' \in [Slot -> DescType]
  <2>1. \A i \in Slot : [desc[i] EXCEPT !.eof = TRUE, !.next = NULL] \in DescType /\ desc[i] \in DescType
    BY DEF HardwareType, DescType
  <2> QED
    BY <2>1 DEF Reclaim
<1>3. dev' \in DevType
  <2>1. dev.tail + n \in Int /\ dev.queued + CountMod - n \in Int
    BY <1>1, CountIs DEF HardwareType, DevType, Slot
  <2>2. (dev.tail + n) % Count \in Slot
    BY <2>1, SlotMod
  <2>3. (dev.queued + CountMod - n) % CountMod \in 0 .. CountMod - 1
    BY <2>1, CountIs, DivMod
  <2>4. \E b \in BOOLEAN :
           dev' = [dev EXCEPT !.tail = (dev.tail + n) % Count,
                              !.queued = (dev.queued + CountMod - n) % CountMod, !.started = b]
    BY DEF Reclaim, n, HardwareType, DevType
  <2> QED
    BY <2>2, <2>3, <2>4 DEF HardwareType, DevType
<1>4. dma' \in DmaType
  BY Values DEF Reclaim, HardwareType
<1> QED
  BY <1>2, <1>3, <1>4 DEF HardwareType

LEMMA StartTypes ==
  ASSUME HardwareType, status \subseteq {"done", "desc_error"}, StartDma
  PROVE  dev' \in DevType /\ dma' \in DmaType /\ status' \subseteq {"done", "desc_error"}
<1>1. CASE dev.queued = 0
  BY <1>1 DEF StartDma, HardwareType
<1>2. CASE dev.queued # 0
  <2>1. /\ dma' = [Off EXCEPT !.next = dev.tail] /\ status' = {}
        /\ dev' = [dev EXCEPT !.started = TRUE, !.error = FALSE]
    BY <1>2 DEF StartDma
  <2>2. dev.tail \in Slot /\ dev \in DevType
    BY DEF HardwareType, DevType
  <2>3. dma' \in DmaType
    BY <2>1, <2>2 DEF Off, DmaType
  <2>4. dev' \in DevType
    BY <2>1, <2>2 DEF DevType
  <2> QED
    BY <2>1, <2>3, <2>4
<1> QED
  BY <1>1, <1>2

LEMMA ResetTypes ==
  ASSUME NEW mode \in BOOLEAN, TypeOK, Reset(mode), irqOwner' \in BOOLEAN
  PROVE  TypeOK'
<1>1. HardwareType'
  BY Values DEF Reset, HardwareType
<1>2. 0 \in 0 .. MaxChunks
  BY I2sAssumption
<1>3. OtherType'
  BY <1>2, Types DEF Reset, OtherType
<1> QED
  BY <1>1, <1>3, Types DEF HardwareType, OtherType, TypeOK, DescType, DevType, DmaType, RunType

(* Where the program goes, its call being as it was.                       *)
LEMMA GotoTypes ==
  ASSUME run \in RunType, NEW place \in Place, Goto(place)
  PROVE  /\ run' \in RunType /\ run'.at = place
         /\ run'.call = run.call /\ run'.ret = run.ret /\ run'.todo = run.todo /\ run'.sleeps = run.sleeps
BY DEF RunType, Goto

(* TypeOK of the next state, from its two halves.                          *)
LEMMA TypesNext ==
  ASSUME HardwareType', OtherType'
  PROVE  TypeOK'
BY DEF TypeOK, HardwareType, OtherType, DescType, DevType, DmaType, RunType

LEMMA TypesNow == TypeInv => HardwareType /\ OtherType /\ Stage
BY Types DEF TypeInv

LEMMA InitTypes == Init => TypeInv
<1> SUFFICES ASSUME Init PROVE TypeInv
  OBVIOUS
<1>1. HardwareType
  BY Values DEF Init, HardwareType
<1>2. OtherType
  <2>1. 0 \in 0 .. MaxChunks
    BY I2sAssumption
  <2> QED
    BY <2>1, Values DEF Init, OtherType
<1>3. Stage
  BY DEF Init, Stage, Waiting, Writing, Polling
<1> QED
  BY <1>1, <1>2, <1>3, Types DEF TypeInv

LEMMA WokenTypes ==
  ASSUME TypeInv, run' = Woken, accepted' = accepted
  PROVE  run' \in RunType /\ Stage'
<1>1. CASE run.at = "sleep"
  <2>1. run.sleeps - 1 \in 0 .. Sleeps
    BY <1>1, TypesNow, I2sAssumption DEF Stage, OtherType, RunType
  <2>2. run' = [run EXCEPT !.at = "top", !.sleeps = run.sleeps - 1]
    BY <1>1 DEF Woken
  <2>3. run' \in RunType
    BY <2>1, <2>2, TypesNow DEF OtherType, RunType, Place
  <2>4. run'.at = "top" /\ run'.call = run.call /\ run'.todo = run.todo
    BY <2>2, TypesNow DEF OtherType, RunType
  <2> QED
    BY <1>1, <2>3, <2>4, TypesNow DEF Stage, Writing, Polling
<1>2. CASE run.at # "sleep"
  BY <1>2, TypesNow DEF Woken, OtherType, Stage
<1> QED
  BY <1>1, <1>2

LEMMA ChannelTypes ==
  ASSUME TypeInv, DmaLoad \/ DmaDone
  PROVE  TypeInv'
<1>1. CASE DmaLoad
  <2>1. dma.next \in Slot /\ desc[dma.next] \in DescType
    BY <1>1, TypesNow DEF DmaLoad, HardwareType, DmaType
  <2>2. dma' \in DmaType
    BY <1>1, <2>1, Values DEF DmaLoad, DmaType, DescType
  <2>3. HardwareType'
    BY <1>1, <2>2, TypesNow DEF DmaLoad, HardwareType
  <2>4. OtherType'
    BY <1>1, TypesNow DEF DmaLoad, OtherType
  <2>5. Stage'
    BY <1>1, TypesNow DEF DmaLoad, Stage
  <2> QED
    BY <2>3, <2>4, <2>5, TypesNext DEF TypeInv
<1>2. CASE DmaDone
  <2>1. dma.cur \in Slot
    BY <1>2, TypesNow DEF DmaDone, HardwareType, DmaType
  <2>2. desc' \in [Slot -> DescType]
    <3>1. [desc[dma.cur] EXCEPT !.owner = "CPU"] \in DescType
      BY <2>1, TypesNow DEF HardwareType, DescType
    <3> QED
      BY <3>1, <1>2, TypesNow DEF DmaDone, HardwareType
  <2>3. HardwareType'
    BY <1>2, <2>2, TypesNow DEF DmaDone, HardwareType, DmaType
  <2>4. OtherType'
    BY <1>2, <2>1, TypesNow DEF DmaDone, OtherType
  <2>5. Stage'
    BY <1>2, TypesNow DEF DmaDone, Stage
  <2> QED
    BY <2>3, <2>4, <2>5, TypesNext DEF TypeInv
<1> QED
  BY <1>1, <1>2

LEMMA InterruptTypes ==
  ASSUME TypeInv, Isr \/ OtherWake
  PROVE  TypeInv'
<1>1. run' \in RunType /\ Stage'
  BY WokenTypes DEF Isr, OtherWake
<1>2. CASE Isr
  <2>1. HardwareType'
    <3>1. CASE "desc_error" \in status
      BY <3>1, <1>2, Values, TypesNow DEF Isr, HardwareType, DevType
    <3>2. CASE "desc_error" \notin status /\ dev.mode /\ dev.started
      BY <3>2, <1>2, ReclaimTypes, TypesNow DEF Isr
    <3>3. CASE "desc_error" \notin status /\ ~(dev.mode /\ dev.started)
      BY <3>3, <1>2, TypesNow DEF Isr, HardwareType
    <3> QED
      BY <3>1, <3>2, <3>3
  <2>2. OtherType'
    BY <1>1, <1>2, TypesNow DEF Isr, OtherType
  <2> QED
    BY <1>1, <2>1, <2>2, TypesNext DEF TypeInv
<1>3. CASE OtherWake
  <2>1. HardwareType'
    BY <1>3, TypesNow DEF OtherWake, HardwareType
  <2>2. OtherType'
    BY <1>1, <1>3, TypesNow DEF OtherWake, OtherType
  <2> QED
    BY <1>1, <2>1, <2>2, TypesNext DEF TypeInv
<1> QED
  BY <1>2, <1>3

LEMMA CallTypes ==
  ASSUME TypeInv, Begin \/ Stop \/ (\E n \in 1 .. MaxLen : Enter("write", n))
                        \/ (\E call \in {"drain", "poll"} : Enter(call, 0))
  PROVE  TypeInv'
<1>1. ASSUME NEW mode \in BOOLEAN, Reset(mode), run.at = "idle", irqOwner' \in BOOLEAN
      PROVE  TypeInv'
  <2>1. TypeOK'
    BY <1>1, ResetTypes DEF TypeInv
  <2>2. run.todo \in 0 .. MaxLen /\ run.call \in {"none", "write", "drain", "poll"}
    BY TypesNow DEF OtherType, RunType
  <2>3. accepted' = 0 /\ run' = run /\ accepted \in Nat
    BY <1>1, TypesNow DEF Reset, OtherType
  <2>4. Stage'
    BY <1>1, <2>2, <2>3, TypesNow, I2sAssumption DEF Stage, Writing, Polling
  <2> QED
    BY <2>1, <2>4 DEF TypeInv
<1>2. ASSUME NEW call \in {"write", "drain", "poll"}, NEW n \in 0 .. MaxLen, Enter(call, n)
      PROVE  TypeInv'
  <2> DEFINE r == [Waiting EXCEPT !.at = IF call = "poll" THEN "poll" ELSE "top", !.call = call,
                                  !.todo = n, !.sleeps = Sleeps]
  <2>5. Sleeps \in 0 .. Sleeps /\ (IF call = "poll" THEN "poll" ELSE "top") \in Place
    BY I2sAssumption DEF Place
  <2>1. run' = r /\ r \in RunType /\ r.call = call /\ r.todo = n
        /\ r.at = IF call = "poll" THEN "poll" ELSE "top"
    <3>1. run' = r
      BY <1>2 DEF Enter
    <3> QED
      BY <2>5, <3>1 DEF Waiting, RunType
  <2>2. HardwareType'
    BY <1>2, TypesNow DEF Enter, HardwareType
  <2>3. OtherType'
    BY <1>2, <2>1, TypesNow DEF Enter, OtherType
  <2> HIDE DEF r
  <2>4. Stage'
    BY <1>2, <2>1 DEF Enter, Stage, Writing, Polling
  <2> QED
    BY <2>2, <2>3, <2>4, TypesNext DEF TypeInv
<1>3. 0 \in 0 .. MaxLen /\ \A n \in 1 .. MaxLen : n \in 0 .. MaxLen
  BY I2sAssumption
<1> QED
  BY <1>1, <1>2, <1>3 DEF Begin, Stop, At

(* The call goes on at another place, or returns.                          *)
LEMMA GotoStage ==
  ASSUME TypeInv, NEW place \in Place \ {"idle"}, Goto(place), accepted' = accepted,
         run.at \notin {"idle", "top"},
         place \in Writing => run.at \in Writing,
         place = "start" => run.call = "write",
         place = "sleep" => run.sleeps > 0,
         place \in Polling => run.at \in Polling,
         run.call = "poll" => place \in Polling,
         place \in {"resume", "restart"} => run.at \in {"resume", "restart"} \cup Polling
  PROVE  run' \in RunType /\ Stage'
BY GotoTypes, TypesNow DEF OtherType, Stage, Writing, Polling

LEMMA ReturnStage ==
  ASSUME TypeInv, Return, accepted' = accepted
  PROVE  run' \in RunType /\ Stage'
BY Values DEF Return, Waiting, Stage, Writing, Polling

LEMMA TopTypes ==
  ASSUME TypeInv, Top
  PROVE  TypeInv'
<1>1. HardwareType'
  BY ReclaimTypes, StartTypes, TypesNow DEF Top, HardwareType, OtherType
<1>2. OtherType' /\ Stage'
  <2>1. run' \in RunType /\ Stage'
    <3>1. CASE Return
      BY <3>1, ReturnStage DEF Top
    <3>2. CASE Goto("test") /\ run.call = "write" /\ run.todo # 0
      <4>1. run.todo > 0 /\ "test" \in Place
        BY <3>2, TypesNow DEF OtherType, RunType, Place
      <4> QED
        BY <3>2, <4>1, GotoTypes, TypesNow DEF Top, OtherType, Stage, Writing, Polling
    <3>3. CASE Goto("reclaim") /\ run.call # "write" /\ run.sleeps # 0
      <4>1. run.sleeps > 0 /\ "reclaim" \in Place
        BY <3>3, TypesNow, I2sAssumption DEF OtherType, RunType, Place
      <4>2. run.call # "poll"
        BY TypesNow DEF Top, At, Stage, Polling
      <4> QED
        BY <3>3, <4>1, <4>2, GotoTypes, TypesNow DEF Top, At, OtherType, Stage, Writing, Polling
    <3> QED
      BY <3>1, <3>2, <3>3 DEF Top
  <2>2. status' \subseteq {"done", "desc_error"} /\ drained' \in {"none", "true", "false"}
    BY StartTypes, TypesNow DEF Top, OtherType
  <2> QED
    BY <2>1, <2>2, TypesNow DEF Top, OtherType
<1> QED
  BY <1>1, <1>2, TypesNext DEF TypeInv

(* The steps of a write.                                                   *)
LEMMA WriteTypes ==
  ASSUME TypeInv, Test \/ Fill \/ Link \/ Queue \/ TryStart
  PROVE  TypeInv'
<1>0. {"reclaim", "fill", "link", "queue", "top", "resume", "start"} \subseteq Place /\ dev.head \in Slot
  BY TypesNow DEF Place, HardwareType, DevType
<1>1. CASE Test
  <2>1. accepted + 1 \in 0 .. MaxChunks
    BY <1>1, TypesNow, I2sAssumption DEF Test, At, Stage, Writing, OtherType, RunType
  <2>2. HardwareType' /\ buf' \in [Slot -> 0 .. MaxChunks]
    BY <1>0, <1>1, <2>1, TypesNow DEF Test, HardwareType, OtherType
  <2>3. run' \in RunType /\ Stage'
    <3>1. CASE Goto("reclaim")
      BY <3>1, <1>0, <1>1, GotoStage, TypesNow DEF Test, At, Writing, Polling, Stage
    <3>2. CASE Goto("fill")
      BY <3>2, <1>0, <1>1, GotoStage, TypesNow DEF Test, At, Writing, Polling, Stage
    <3> QED
      BY <3>1, <3>2, <1>1 DEF Test
  <2>4. OtherType'
    BY <1>1, <2>2, <2>3, TypesNow DEF Test, OtherType
  <2> QED
    BY <2>2, <2>3, <2>4, TypesNext DEF TypeInv
<1>2. CASE Fill
  <2>1. [Free EXCEPT !.owner = "DMA"] \in DescType
    BY Values DEF DescType
  <2>2. HardwareType'
    BY <1>0, <1>2, <2>1, TypesNow DEF Fill, HardwareType
  <2>3. run' \in RunType /\ Stage'
    <3>1. CASE Return
      BY <3>1, <1>2, ReturnStage DEF Fill
    <3>2. ASSUME NEW place \in {"link", "queue"}, Goto(place) PROVE run' \in RunType /\ Stage'
      BY <3>2, <1>0, <1>2, GotoStage, TypesNow DEF Fill, At, Writing, Polling, Stage
    <3> QED
      BY <3>1, <3>2, <1>2 DEF Fill
  <2>4. OtherType'
    BY <1>2, <2>3, TypesNow DEF Fill, OtherType
  <2> QED
    BY <2>2, <2>3, <2>4, TypesNext DEF TypeInv
<1>3. CASE Link
  <2>1. desc' \in [Slot -> DescType]
    <3>1. \A i \in Slot : [desc[i] EXCEPT !.next = dev.head] \in DescType /\ [desc[i] EXCEPT !.eof = FALSE] \in DescType
      BY <1>0, TypesNow DEF HardwareType, DescType
    <3>2. Pred(dev.head) \in Slot
      BY <1>0, CountIs, SlotMod DEF Pred, Slot
    <3> QED
      BY <1>3, <3>1, <3>2, TypesNow DEF Link, HardwareType
  <2>2. HardwareType'
    BY <1>3, <2>1, TypesNow DEF Link, HardwareType
  <2>3. run' \in RunType /\ Stage'
    <3>2. ASSUME NEW place \in {"link", "queue"}, Goto(place) PROVE run' \in RunType /\ Stage'
      BY <3>2, <1>0, <1>3, GotoStage, TypesNow DEF Link, At, Writing, Polling, Stage
    <3> QED
      BY <3>2, <1>3 DEF Link
  <2>4. OtherType'
    BY <1>3, <2>3, TypesNow DEF Link, OtherType
  <2> QED
    BY <2>2, <2>3, <2>4, TypesNext DEF TypeInv
<1>4. CASE Queue
  <2>1. run.todo > 0 /\ run.todo \in Nat /\ run.todo <= MaxLen /\ accepted + run.todo <= MaxChunks /\ run.call = "write"
    BY <1>4, TypesNow, I2sAssumption DEF Queue, At, Stage, Writing, OtherType, RunType
  <2>2. run' = [run EXCEPT !.at = "start", !.todo = run.todo - 1] /\ run.todo - 1 \in 0 .. MaxLen
    BY <1>4, <2>1, I2sAssumption DEF Queue
  <2>3. run' \in RunType /\ run'.at = "start" /\ run'.call = "write" /\ run'.todo = run.todo - 1
    BY <1>0, <2>1, <2>2, TypesNow DEF OtherType, RunType
  <2>4. accepted' = accepted + 1 /\ accepted' \in 0 .. MaxChunks
    BY <1>4, <2>1, TypesNow, I2sAssumption DEF Queue, OtherType
  <2>5. Stage'
    BY <2>1, <2>3, <2>4, TypesNow DEF Stage, Writing, Polling, OtherType
  <2>6. dev' \in DevType
    <3>1. Succ(dev.head) \in Slot
      BY <1>0, CountIs, SlotMod DEF Succ, Slot
    <3>2. (dev.queued + 1) % CountMod \in 0 .. CountMod - 1
      <4>1. dev.queued + 1 \in Int
        BY CountIs, TypesNow DEF HardwareType, DevType
      <4> QED
        BY <4>1, CountIs, DivMod
    <3> QED
      BY <3>1, <3>2, <1>4, TypesNow DEF Queue, HardwareType, DevType
  <2>7. HardwareType'
    BY <1>4, <2>6, TypesNow DEF Queue, HardwareType
  <2>8. OtherType'
    BY <1>4, <2>3, <2>4, TypesNow DEF Queue, OtherType
  <2> QED
    BY <2>5, <2>7, <2>8, TypesNext DEF TypeInv
<1>5. CASE TryStart
  <2>1. HardwareType' /\ status' \subseteq {"done", "desc_error"}
    BY <1>5, StartTypes, TypesNow DEF TryStart, HardwareType, OtherType
  <2>2. run' \in RunType /\ Stage'
    <3>0. run.call = "write" /\ run \in RunType /\ accepted' = accepted /\ Stage
      BY <1>5, TypesNow DEF TryStart, At, Stage, OtherType
    <3>1. CASE Goto("top")
      BY <3>0, <3>1, <1>0, <1>5, GotoStage DEF TryStart, At, Writing, Polling
    <3>2. CASE run' = [run EXCEPT !.at = "resume", !.ret = "top"]
      <4>1. run' \in RunType /\ run'.at = "resume" /\ run'.ret = "top" /\ run'.call = "write" /\ run'.todo = run.todo
        BY <3>0, <3>2, <1>0 DEF RunType
      <4> QED
        BY <3>0, <4>1 DEF Stage, Writing, Polling
    <3> QED
      BY <3>1, <3>2, <1>5 DEF TryStart
  <2>3. OtherType'
    BY <1>5, <2>1, <2>2, TypesNow DEF TryStart, OtherType
  <2> QED
    BY <2>1, <2>2, <2>3, TypesNext DEF TypeInv
<1> QED
  BY <1>1, <1>2, <1>3, <1>4, <1>5

(* The steps of a wait.                                                    *)
LEMMA WaitTypes ==
  ASSUME TypeInv, WaitReclaim \/ Resume \/ Restart \/ Check
  PROVE  TypeInv'
<1>0. {"resume", "poll", "restart", "check", "top", "sleep"} \subseteq Place
  BY DEF Place
<1>1. CASE WaitReclaim
  <2>1. HardwareType'
    BY <1>1, ReclaimTypes, TypesNow DEF WaitReclaim, HardwareType
  <2>2. run' \in RunType /\ Stage'
    <3>1. PICK place \in {"resume", "poll"} : run' = [run EXCEPT !.at = place, !.ret = "check"]
      BY <1>1 DEF WaitReclaim
    <3>2. run' \in RunType /\ run'.at = place /\ run'.ret = "check" /\ run'.call = run.call
          /\ run'.todo = run.todo /\ run'.sleeps = run.sleeps
      BY <3>1, <1>0, TypesNow DEF OtherType, RunType
    <3> QED
      BY <3>2, <1>1, TypesNow DEF WaitReclaim, At, Stage, Writing, Polling
  <2>3. OtherType'
    BY <1>1, <2>2, TypesNow DEF WaitReclaim, OtherType
  <2> QED
    BY <2>1, <2>2, <2>3, TypesNext DEF TypeInv
<1>2. ASSUME Resume \/ Restart, NEW place \in {"check", "top", "restart"}, Goto(place),
             place # "restart" => place = run.ret
      PROVE  run' \in RunType /\ Stage'
  <2>1. run.at \in {"resume", "restart"}
    BY <1>2 DEF Resume, Restart, At
  <2>2. run.call # "poll" /\ accepted' = accepted
    BY <2>1, <1>2, TypesNow DEF Stage, Polling, Resume, Restart
  <2> QED
    BY <1>0, <1>2, <2>1, <2>2, GotoStage DEF Writing, Polling
<1>3. CASE Resume
  <2>1. HardwareType'
    BY <1>3, TypesNow DEF Resume, HardwareType
  <2>2. run.ret \in {"check", "top"}
    BY <1>3, TypesNow DEF Resume, At, Stage
  <2>3. run' \in RunType /\ Stage'
    <3>1. CASE Goto(run.ret)
      BY <3>1, <1>2, <1>3, <2>2
    <3>2. CASE Goto("restart")
      BY <3>2, <1>2, <1>3
    <3> QED
      BY <3>1, <3>2, <1>3 DEF Resume
  <2>4. OtherType'
    BY <1>3, <2>3, TypesNow DEF Resume, OtherType
  <2> QED
    BY <2>1, <2>3, <2>4, TypesNext DEF TypeInv
<1>4. CASE Restart
  <2>1. HardwareType' /\ status' \subseteq {"done", "desc_error"}
    BY <1>4, StartTypes, TypesNow DEF Restart, HardwareType, OtherType
  <2>2. run.ret \in {"check", "top"}
    BY <1>4, TypesNow DEF Restart, At, Stage
  <2>3. run' \in RunType /\ Stage'
    BY <1>2, <1>4, <2>2 DEF Restart
  <2>4. OtherType'
    BY <1>4, <2>1, <2>3, TypesNow DEF Restart, OtherType
  <2> QED
    BY <2>1, <2>3, <2>4, TypesNext DEF TypeInv
<1>5. CASE Check
  <2>1. HardwareType'
    BY <1>5, TypesNow DEF Check, HardwareType
  <2>2. run' \in RunType /\ Stage'
    <3>1. CASE Return
      BY <3>1, <1>5, ReturnStage DEF Check
    <3>2. CASE Goto("sleep") /\ ~(run.call = "write" /\ run.sleeps = 0)
      <4>1. run.sleeps > 0 /\ run.call # "poll"
        BY <3>2, <1>5, TypesNow, I2sAssumption DEF Check, At, Stage, Polling, OtherType, RunType
      <4> QED
        BY <3>2, <4>1, <1>0, <1>5, GotoStage DEF Check, At, Writing, Polling
    <3> QED
      BY <3>1, <3>2, <1>5 DEF Check
  <2>3. OtherType'
    BY <1>5, <2>2, TypesNow DEF Check, OtherType
  <2> QED
    BY <2>1, <2>2, <2>3, TypesNext DEF TypeInv
<1> QED
  BY <1>1, <1>3, <1>4, <1>5

(* i2s_stream_poll, by itself or in a wait.                                *)
LEMMA PollTypes ==
  ASSUME TypeInv, PollStatus \/ PollQueued \/ PollOwner \/ PollResume \/ Polled
  PROVE  TypeInv'
<1>0. Polling \cup {"resume"} \subseteq Place /\ run.at \in Polling
  BY DEF Place, Polling, PollStatus, PollQueued, PollOwner, PollResume, Polled, At
<1>1. ASSUME NEW place \in Polling, Goto(place), accepted' = accepted
      PROVE  run' \in RunType /\ Stage'
  BY <1>0, <1>1, GotoStage DEF Polling, Writing
<1>2. run' \in RunType /\ Stage'
  <2>1. CASE Polled
    <3>1. CASE Return
      BY <2>1, <3>1, ReturnStage DEF Polled
    <3>2. CASE Goto("resume") /\ run.call # "poll"
      BY <1>0, <2>1, <3>2, GotoStage DEF Polled, At, Writing, Polling
    <3> QED
      BY <2>1, <3>1, <3>2 DEF Polled
  <2>2. CASE ~Polled
    BY <1>1, <2>2 DEF PollStatus, PollQueued, PollOwner, PollResume, Polling
  <2> QED
    BY <2>1, <2>2
<1>3. HardwareType' /\ status' \subseteq {"done", "desc_error"}
  <2>1. CASE PollStatus
    BY <2>1, Values, TypesNow DEF PollStatus, HardwareType, DevType, OtherType
  <2>2. CASE PollOwner
    <3>1. Succ(dev.tail) \in Slot /\ (dev.queued + CountMod - 1) % CountMod \in 0 .. CountMod - 1
      <4>1. dev.tail + 1 \in Int /\ dev.queued + CountMod - 1 \in Int
        BY CountIs, TypesNow DEF HardwareType, DevType, Slot
      <4> QED
        BY <4>1, CountIs, SlotMod, DivMod DEF Succ
    <3>2. HardwareType'
      <4>1. desc' = desc \/ desc' = [desc EXCEPT ![dev.tail] = Free]
        BY <2>2 DEF PollOwner
      <4>2. dev' = dev \/ dev' = [dev EXCEPT !.tail = Succ(dev.tail),
                                             !.queued = (dev.queued + CountMod - 1) % CountMod]
        BY <2>2 DEF PollOwner
      <4>3. desc' \in [Slot -> DescType]
        BY <4>1, Values, TypesNow DEF HardwareType
      <4>4. dev' \in DevType
        BY <4>2, <3>1, TypesNow DEF HardwareType, DevType
      <4> QED
        BY <2>2, <4>3, <4>4, TypesNow DEF PollOwner, HardwareType
    <3> QED
      BY <2>2, <3>2, TypesNow DEF PollOwner, OtherType
  <2>3. CASE PollResume
    <3>1. CASE StartDma
      BY <2>3, <3>1, StartTypes, TypesNow DEF PollResume, HardwareType, OtherType
    <3>2. CASE ~(dev.started /\ DmaIdle /\ dev.queued > 0)
      <4>1. dev' \in DevType
        <5>1. \E b \in BOOLEAN : dev' = [dev EXCEPT !.started = b]
          BY <2>3, <3>2, TypesNow DEF PollResume, DmaIdle, HardwareType, DevType
        <5> QED
          BY <5>1, TypesNow DEF HardwareType, DevType
      <4> QED
        BY <2>3, <3>2, <4>1, Values, TypesNow DEF PollResume, HardwareType, OtherType
    <3> QED
      BY <2>3, <3>1, <3>2 DEF PollResume
  <2>4. CASE PollQueued \/ Polled
    BY <2>4, TypesNow DEF PollQueued, Polled, HardwareType, OtherType
  <2> QED
    BY <2>1, <2>2, <2>3, <2>4
<1>4. OtherType'
  BY <1>2, <1>3, TypesNow DEF PollStatus, PollQueued, PollOwner, PollResume, Polled, OtherType
<1> QED
  BY <1>2, <1>3, <1>4, TypesNext DEF TypeInv

LEMMA NextTypes == TypeInv /\ [Next]_vars => TypeInv'
<1> SUFFICES ASSUME TypeInv, [Next]_vars PROVE TypeInv'
  OBVIOUS
<1>1. CASE DmaLoad \/ DmaDone
  BY <1>1, ChannelTypes
<1>2. CASE Isr \/ OtherWake
  BY <1>2, InterruptTypes
<1>3. CASE Begin \/ Stop \/ (\E n \in 1 .. MaxLen : Enter("write", n))
                        \/ (\E call \in {"drain", "poll"} : Enter(call, 0))
  BY <1>3, CallTypes
<1>4. CASE Program
  BY <1>4, TopTypes, WriteTypes, WaitTypes, PollTypes DEF Program
<1>5. CASE UNCHANGED vars
  BY <1>5 DEF vars, TypeInv, TypeOK, Stage
<1> QED
  BY <1>1, <1>2, <1>3, <1>4, <1>5 DEF Next

LEMMA TypesAlways == Spec => []TypeInv
BY InitTypes, NextTypes, PTL DEF Spec

(* The handle, the descriptors and the channel keep their types, whatever  *)
(* the application calls.                                                  *)
THEOREM I2sTypeOK == Spec => []TypeOK
<1>1. TypeInv => TypeOK
  BY DEF TypeInv
<1> QED
  BY <1>1, TypesAlways, PTL

-----------------------------------------------------------------------------
(* The stream.  What follows is about streams that own their interrupt.    *)

LEMMA Known ==
  ASSUME TypeInv
  PROVE  /\ accepted \in Nat /\ moved \in Nat /\ dev.queued \in 0 .. CountMod - 1 /\ dev.queued \in Nat
         /\ Base \in Int /\ Reach \in Int /\ Reach \in {accepted, accepted + 1}
         /\ desc \in [Slot -> DescType] /\ dev \in DevType /\ dma \in DmaType
         /\ buf \in [Slot -> 0 .. MaxChunks] /\ locked \in BOOLEAN /\ run \in RunType
         /\ dev.head \in Slot /\ dev.tail \in Slot
<1>1. accepted \in Nat /\ moved \in Nat
  BY TypesNow, I2sAssumption DEF OtherType
<1>2. dev.queued \in 0 .. CountMod - 1 /\ dev.queued \in Nat
  BY TypesNow, CountIs DEF HardwareType, DevType
<1>3. Base \in Int /\ Reach \in Int /\ Reach \in {accepted, accepted + 1}
  BY <1>1, <1>2 DEF Base, Reach
<1> QED
  BY <1>1, <1>2, <1>3, TypesNow DEF HardwareType, OtherType, DevType

(* Outside the lock the last descriptor of the chain ends it.              *)
LEMMA Unlinked ==
  ASSUME TypeInv, Links, ~locked
  PROVE  ~Linked /\ Reach = accepted
BY DEF Links, Linked, Reach

(* Nothing of the queue changes, and the program does not begin to append. *)
LEMMA RingKept ==
  ASSUME TypeInv, Ring, ~locked, UNCHANGED <<desc, buf, accepted, moved, locked>>,
         dev'.queued = dev.queued, dev'.head = dev.head, dev'.tail = dev.tail, dev'.mode, ~dev'.error,
         "desc_error" \notin status', run'.at \notin Polling \cup {"link", "queue"},
         run'.at = "fill" => buf[dev.head] = accepted + 1 /\ dev.queued < Count
  PROVE  Ring' /\ Base' = Base /\ Reach' = Reach
<1>1. Base' = Base /\ Linked' = Linked /\ Reach' = Reach
  BY DEF Base, Linked, Reach
<1>2. Handle'
  BY <1>1 DEF Ring, Handle
<1>3. Chunks'
  BY <1>1 DEF Ring, Chunks
<1>4. Links'
  BY <1>1 DEF Ring, Links
<1>5. Rest'
  BY <1>1 DEF Ring, Rest
<1>6. Appending'
  BY DEF Ring, Appending
<1> QED
  BY <1>1, <1>2, <1>3, <1>4, <1>5, <1>6 DEF Ring

-----------------------------------------------------------------------------
(* i2s_stream_reclaim_completed.                                           *)

(* What it finds finished is what the channel has moved.                   *)
LEMMA CompletedSize ==
  ASSUME TypeInv, Ring, ~locked
  PROVE  /\ Cardinality(Completed) = moved - Base
         /\ moved - Base \in 0 .. dev.queued
<1> DEFINE m == moved - Base
<1>1. m \in 0 .. dev.queued /\ m \in Nat
  <2>1. Base <= moved /\ moved <= accepted
    BY Unlinked DEF Ring, Handle
  <2> QED
    BY <2>1, Known DEF Base
<1>2. \A k \in 0 .. dev.queued - 1 : (dev.tail + k) % Count = SlotOf(Base + 1 + k)
  <2> SUFFICES ASSUME NEW k \in 0 .. dev.queued - 1
               PROVE  (dev.tail + k) % Count = SlotOf(Base + 1 + k)
    OBVIOUS
  <2>1. Base + 1 \in Int /\ k \in Int /\ dev.tail = SlotOf(Base + 1)
    BY Known DEF Ring, Handle
  <2> QED
    BY <2>1, SlotPlus
<1>3. \A k \in 0 .. dev.queued - 1 : desc[(dev.tail + k) % Count].owner = "CPU" <=> k < m
  <2> SUFFICES ASSUME NEW k \in 0 .. dev.queued - 1
               PROVE  desc[(dev.tail + k) % Count].owner = "CPU" <=> k < m
    OBVIOUS
  <2> DEFINE c == Base + 1 + k
  <2>1. c \in Base + 1 .. accepted /\ (c <= moved <=> k < m)
    BY Known DEF Base
  <2> HIDE DEF c
  <2>2. desc[SlotOf(c)].owner = "CPU" <=> c <= moved
    BY <2>1 DEF Ring, Chunks
  <2> QED
    BY <1>2, <2>1, <2>2 DEF c
<1> HIDE DEF m
<1>4. Completed = 1 .. m
  <2>1. ASSUME NEW n \in 1 .. dev.queued
        PROVE  (\A k \in 0 .. n - 1 : desc[(dev.tail + k) % Count].owner = "CPU") <=> n <= m
    <3>1. 0 .. n - 1 \subseteq 0 .. dev.queued - 1 /\ n - 1 \in 0 .. n - 1 /\ n \in Nat
      BY <2>1, Known
    <3>2. (\A k \in 0 .. n - 1 : desc[(dev.tail + k) % Count].owner = "CPU") <=> \A k \in 0 .. n - 1 : k < m
      BY <3>1, <1>3
    <3>3. (\A k \in 0 .. n - 1 : k < m) <=> n - 1 < m
      BY <3>1, <1>1
    <3> QED
      BY <3>1, <3>2, <3>3, <1>1
  <2>2. \A n : n \in Completed <=> n \in 1 .. dev.queued /\ n <= m
    BY <2>1 DEF Completed
  <2>3. \A n : n \in 1 .. m <=> n \in 1 .. dev.queued /\ n <= m
    BY <1>1, Known
  <2> QED
    BY <2>2, <2>3
<1>5. Cardinality(1 .. m) = m
  BY <1>1, FS_Interval
<1> QED
  BY <1>1, <1>4, <1>5 DEF m

(* The handle after it.                                                    *)
LEMMA ReclaimHandle ==
  ASSUME TypeInv, Ring, ~locked, Reclaim, UNCHANGED accepted
  PROVE  /\ dev'.queued = accepted - moved /\ dev'.tail = SlotOf(moved + 1) /\ Base' = moved
         /\ dev'.head = dev.head /\ dev'.mode = dev.mode /\ dev'.error = dev.error
<1> DEFINE m == moved - Base
<1>1. Cardinality(Completed) = m /\ m \in 0 .. dev.queued /\ m \in Int
  BY CompletedSize
<1>2. dev'.tail = (dev.tail + m) % Count /\ dev'.queued = (dev.queued + CountMod - m) % CountMod
      /\ dev'.head = dev.head /\ dev'.mode = dev.mode /\ dev'.error = dev.error
  <2>1. \E b : dev' = [dev EXCEPT !.tail = (dev.tail + m) % Count,
                                  !.queued = (dev.queued + CountMod - m) % CountMod, !.started = b]
    BY <1>1 DEF Reclaim
  <2> QED
    BY <2>1, Known DEF DevType
<1>3. (dev.tail + m) % Count = SlotOf(moved + 1)
  <2>1. Base + 1 \in Int /\ dev.tail = SlotOf(Base + 1) /\ Base + 1 + m = moved + 1
    BY Known DEF Ring, Handle
  <2> HIDE DEF m
  <2>2. (SlotOf(Base + 1) + m) % Count = SlotOf(Base + 1 + m)
    BY <2>1, <1>1, SlotPlus
  <2> QED
    BY <2>1, <2>2
<1>4. (dev.queued + CountMod - m) % CountMod = accepted - moved
  <2> DEFINE r == dev.queued - m
  <2>1. r \in 0 .. CountMod - 1 /\ dev.queued + CountMod - m = CountMod * 1 + r /\ r = accepted - moved
    BY <1>1, Known, CountIs DEF Base
  <2> HIDE DEF r
  <2>2. (CountMod * 1 + r) % CountMod = r
    BY <2>1, CountIs, ModOf, 1 \in Int
  <2> QED
    BY <2>1, <2>2, Zenon
<1>5. Base' = moved
  <2>1. dev'.queued = accepted - moved /\ accepted' = accepted
    BY <1>2, <1>4
  <2> QED
    BY <2>1, Known DEF Base
<1> QED
  BY <1>2, <1>3, <1>4, <1>5

LEMMA FreeIs ==
  ASSUME NEW d \in DescType, d.owner = "CPU"
  PROVE  [d EXCEPT !.eof = TRUE, !.next = NULL] = Free
<1> DEFINE e == [d EXCEPT !.eof = TRUE, !.next = NULL]
<1>1. e \in DescType /\ e.owner = "CPU" /\ e.next = NULL /\ e.eof
  BY DEF DescType
<1>2. Free \in DescType /\ Free.owner = "CPU" /\ Free.next = NULL /\ Free.eof
  BY Values DEF Free
<1> HIDE DEF e
<1>3. e = Free
  BY <1>1, <1>2 DEF DescType
<1> QED
  BY <1>3 DEF e

(* The descriptors after it: those of the chunks moved are free.           *)
LEMMA ReclaimDescriptors ==
  ASSUME TypeInv, Ring, ~locked, Reclaim
  PROVE  \A c \in Base + 1 .. Base + Count :
            desc'[SlotOf(c)] = IF c <= moved THEN Free ELSE desc[SlotOf(c)]
<1> DEFINE m == moved - Base
<1>1. Cardinality(Completed) = m /\ m \in 0 .. dev.queued /\ dev.queued <= Count
  BY CompletedSize DEF Ring, Handle
<1> SUFFICES ASSUME NEW c \in Base + 1 .. Base + Count
             PROVE  desc'[SlotOf(c)] = IF c <= moved THEN Free ELSE desc[SlotOf(c)]
  OBVIOUS
<1> DEFINE i == SlotOf(c)
           taken == \E k \in 0 .. m - 1 : i = (dev.tail + k) % Count
<1>2. c \in Int /\ i \in Slot
  BY SlotIn, Known
<1>3. desc'[i] = IF taken THEN [desc[i] EXCEPT !.eof = TRUE, !.next = NULL] ELSE desc[i]
  BY <1>1, <1>2 DEF Reclaim
<1>4. \A k \in 0 .. m - 1 : (dev.tail + k) % Count = SlotOf(Base + 1 + k)
  <2> SUFFICES ASSUME NEW k \in 0 .. m - 1
               PROVE  (dev.tail + k) % Count = SlotOf(Base + 1 + k)
    OBVIOUS
  <2>1. Base + 1 \in Int /\ k \in Int /\ dev.tail = SlotOf(Base + 1)
    BY Known DEF Ring, Handle
  <2> QED
    BY <2>1, SlotPlus
<1>5. CASE c <= moved
  <2> DEFINE k == c - (Base + 1)
  <2>1. k \in 0 .. m - 1 /\ Base + 1 + k = c
    BY <1>5, Known
  <2>2. taken
    BY <1>4, <2>1
  <2>3. desc[i].owner = "CPU"
    <3>1. c \in Base + 1 .. accepted
      BY <1>1, <1>5, Known DEF Base
    <3> QED
      BY <1>5, <3>1 DEF Ring, Chunks
  <2>4. desc[i] \in DescType
    BY <1>2, Known
  <2>5. [desc[i] EXCEPT !.eof = TRUE, !.next = NULL] = Free
    BY <2>3, <2>4, FreeIs
  <2> QED
    BY <1>3, <1>5, <2>2, <2>5
<1>6. CASE ~(c <= moved)
  <2>1. ASSUME NEW k \in 0 .. m - 1 PROVE SlotOf(Base + 1 + k) # i
    <3>1. Base + 1 + k \in Int /\ Base + 1 + k < c /\ c - (Base + 1 + k) < Count
      BY <1>2, <1>6, Known, CountIs
    <3> QED
      BY <1>2, <3>1, SlotApart
  <2>2. ~taken
    BY <1>4, <2>1
  <2> QED
    BY <1>3, <1>6, <2>2
<1> QED
  BY <1>5, <1>6

(* The queue after it.                                                     *)
LEMMA ReclaimRing ==
  ASSUME TypeInv, Ring, ~locked, Reclaim, UNCHANGED <<buf, accepted, moved, locked>>,
         "desc_error" \notin status', run'.at \notin Polling \cup {"link", "queue"},
         run'.at = "fill" => run.at = "fill"
  PROVE  Ring' /\ Base' = moved /\ Reach' = accepted
<1>1. /\ dev'.queued = accepted - moved /\ dev'.tail = SlotOf(moved + 1) /\ Base' = moved
      /\ dev'.head = dev.head /\ dev'.mode = dev.mode /\ dev'.error = dev.error
  BY ReclaimHandle
<1>2. \A c \in Base + 1 .. Base + Count :
         desc'[SlotOf(c)] = IF c <= moved THEN Free ELSE desc[SlotOf(c)]
  BY ReclaimDescriptors
<1>3. /\ Base <= moved /\ moved <= accepted /\ Base + dev.queued = accepted /\ dev.queued <= Count
      /\ Base \in Int /\ accepted \in Nat /\ moved \in Nat /\ dev.queued \in Nat
      /\ dev.head = SlotOf(accepted + 1)
  BY Unlinked, Known DEF Ring, Handle, Base
<1>4. \A c \in moved + 1 .. accepted : c \in Base + 1 .. accepted /\ desc'[SlotOf(c)] = desc[SlotOf(c)]
  BY <1>2, <1>3, CountIs
<1>5. dev'.queued > 0 => accepted \in moved + 1 .. accepted /\ dev.queued > 0
  BY <1>1, <1>3
<1>6. ~Linked' /\ Reach' = accepted
  <2>1. dev'.queued > 0 => desc'[SlotOf(accepted)].next = NULL
    BY <1>4, <1>5 DEF Ring, Links
  <2>2. ~Linked'
    BY <2>1 DEF Linked
  <2> QED
    BY <2>2 DEF Reach
<1>7. Handle'
  <2>1. dev'.mode /\ ~dev'.error
    BY <1>1, Zenon DEF Ring, Handle
  <2>2. dev'.queued <= Count /\ dev'.queued <= accepted
    BY <1>1, <1>3, CountIs
  <2>3. dev'.head = SlotOf(accepted' + 1) /\ dev'.tail = SlotOf(Base' + 1)
    BY <1>1, <1>3, Zenon
  <2>4. Base' <= moved' /\ moved' <= Reach'
    BY <1>1, <1>3, <1>6
  <2> QED
    BY <2>1, <2>2, <2>3, <2>4 DEF Handle
<1>8. Chunks'
  <2> SUFFICES ASSUME NEW c \in moved + 1 .. accepted
               PROVE  buf[SlotOf(c)] = c /\ (desc'[SlotOf(c)].owner = "CPU" <=> c <= moved)
    BY <1>1 DEF Chunks
  <2> QED
    BY <1>4 DEF Ring, Chunks
<1>9. Links'
  <2>1. ASSUME NEW c \in moved + 1 .. accepted - 1
        PROVE  desc'[SlotOf(c)].next = SlotOf(c + 1) /\ ~desc'[SlotOf(c)].eof
    <3>1. c \in moved + 1 .. accepted /\ c \in Base + 1 .. accepted - 1
      BY <1>3
    <3> QED
      BY <3>1, <1>4 DEF Ring, Links
  <2>2. dev'.queued > 0 => desc'[SlotOf(accepted)].next = NULL /\ desc'[SlotOf(accepted)].eof
    BY <1>4, <1>5 DEF Ring, Links
  <2> QED
    BY <1>1, <2>1, <2>2 DEF Links
<1>10. Rest'
  <2> SUFFICES ASSUME NEW c \in accepted + 1 .. moved + Count
               PROVE  desc'[SlotOf(c)] = Free
    BY <1>1 DEF Rest
  <2>1. CASE c <= Base + Count
    <3>1. c \in accepted + 1 .. Base + Count /\ c \in Base + 1 .. Base + Count /\ ~(c <= moved)
      BY <1>3, <2>1, CountIs
    <3> QED
      BY <1>2, <3>1 DEF Ring, Rest
  <2>2. CASE c > Base + Count
    <3> DEFINE d == c - Count
    <3>1. d \in Base + 1 .. Base + Count /\ d <= moved /\ d + Count = c /\ d \in Int
      BY <1>3, <2>2, CountIs
    <3> HIDE DEF d
    <3>2. desc'[SlotOf(d)] = Free
      BY <1>2, <3>1
    <3> QED
      BY <3>1, <3>2, SlotRound
  <2> QED
    BY <2>1, <2>2, <1>3, CountIs
<1>11. Appending'
  BY <1>1, <1>3, CountIs DEF Ring, Appending
<1> QED
  BY <1>1, <1>6, <1>7, <1>8, <1>9, <1>10, <1>11 DEF Ring

LEMMA OffIs == Off.cur = NULL /\ Off.next = NULL
BY DEF Off

(* The channel after it, its status being read or not.                     *)
LEMMA ReclaimChannel ==
  ASSUME TypeInv, Ring, Channel, ~locked, Reclaim, UNCHANGED <<moved, accepted>>, Base' = moved, Reach' = accepted
  PROVE  Channel'
<1>1. Reach = accepted
  BY Unlinked DEF Ring
<1> DEFINE ends == dev.started /\ dev.queued - Cardinality(Completed) = 0 /\ DmaIdle
<1>2. dma' = (IF ends THEN Off ELSE dma) /\ (dev'.started <=> dev.started /\ ~ends)
  BY Known DEF Reclaim, DevType
<1>3. CASE ends
  BY <1>2, <1>3, OffIs DEF Channel, DmaIdle
<1>4. CASE ~ends
  <2> HIDE DEF ends
  <2>1. dma' = dma /\ (dev'.started <=> dev.started)
    BY <1>2, <1>4
  <2> QED
    BY <1>1, <2>1 DEF Channel, DmaIdle
<1> QED
  BY <1>3, <1>4

(* i2s_stream_start_dma_internal starts at the first chunk not moved.      *)
LEMMA StartStream ==
  ASSUME TypeInv, Ring, Channel, ~locked, moved = Base, StartDma, UNCHANGED <<desc, buf, accepted, moved, locked>>,
         "desc_error" \notin status, run'.at \notin Polling \cup {"link", "queue", "fill"}
  PROVE  Ring' /\ Channel'
<1>1. /\ dev'.queued = dev.queued /\ dev'.head = dev.head /\ dev'.tail = dev.tail
      /\ dev'.mode = dev.mode /\ (dev'.error => dev.error) /\ "desc_error" \notin status'
  BY Known DEF StartDma, DevType
<1>2. Ring' /\ Base' = Base /\ Reach' = Reach
  BY <1>1, RingKept DEF Ring, Handle
<1>3. Channel'
  <2>1. CASE dev.queued = 0
    BY <1>2, <2>1 DEF StartDma, Channel, DmaIdle
  <2>2. CASE dev.queued # 0
    <3>1. dma' = [Off EXCEPT !.next = dev.tail] /\ dev'.started
      BY <2>2, Known DEF StartDma, DevType
    <3>2. dma'.cur = NULL /\ dma'.next = SlotOf(moved + 1)
      BY <3>1 DEF Off, Ring, Handle
    <3>3. moved + 1 <= Reach
      BY <2>2, Known DEF Base
    <3> QED
      BY <1>2, <3>1, <3>2, <3>3 DEF Channel
  <2> QED
    BY <2>1, <2>2
<1> QED
  BY <1>2, <1>3

(* When no interrupt is pending everything moved has been reclaimed.       *)
LEMMA Settled ==
  ASSUME irqOwner, Ring, Channel, ~locked, ~IrqPending
  PROVE  moved = Base
BY DEF IrqPending, Channel

-----------------------------------------------------------------------------
(* The steps.                                                              *)

(* The lock is held where a chunk is being appended.                       *)
LEMMA LockStep ==
  ASSUME TypeInv, LockTrue, [Next]_vars
  PROVE  LockTrue'
<1>0. run \in RunType /\ Waiting.at = "idle"
  BY Known DEF Waiting
<1>1. CASE Isr \/ OtherWake
  <2>1. run'.at = run.at \/ (run.at = "sleep" /\ run'.at = "top")
    BY <1>0, <1>1 DEF Isr, OtherWake, Woken, RunType
  <2> QED
    BY <1>1, <2>1 DEF Isr, OtherWake, LockTrue
<1>2. CASE Begin \/ Stop \/ DmaLoad \/ DmaDone
  BY <1>2 DEF Begin, Stop, Reset, DmaLoad, DmaDone, LockTrue
<1>3. ASSUME NEW call, NEW n, Enter(call, n) PROVE LockTrue'
  BY <1>3 DEF Enter, At, Waiting, LockTrue
<1>4. CASE Top \/ Test \/ WaitReclaim \/ Resume \/ Restart \/ Check \/ TryStart
  <2>1. run.at \notin {"link", "queue"} /\ run'.at \notin {"link", "queue"}
    <3>1. CASE Resume \/ Restart
      <4>1. run.ret \in {"check", "top"} /\ run.at \notin {"link", "queue"}
        BY <3>1, TypesNow DEF Resume, Restart, At, Stage
      <4> QED
        BY <1>0, <3>1, <4>1 DEF Resume, Restart, Goto, RunType
    <3>2. CASE Top \/ Test \/ WaitReclaim \/ Check \/ TryStart
      BY <1>0, <3>2 DEF Top, Test, WaitReclaim, Check, TryStart, At, Goto, Return, RunType
    <3> QED
      BY <1>4, <3>1, <3>2
  <2> QED
    BY <1>4, <2>1 DEF Top, Test, WaitReclaim, Resume, Restart, Check, TryStart, LockTrue
<1>5. CASE Fill \/ Link \/ Queue
  BY <1>0, <1>5 DEF Fill, Link, Queue, At, Goto, Return, RunType, LockTrue
<1>6. CASE PollStatus \/ PollQueued \/ PollOwner \/ PollResume \/ Polled
  BY <1>0, <1>6 DEF PollStatus, PollQueued, PollOwner, PollResume, Polled, At, Goto, Return, RunType, LockTrue
<1>7. CASE UNCHANGED vars
  BY <1>7 DEF vars, LockTrue
<1> QED
  BY <1>1, <1>2, <1>3, <1>4, <1>5, <1>6, <1>7 DEF Next, Program

LEMMA RingSame ==
  ASSUME TypeInv, Ring, UNCHANGED <<desc, buf, dev, status, run, accepted, moved, locked>>
  PROVE  Ring' /\ Base' = Base /\ Reach' = Reach
<1>1. Base' = Base /\ Linked' = Linked /\ Reach' = Reach
  BY DEF Base, Linked, Reach
<1> QED
  BY <1>1 DEF Ring, Handle, Chunks, Links, Rest, Appending

(* The chunk the channel comes to next is the channel's.                   *)
LEMMA NextChunk ==
  ASSUME TypeInv, LockTrue, Ring, moved + 1 <= Reach
  PROVE  /\ desc[SlotOf(moved + 1)].owner # "CPU" /\ buf[SlotOf(moved + 1)] = moved + 1
         /\ \/ desc[SlotOf(moved + 1)].next = NULL /\ desc[SlotOf(moved + 1)].eof
            \/ desc[SlotOf(moved + 1)].next = SlotOf(moved + 2) /\ moved + 2 <= Reach
         /\ moved + 1 = accepted + 1 => locked
<1> DEFINE c == moved + 1
           d == desc[SlotOf(c)]
<1>1. Base + 1 <= c /\ c \in Int /\ dev.head = SlotOf(accepted + 1) /\ dev.head # NULL
  BY Known, SlotIn, CountIs DEF Ring, Handle
<1>2. CASE c < accepted
  <2>1. c \in Base + 1 .. accepted /\ c \in Base + 1 .. accepted - 1 /\ c + 1 = moved + 2 /\ ~(c <= moved)
    BY <1>1, <1>2, Known
  <2>2. moved + 2 <= Reach
    BY <1>2, Known
  <2> HIDE DEF c
  <2>3. d.owner # "CPU" /\ buf[SlotOf(c)] = c /\ d.next = SlotOf(c + 1)
    BY <2>1 DEF Ring, Chunks, Links
  <2> QED
    BY <1>2, <2>1, <2>2, <2>3, Known DEF c
<1>3. CASE c = accepted
  <2>1. c \in Base + 1 .. accepted /\ dev.queued > 0 /\ ~(c <= moved) /\ accepted + 1 = moved + 2
    BY <1>1, <1>3, Known DEF Base
  <2> HIDE DEF c
  <2>2. d.owner # "CPU" /\ buf[SlotOf(c)] = c
    BY <2>1 DEF Ring, Chunks
  <2>3. (d.next = NULL /\ d.eof) \/ d.next = dev.head
    BY <1>3, <2>1 DEF Ring, Links, LockTrue
  <2>4. d.next = dev.head => Reach = accepted + 1
    BY <1>1, <1>3, <2>1 DEF Linked, Reach
  <2> QED
    BY <1>1, <1>3, <2>1, <2>2, <2>3, <2>4, Known DEF c
<1>4. CASE c = accepted + 1
  <2>1. Linked
    BY <1>4, Known DEF Reach
  <2>2. locked
    BY <2>1, Unlinked DEF Ring
  <2>3. desc[dev.head] = [Free EXCEPT !.owner = "DMA"]
    BY <1>4, <2>2, Known DEF Ring, Appending
  <2>4. buf[dev.head] = accepted + 1
    BY <2>2 DEF Ring, Appending, LockTrue
  <2>5. d.owner = "DMA" /\ d.next = NULL /\ d.eof
    BY <1>1, <1>4, <2>3 DEF Free
  <2> QED
    BY <1>1, <1>4, <2>2, <2>4, <2>5
<1> QED
  BY <1>1, <1>2, <1>3, <1>4, Known

(* The channel loads a descriptor, and never one of the program's.         *)
LEMMA LoadStep ==
  ASSUME Inv, irqOwner, DmaLoad
  PROVE  Ring' /\ Channel' /\ Drained'
<1>1. TypeInv /\ LockTrue /\ Ring /\ Channel /\ Drained
  BY DEF Inv, Stream
<1>2. dma.next = SlotOf(moved + 1) /\ moved + 1 <= Reach /\ dev.started
  BY <1>1 DEF DmaLoad, Channel, DmaIdle
<1>3. /\ desc[dma.next].owner # "CPU"
      /\ \/ desc[dma.next].next = NULL /\ desc[dma.next].eof
         \/ desc[dma.next].next = SlotOf(moved + 2) /\ moved + 2 <= Reach
  BY <1>1, <1>2, NextChunk
<1>4. /\ dma' = [cur |-> dma.next, next |-> desc[dma.next].next, eof |-> desc[dma.next].eof]
      /\ UNCHANGED <<status, desc, buf, dev, run, locked, accepted, moved, drained>>
  BY <1>3 DEF DmaLoad
<1>5. Ring' /\ Base' = Base /\ Reach' = Reach
  BY <1>1, <1>4, RingSame
<1>6. dma'.cur = SlotOf(moved + 1) /\ dma'.next = desc[dma.next].next /\ (dma'.eof <=> desc[dma.next].eof)
  BY <1>2, <1>4
<1>7. dma'.cur # NULL
  BY <1>6, SlotIn, Known, <1>1
<1>8. Channel'
  BY <1>1, <1>2, <1>3, <1>4, <1>5, <1>6, <1>7 DEF Channel, DmaIdle
<1>9. Drained'
  BY <1>1, <1>4 DEF Drained
<1> QED
  BY <1>5, <1>8, <1>9

(* The channel has moved a chunk: the next one.                            *)
LEMMA DoneFacts ==
  ASSUME Inv, irqOwner, DmaDone
  PROVE  /\ dma.cur = SlotOf(moved + 1) /\ moved' = moved + 1 /\ moved + 1 <= Reach
         /\ desc' = [desc EXCEPT ![dma.cur].owner = "CPU"]
         /\ UNCHANGED <<buf, dev, run, locked, accepted, drained>>
         /\ moved + 1 = accepted + 1 => locked
<1>1. TypeInv /\ LockTrue /\ Ring /\ Channel
  BY DEF Inv, Stream
<1>2. dma.cur = SlotOf(moved + 1) /\ moved + 1 <= Reach
  BY <1>1 DEF DmaDone, Channel
<1>3. buf[dma.cur] = moved + 1 /\ (moved + 1 = accepted + 1 => locked)
  BY <1>1, <1>2, NextChunk
<1> QED
  BY <1>2, <1>3 DEF DmaDone

LEMMA DoneStep ==
  ASSUME Inv, irqOwner, DmaDone
  PROVE  Ring' /\ Channel' /\ Drained'
<1>1. TypeInv /\ LockTrue /\ Ring /\ Channel /\ Drained
  BY DEF Inv, Stream
<1>2. /\ dma.cur = SlotOf(moved + 1) /\ moved' = moved + 1 /\ moved + 1 <= Reach
      /\ desc' = [desc EXCEPT ![dma.cur].owner = "CPU"]
      /\ UNCHANGED <<buf, dev, run, locked, accepted, drained>>
      /\ moved + 1 = accepted + 1 => locked
  BY DoneFacts
<1>3. \A i \in Slot : desc'[i].next = desc[i].next /\ desc'[i].eof = desc[i].eof
  BY <1>1, <1>2, Known DEF DescType
<1>4. \A i \in Slot \ {dma.cur} : desc'[i] = desc[i]
  BY <1>1, <1>2, Known
<1>5. desc'[dma.cur] = [desc[dma.cur] EXCEPT !.owner = "CPU"] /\ desc'[dma.cur].owner = "CPU"
  <2>1. dma.cur \in Slot
    BY <1>1, <1>2, SlotIn, Known
  <2> QED
    BY <1>1, <1>2, <2>1, Known DEF DescType
<1>6. /\ Base \in Int /\ accepted \in Nat /\ moved \in Nat /\ dev.queued \in Nat /\ Base = accepted - dev.queued
      /\ Base <= moved /\ moved + 1 <= accepted + 1 /\ dev.queued <= Count
  BY <1>1, <1>2, Known DEF Base, Ring, Handle
<1>7. moved + 1 = accepted + 1 => dev.queued < Count
  BY <1>1, <1>2 DEF Ring, Appending, LockTrue
<1>8. \A c \in Base + 1 .. Base + Count : c # moved + 1 => SlotOf(c) # dma.cur
  <2> SUFFICES ASSUME NEW c \in Base + 1 .. Base + Count, c # moved + 1
               PROVE  SlotOf(c) # SlotOf(moved + 1)
    BY <1>2
  <2>1. c \in Int /\ moved + 1 \in Int
    BY <1>6
  <2>2. CASE c < moved + 1
    <3>1. (moved + 1) - c < Count
      BY <1>6, <1>7, <2>1, CountIs
    <3> QED
      BY <2>1, <2>2, <3>1, SlotApart
  <2>3. CASE moved + 1 < c
    <3>1. c - (moved + 1) < Count
      BY <1>6, <2>1, CountIs
    <3> QED
      BY <2>1, <2>3, <3>1, SlotApart
  <2> QED
    BY <2>1, <2>2, <2>3
<1>9. Base' = Base /\ Linked' = Linked /\ Reach' = Reach
  <2>1. SlotOf(accepted) \in Slot
    BY <1>6, SlotIn
  <2> QED
    BY <1>2, <1>3, <2>1 DEF Base, Linked, Reach
<1>10. Handle'
  <2>1. "desc_error" \notin status'
    BY <1>1 DEF DmaDone, Ring, Handle
  <2>2. Base' <= moved' /\ moved' <= Reach'
    BY <1>2, <1>6, <1>9
  <2> QED
    BY <1>1, <1>2, <1>9, <2>1, <2>2 DEF Ring, Handle
<1>11. Chunks'
  <2> SUFFICES ASSUME NEW c \in Base + 1 .. accepted
               PROVE  buf[SlotOf(c)] = c /\ (desc'[SlotOf(c)].owner = "CPU" <=> c <= moved + 1)
    BY <1>2, <1>9 DEF Chunks
  <2>1. buf[SlotOf(c)] = c /\ (desc[SlotOf(c)].owner = "CPU" <=> c <= moved)
    BY <1>1 DEF Ring, Chunks
  <2>2. c \in Base + 1 .. Base + Count /\ c \in Int /\ SlotOf(c) \in Slot
    BY <1>6, SlotIn, CountIs
  <2>3. CASE c = moved + 1
    BY <1>2, <1>5, <1>6, <2>1, <2>3
  <2>4. CASE c # moved + 1
    <3>1. desc'[SlotOf(c)] = desc[SlotOf(c)]
      BY <1>4, <1>8, <2>2, <2>4
    <3> QED
      BY <1>6, <2>1, <2>2, <2>4, <3>1
  <2> QED
    BY <2>3, <2>4
<1>12. Links'
  <2>1. ASSUME NEW c \in Base + 1 .. accepted - 1
        PROVE  desc'[SlotOf(c)].next = SlotOf(c + 1) /\ ~desc'[SlotOf(c)].eof
    <3>1. SlotOf(c) \in Slot
      BY <1>6, SlotIn
    <3> QED
      BY <1>1, <1>3, <3>1 DEF Ring, Links
  <2>2. SlotOf(accepted) \in Slot
    BY <1>6, SlotIn
  <2>3. desc'[SlotOf(accepted)].next = desc[SlotOf(accepted)].next
        /\ desc'[SlotOf(accepted)].eof = desc[SlotOf(accepted)].eof
    BY <1>3, <2>2
  <2> QED
    BY <1>1, <1>2, <1>9, <2>1, <2>3 DEF Ring, Links
<1>13. Rest'
  <2> SUFFICES ASSUME NEW c \in accepted + 1 .. Base + Count
               PROVE  desc'[SlotOf(c)] = Free \/ (c = accepted + 1 /\ locked)
    BY <1>2, <1>9 DEF Rest
  <2>1. c \in Base + 1 .. Base + Count /\ c \in Int /\ SlotOf(c) \in Slot
    BY <1>6, SlotIn, CountIs
  <2>2. CASE c = moved + 1
    <3>1. c = accepted + 1
      BY <1>6, <2>1, <2>2
    <3> QED
      BY <1>2, <2>2, <3>1
  <2>3. CASE c # moved + 1
    <3>1. desc'[SlotOf(c)] = desc[SlotOf(c)]
      BY <1>4, <1>8, <2>1, <2>3
    <3> QED
      BY <1>1, <3>1 DEF Ring, Rest
  <2> QED
    BY <2>2, <2>3
<1>14. Appending'
  <2>1. ASSUME locked
        PROVE  desc'[dev.head] = [Free EXCEPT !.owner = IF moved + 1 = accepted + 1 THEN "CPU" ELSE "DMA"]
    <3>1. dev.queued < Count /\ dev.head = SlotOf(accepted + 1)
          /\ desc[dev.head] = [Free EXCEPT !.owner = IF moved = accepted + 1 THEN "CPU" ELSE "DMA"]
      BY <1>1, <2>1 DEF Ring, Appending, Handle, LockTrue
    <3>2. moved # accepted + 1 /\ accepted + 1 \in Base + 1 .. Base + Count /\ dev.head \in Slot
      BY <1>1, <1>6, <3>1, CountIs, Known
    <3>3. desc[dev.head] = [Free EXCEPT !.owner = "DMA"]
      BY <3>1, <3>2
    <3>4. CASE moved + 1 = accepted + 1
      <4>1. desc'[dev.head] = [desc[dev.head] EXCEPT !.owner = "CPU"]
        BY <1>2, <1>5, <3>1, <3>4
      <4>2. [[Free EXCEPT !.owner = "DMA"] EXCEPT !.owner = "CPU"] = [Free EXCEPT !.owner = "CPU"]
        BY DEF Free
      <4> QED
        BY <3>3, <3>4, <4>1, <4>2
    <3>5. CASE moved + 1 # accepted + 1
      <4>1. desc'[dev.head] = desc[dev.head]
        BY <1>4, <1>8, <3>1, <3>2, <3>5
      <4> QED
        BY <3>3, <3>5, <4>1
    <3> QED
      BY <3>4, <3>5
  <2> QED
    BY <1>1, <1>2, <2>1 DEF Ring, Appending
<1>15. Channel'
  <2>1. dma'.cur = NULL /\ dma'.next = dma.next /\ "done" \in status' /\ dev.started
    BY <1>1, Known DEF DmaDone, DmaType, Channel, DmaIdle
  <2>2. dma.next # NULL => dma.next = SlotOf(moved + 2) /\ moved + 2 <= Reach
    BY <1>1 DEF DmaDone, Channel
  <2>3. moved' + 1 = moved + 2
    BY <1>2, <1>6
  <2> QED
    BY <1>2, <1>9, <2>1, <2>2, <2>3 DEF Channel, DmaIdle
<1>16. Drained'
  <2>1. drained = "true" => ~locked /\ moved = accepted
    BY <1>1 DEF Drained, LockTrue
  <2>2. drained # "true"
    BY <1>2, <1>6, <2>1
  <2> QED
    BY <1>1, <1>2, <2>2 DEF Drained
<1> QED
  BY <1>10, <1>11, <1>12, <1>13, <1>14, <1>15, <1>16 DEF Ring

(* The interrupt, and the other one.                                       *)
LEMMA InterruptStep ==
  ASSUME Inv, irqOwner, Isr \/ OtherWake
  PROVE  Ring' /\ Channel' /\ Drained'
<1>1. TypeInv /\ LockTrue /\ Ring /\ Channel /\ Drained
  BY DEF Inv, Stream
<1>2. run' = Woken /\ UNCHANGED <<buf, irqOwner, locked, accepted, moved, drained>>
  BY DEF Isr, OtherWake
<1>3. run'.at = run.at \/ (run.at = "sleep" /\ run'.at = "top")
  BY <1>1, <1>2, Known DEF Woken, RunType
<1>4. ~locked /\ run.at \notin {"link", "queue"}
  BY <1>1 DEF Isr, OtherWake, IrqPending, LockTrue
<1>5. run'.at \notin Polling \cup {"link", "queue"} /\ (run'.at = "fill" => run.at = "fill")
  BY <1>1, <1>3, <1>4 DEF Ring, Handle, Polling
<1>6. Drained'
  BY <1>1, <1>2, <1>3 DEF Drained
<1>7. "desc_error" \notin status' /\ dev.mode /\ ~dev.error
  BY <1>1 DEF Isr, OtherWake, Ring, Handle
<1>8. CASE Isr /\ dev.started
  <2>1. Reclaim
    BY <1>1, <1>7, <1>8 DEF Isr, Ring, Handle
  <2>2. Ring' /\ Base' = moved /\ Reach' = accepted
    BY <1>1, <1>2, <1>4, <1>5, <1>7, <2>1, ReclaimRing
  <2>3. Channel'
    BY <1>1, <1>2, <1>4, <2>1, <2>2, ReclaimChannel
  <2> QED
    BY <1>6, <2>2, <2>3
<1>9. CASE OtherWake \/ ~dev.started
  <2>1. UNCHANGED <<desc, dev, dma>> /\ (status' = status \/ moved = Base)
    BY <1>1, <1>7, <1>9 DEF Isr, OtherWake, Ring, Handle, Channel
  <2>2. Ring' /\ Base' = Base /\ Reach' = Reach
    BY <1>1, <1>2, <1>4, <1>5, <1>7, <2>1, RingKept DEF Ring, Appending
  <2>3. Channel'
    BY <1>1, <1>2, <2>1, <2>2 DEF Channel, DmaIdle
  <2> QED
    BY <1>6, <2>2, <2>3
<1> QED
  BY <1>8, <1>9

-----------------------------------------------------------------------------
(* A stream that begins.                                                   *)
LEMMA FreshStream ==
  ASSUME TypeInv, LockTrue, Reset(TRUE), run.at = "idle"
  PROVE  Ring' /\ Channel' /\ Drained'
<1>1. /\ dev'.queued = 0 /\ dev'.head = 0 /\ dev'.tail = 0 /\ dev'.mode /\ ~dev'.error
      /\ dma' = Off /\ status' = {} /\ run'.at = "idle" /\ ~locked'
      /\ accepted' = 0 /\ moved' = 0 /\ drained' = "none"
      /\ desc' = [i \in Slot |-> Free]
  BY DEF Reset, Fresh, LockTrue
<1>2. Base' = 0 /\ Reach' = 0
  BY <1>1 DEF Base, Linked, Reach
<1>3. SlotOf(1) = 0
  <2>1. 1 - 1 = 0 /\ 0 \in 0 .. Count - 1
    BY CountIs
  <2> QED
    BY <2>1, CountIs, ModSmall DEF SlotOf
<1>4. Handle'
  <2>1. 0 + 1 = 1 /\ 0 <= Count
    BY CountIs
  <2> QED
    BY <1>1, <1>2, <1>3, <2>1 DEF Handle, Polling
<1>5. Chunks' /\ Links' /\ Appending'
  BY <1>1, <1>2 DEF Chunks, Links, Appending
<1>6. Rest'
  <2> SUFFICES ASSUME NEW c \in 1 .. Count PROVE desc'[SlotOf(c)] = Free
    BY <1>1, <1>2, CountIs DEF Rest
  <2>1. SlotOf(c) \in Slot
    BY SlotIn
  <2> QED
    BY <1>1, <2>1
<1>7. Channel' /\ Drained'
  BY <1>1, <1>2, OffIs DEF Channel, DmaIdle, Drained
<1> QED
  BY <1>4, <1>5, <1>6, <1>7 DEF Ring

LEMMA CallStep ==
  ASSUME TypeInv, LockTrue, Begin \/ Stop, irqOwner'
  PROVE  Ring' /\ Channel' /\ Drained'
<1>1. Reset(TRUE) /\ run.at = "idle"
  BY DEF Begin, Stop, At
<1> QED
  BY <1>1, FreshStream

(* What holds when the program goes on, outside the lock.                  *)
LEMMA Going ==
  ASSUME Inv, irqOwner, NEW place, At(place), place \notin {"link", "queue"}
  PROVE  /\ TypeInv /\ LockTrue /\ Ring /\ Channel /\ Drained
         /\ run.at = place /\ ~locked /\ moved = Base /\ Reach = accepted
         /\ dev.mode /\ ~dev.error /\ "desc_error" \notin status /\ place \notin Polling
<1>1. TypeInv /\ LockTrue /\ Ring /\ Channel /\ Drained
  BY DEF Inv, Stream
<1>2. run.at = place /\ ~locked /\ ~IrqPending
  BY <1>1 DEF At, LockTrue
<1>3. moved = Base /\ Reach = accepted
  BY <1>1, <1>2, Settled, Unlinked DEF Ring
<1> QED
  BY <1>1, <1>2, <1>3 DEF Ring, Handle

(* No call is under way with an answer still there.                        *)
LEMMA DrainedKept ==
  ASSUME Drained, run.at # "idle", drained' = drained
  PROVE  Drained'
BY DEF Drained

(* The program looks, and changes nothing the stream is made of.           *)
LEMMA Quiet ==
  ASSUME TypeInv, Ring, Channel, ~locked,
         UNCHANGED <<desc, buf, dev, dma, status, accepted, moved, locked>>,
         run'.at \notin Polling \cup {"link", "queue", "fill"}
  PROVE  Ring' /\ Channel'
<1>1. Ring' /\ Base' = Base /\ Reach' = Reach
  BY RingKept DEF Ring, Handle
<1> QED
  BY <1>1 DEF Channel, DmaIdle

LEMMA EnterStep ==
  ASSUME Inv, irqOwner, "poll" \notin Calls, NEW call, NEW n, Enter(call, n)
  PROVE  Ring' /\ Channel' /\ Drained'
<1>1. At("idle") /\ call # "poll"
  BY DEF Enter
<1>2. TypeInv /\ Ring /\ Channel /\ ~locked
  BY <1>1, Going
<1>3. run'.at = "top" /\ drained' = "none"
  BY <1>1 DEF Enter, Waiting
<1>4. Ring' /\ Channel'
  BY <1>2, <1>3, Quiet DEF Enter, Polling
<1> QED
  BY <1>3, <1>4 DEF Drained

LEMMA LookStep ==
  ASSUME Inv, irqOwner, Resume \/ Check
  PROVE  Ring' /\ Channel' /\ Drained'
<1>1. CASE Resume
  <2>1. TypeInv /\ Ring /\ Channel /\ Drained /\ run.at = "resume" /\ ~locked
    BY <1>1, Going DEF Resume
  <2>2. run.ret \in {"check", "top"}
    BY <2>1, TypesNow DEF Stage
  <2>3. run'.at \in {"check", "top", "restart"}
    BY <1>1, <2>1, <2>2, Known DEF Resume, Goto, RunType
  <2> QED
    BY <1>1, <2>1, <2>3, Quiet, DrainedKept DEF Resume, Polling
<1>2. CASE Check
  <2>1. TypeInv /\ Ring /\ Channel /\ Drained /\ run.at = "check" /\ ~locked /\ moved = Base /\ ~dev.error
    BY <1>2, Going DEF Check
  <2>2. run'.at \in {"idle", "sleep"}
    BY <1>2, <2>1, Known DEF Check, Return, Goto, Waiting, RunType
  <2>3. Ring' /\ Channel'
    BY <1>2, <2>1, <2>2, Quiet DEF Check, Polling
  <2>4. Drained'
    <3>1. CASE drained' = drained
      BY <2>1, <3>1, DrainedKept
    <3>2. CASE drained' # drained
      <4>1. drained' = "true" /\ dev.queued = 0 /\ run' = Waiting
        BY <1>2, <2>1, <3>2 DEF Check, Return
      <4>2. moved = accepted
        BY <2>1, <4>1, Known DEF Base
      <4> QED
        BY <1>2, <4>1, <4>2 DEF Check, Drained, Waiting
    <3> QED
      BY <3>1, <3>2
  <2> QED
    BY <2>3, <2>4
<1> QED
  BY <1>1, <1>2

LEMMA StartStep ==
  ASSUME Inv, irqOwner, Restart \/ TryStart
  PROVE  Ring' /\ Channel' /\ Drained'
<1>1. /\ TypeInv /\ Ring /\ Channel /\ Drained /\ run.at \in {"restart", "start"} /\ ~locked /\ moved = Base
      /\ "desc_error" \notin status
  BY Going DEF Restart, TryStart
<1>2. run'.at \in {"check", "top", "resume"}
  <2>1. run.at = "restart" => run.ret \in {"check", "top"}
    BY <1>1, TypesNow DEF Stage
  <2> QED
    BY <1>1, <2>1, Known DEF Restart, TryStart, At, Goto, RunType
<1>3. UNCHANGED <<desc, buf, accepted, moved, locked, drained>>
  BY DEF Restart, TryStart
<1>4. Drained'
  BY <1>1, <1>3, DrainedKept
<1>5. CASE StartDma
  BY <1>1, <1>2, <1>3, <1>4, <1>5, StartStream DEF Polling
<1>6. CASE UNCHANGED <<dev, dma, status>>
  BY <1>1, <1>2, <1>3, <1>4, <1>6, Quiet DEF Polling
<1> QED
  BY <1>5, <1>6 DEF Restart, TryStart

LEMMA ReclaimStep ==
  ASSUME TypeInv, Ring, Channel, Drained, ~locked, run.at # "idle", "desc_error" \notin status, Reclaim,
         UNCHANGED <<buf, status, accepted, moved, locked, drained>>,
         run'.at \notin Polling \cup {"link", "queue", "fill"}
  PROVE  Ring' /\ Channel' /\ Drained'
<1>1. Ring' /\ Base' = moved /\ Reach' = accepted
  BY ReclaimRing
<1>2. Channel'
  BY <1>1, ReclaimChannel
<1> QED
  BY <1>1, <1>2, DrainedKept

LEMMA RoundStep ==
  ASSUME Inv, irqOwner, Top \/ WaitReclaim
  PROVE  Ring' /\ Channel' /\ Drained'
<1>1. /\ TypeInv /\ Ring /\ Channel /\ Drained /\ run.at \in {"top", "reclaim"} /\ ~locked /\ moved = Base
      /\ "desc_error" \notin status /\ ~dev.error
  BY Going DEF Top, WaitReclaim
<1>2. run'.at \in {"idle", "test", "reclaim", "resume"}
  <2>1. CASE Top
    BY <1>1, <2>1, Known DEF Top, Goto, Return, Waiting, RunType
  <2>2. CASE WaitReclaim
    BY <1>1, <2>2, Known DEF WaitReclaim, RunType
  <2> QED
    BY <2>1, <2>2
<1>3. UNCHANGED <<buf, accepted, moved, locked>>
  BY DEF Top, WaitReclaim
<1>4. CASE Reclaim /\ UNCHANGED <<status, drained>>
  BY <1>1, <1>2, <1>3, <1>4, ReclaimStep DEF Polling
<1>5. CASE Top /\ UNCHANGED <<desc, dev, dma, status>> /\ (drained' = drained \/ (drained' = "false" /\ run' = Waiting))
  <2>1. Ring' /\ Channel'
    BY <1>1, <1>2, <1>3, <1>5, Quiet DEF Polling
  <2> QED
    BY <1>1, <1>5, <2>1, DrainedKept DEF Drained, Waiting
<1>6. CASE StartDma /\ UNCHANGED <<desc, drained>>
  <2>1. Ring' /\ Channel'
    BY <1>1, <1>2, <1>3, <1>6, StartStream DEF Polling
  <2> QED
    BY <1>1, <1>6, <2>1, DrainedKept
<1>7. CASE WaitReclaim
  BY <1>4, <1>7 DEF WaitReclaim
<1>8. CASE Top
  <2>1. CASE run.call = "write"
    BY <1>4, <1>5, <1>8, <2>1 DEF Top, Return
  <2>2. CASE run.call # "write"
    <3>1. CASE run.sleeps = 0
      BY <1>5, <1>8, <2>2, <3>1 DEF Top, Return
    <3>2. CASE run.sleeps # 0
      <4>1. (StartDma \/ UNCHANGED <<dev, dma, status>>) /\ UNCHANGED <<desc, drained>>
        BY <1>8, <2>2, <3>2 DEF Top
      <4>2. UNCHANGED <<dev, dma, status>> => UNCHANGED <<desc, dev, dma, status>>
        BY <4>1
      <4>3. drained' = drained
        BY <4>1
      <4> QED
        BY <1>5, <1>6, <1>8, <4>1, <4>2, <4>3, Zenon
    <3> QED
      BY <3>1, <3>2
  <2> QED
    BY <2>1, <2>2
<1> QED
  BY <1>7, <1>8

-----------------------------------------------------------------------------
(* i2s_stream_write appends a chunk.                                       *)

(* The slots of the queue and the free ones.                               *)
LEMMA Apart ==
  ASSUME TypeInv, Ring
  PROVE  /\ dev.queued < Count => \A c \in Base + 1 .. accepted : SlotOf(c) # dev.head
         /\ \A c \in accepted + 2 .. Base + Count : SlotOf(c) # dev.head
         /\ \A c \in Base + 1 .. accepted - 1 : SlotOf(c) # SlotOf(accepted)
         /\ dev.queued > 0 => \A c \in accepted + 1 .. Base + Count : SlotOf(c) # SlotOf(accepted)
<1>1. /\ Base \in Int /\ accepted \in Int /\ dev.queued \in Int /\ Base = accepted - dev.queued
      /\ dev.queued <= Count /\ dev.head = SlotOf(accepted + 1)
  BY Known DEF Base, Ring, Handle
<1>2. ASSUME dev.queued < Count, NEW c \in Base + 1 .. accepted PROVE SlotOf(c) # dev.head
  <2>1. c \in Int /\ accepted + 1 \in Int /\ c < accepted + 1 /\ (accepted + 1) - c < Count
    BY <1>1, <1>2, CountIs
  <2> QED
    BY <1>1, <2>1, SlotApart
<1>3. ASSUME NEW c \in accepted + 2 .. Base + Count PROVE SlotOf(c) # dev.head
  <2>1. c \in Int /\ accepted + 1 \in Int /\ accepted + 1 < c /\ c - (accepted + 1) < Count
    BY <1>1, <1>3, CountIs, Known
  <2> QED
    BY <1>1, <2>1, SlotApart
<1>4. ASSUME NEW c \in Base + 1 .. accepted - 1 PROVE SlotOf(c) # SlotOf(accepted)
  <2>1. c \in Int /\ c < accepted /\ accepted - c < Count
    BY <1>1, <1>4, CountIs
  <2> QED
    BY <1>1, <2>1, SlotApart
<1>5. ASSUME dev.queued > 0, NEW c \in accepted + 1 .. Base + Count PROVE SlotOf(c) # SlotOf(accepted)
  <2>1. c \in Int /\ accepted < c /\ c - accepted < Count
    BY <1>1, <1>5, CountIs
  <2> QED
    BY <1>1, <2>1, SlotApart
<1> QED
  BY <1>2, <1>3, <1>4, <1>5

(* The free slot at the head is filled.                                    *)
LEMMA TestStep ==
  ASSUME Inv, irqOwner, Test
  PROVE  Ring' /\ Channel' /\ Drained'
<1>1. /\ TypeInv /\ LockTrue /\ Ring /\ Channel /\ Drained /\ run.at = "test" /\ ~locked
      /\ dev.mode /\ ~dev.error /\ "desc_error" \notin status
  BY Going DEF Test
<1>2. CASE dev.queued >= Count
  <2>1. run'.at = "reclaim"
    BY <1>1, <1>2, Known DEF Test, Goto, RunType
  <2>2. Ring' /\ Channel'
    BY <1>1, <1>2, <2>1, Quiet DEF Test, Polling
  <2> QED
    BY <1>1, <2>2, DrainedKept DEF Test
<1>3. CASE ~(dev.queued >= Count)
  <2>1. /\ run'.at = "fill" /\ buf' = [buf EXCEPT ![dev.head] = accepted + 1]
        /\ UNCHANGED <<desc, dev, dma, status, locked, accepted, moved, drained>>
    BY <1>1, <1>3, Known DEF Test, Goto, RunType
  <2>2. Base' = Base /\ Linked' = Linked /\ Reach' = Reach
    BY <2>1 DEF Base, Linked, Reach
  <2>3. dev.queued < Count /\ dev.head \in Slot
    BY <1>1, <1>3, Known, CountIs
  <2>4. Handle' /\ Links' /\ Rest'
    BY <1>1, <2>1, <2>2 DEF Ring, Handle, Links, Rest, Polling
  <2>5. Chunks'
    <3>1. \A c \in Base + 1 .. accepted : buf'[SlotOf(c)] = buf[SlotOf(c)]
      <4> SUFFICES ASSUME NEW c \in Base + 1 .. accepted PROVE buf'[SlotOf(c)] = buf[SlotOf(c)]
        OBVIOUS
      <4>1. SlotOf(c) # dev.head /\ SlotOf(c) \in Slot
        BY <1>1, <2>3, Apart, SlotIn, Known
      <4> QED
        BY <1>1, <2>1, <4>1, Known
    <3> QED
      BY <1>1, <2>1, <2>2, <3>1 DEF Ring, Chunks
  <2>6. Appending'
    <3>1. buf'[dev.head] = accepted + 1
      BY <1>1, <2>1, <2>3, Known
    <3> QED
      BY <1>1, <2>1, <2>3, <3>1 DEF Appending
  <2>7. Channel' /\ Drained'
    BY <1>1, <2>1, <2>2, DrainedKept DEF Channel, DmaIdle
  <2> QED
    BY <2>4, <2>5, <2>6, <2>7 DEF Ring
<1> QED
  BY <1>2, <1>3

(* Its descriptor is given to the channel, which cannot come to it yet.    *)
LEMMA FillStep ==
  ASSUME Inv, irqOwner, Fill
  PROVE  Ring' /\ Channel' /\ Drained'
<1>1. /\ TypeInv /\ LockTrue /\ Ring /\ Channel /\ Drained /\ run.at = "fill" /\ ~locked /\ moved = Base
      /\ dev.mode /\ ~dev.error /\ "desc_error" \notin status
  BY Going DEF Fill
<1>2. /\ desc' = [desc EXCEPT ![dev.head] = [Free EXCEPT !.owner = "DMA"]] /\ locked'
      /\ run'.at = (IF dev.queued > 0 THEN "link" ELSE "queue")
      /\ UNCHANGED <<buf, dev, dma, status, accepted, moved, drained>>
  BY <1>1, Known DEF Fill, Goto, RunType
<1>3. dev.queued < Count /\ buf[dev.head] = accepted + 1 /\ dev.head = SlotOf(accepted + 1) /\ dev.head \in Slot
      /\ accepted \in Nat /\ dev.queued \in Nat /\ Base \in Int /\ Base = accepted - dev.queued
  BY <1>1, Known DEF Ring, Handle, Appending, Base
<1>4. \A i \in Slot \ {dev.head} : desc'[i] = desc[i]
  BY <1>1, <1>2, Known
<1>5. \A c \in Base + 1 .. accepted : desc'[SlotOf(c)] = desc[SlotOf(c)]
  <2> SUFFICES ASSUME NEW c \in Base + 1 .. accepted PROVE desc'[SlotOf(c)] = desc[SlotOf(c)]
    OBVIOUS
  <2>1. SlotOf(c) # dev.head /\ SlotOf(c) \in Slot
    BY <1>1, <1>3, Apart, SlotIn
  <2> QED
    BY <1>4, <2>1
<1>6. dev.queued > 0 => accepted \in Base + 1 .. accepted
  BY <1>3
<1>7. Base' = Base /\ Linked' = Linked /\ Reach' = Reach
  BY <1>2, <1>5, <1>6 DEF Base, Linked, Reach
<1>8. Handle' /\ Chunks'
  BY <1>1, <1>2, <1>5, <1>7 DEF Ring, Handle, Chunks, Polling
<1>9. Links'
  <2>1. ASSUME NEW c \in Base + 1 .. accepted - 1
        PROVE  desc'[SlotOf(c)].next = SlotOf(c + 1) /\ ~desc'[SlotOf(c)].eof
    <3>1. c \in Base + 1 .. accepted
      BY <1>3
    <3> QED
      BY <1>1, <1>5, <3>1 DEF Ring, Links
  <2>2. dev.queued > 0 => /\ desc'[SlotOf(accepted)].next = NULL /\ desc'[SlotOf(accepted)].eof
                          /\ run'.at = "link"
    BY <1>1, <1>2, <1>5, <1>6 DEF Ring, Links
  <2> QED
    BY <1>2, <1>7, <2>1, <2>2 DEF Links
<1>10. Rest'
  <2> SUFFICES ASSUME NEW c \in accepted + 2 .. Base + Count PROVE desc'[SlotOf(c)] = Free
    BY <1>2, <1>3, <1>7, CountIs DEF Rest
  <2>1. SlotOf(c) # dev.head /\ SlotOf(c) \in Slot
    BY <1>1, <1>3, Apart, SlotIn
  <2>2. c \in accepted + 1 .. Base + Count /\ c # accepted + 1
    BY <1>3, CountIs
  <2> QED
    BY <1>1, <1>4, <2>1, <2>2 DEF Ring, Rest
<1>11. Appending'
  <2>1. desc'[dev.head] = [Free EXCEPT !.owner = "DMA"]
    BY <1>1, <1>2, <1>3, Known
  <2>2. moved # accepted + 1
    BY <1>1, <1>3
  <2> QED
    BY <1>1, <1>2, <1>3, <2>1, <2>2 DEF Appending
<1>12. Channel' /\ Drained'
  BY <1>1, <1>2, <1>7, DrainedKept DEF Channel, DmaIdle
<1> QED
  BY <1>8, <1>9, <1>10, <1>11, <1>12 DEF Ring

(* The last chunk of the queue gets its successor, and then loses its end  *)
(* mark; the channel may load it before, between and after.                *)
LEMMA LinkStep ==
  ASSUME Inv, irqOwner, Link
  PROVE  Ring' /\ Channel' /\ Drained'
<1>1. TypeInv /\ LockTrue /\ Ring /\ Channel /\ Drained /\ run.at = "link" /\ locked
  BY DEF Inv, Stream, Link, At, LockTrue
<1>2. /\ dev.queued > 0 /\ dev.queued < Count /\ dev.head = SlotOf(accepted + 1) /\ dev.head \in Slot /\ dev.head # NULL
      /\ accepted \in Nat /\ moved \in Nat /\ dev.queued \in Nat /\ Base \in Int /\ Base = accepted - dev.queued
  BY <1>1, Known, CountIs DEF Ring, Handle, Appending, Base
<1> DEFINE prev == SlotOf(accepted)
<1>3. Pred(dev.head) = prev /\ prev \in Slot
  <2>1. accepted + 1 \in Int /\ (accepted + 1) - 1 = accepted /\ accepted \in Int
    BY <1>2
  <2> QED
    BY <1>2, <2>1, SlotBefore, SlotIn
<1>4. desc[prev].next \in {NULL, dev.head} /\ desc[prev].eof
  BY <1>1, <1>2 DEF Ring, Links
<1> HIDE DEF prev
<1>5. UNCHANGED <<buf, dev, dma, status, locked, accepted, moved, drained>>
  BY DEF Link
<1>6. \/ /\ desc[prev].next = NULL /\ desc' = [desc EXCEPT ![prev].next = dev.head] /\ run'.at = "link"
      \/ /\ desc[prev].next = dev.head /\ desc' = [desc EXCEPT ![prev].eof = FALSE] /\ run'.at = "queue"
  BY <1>1, <1>2, <1>3, <1>4, Known DEF Link, Goto, RunType
<1>7. /\ \A i \in Slot \ {prev} : desc'[i] = desc[i]
      /\ \A i \in Slot : desc'[i].owner = desc[i].owner
      /\ desc'[prev].next = dev.head
      /\ run'.at = "link" => desc'[prev].eof
      /\ run'.at = "queue" => ~desc'[prev].eof
      /\ run'.at \in {"link", "queue"}
  BY <1>1, <1>3, <1>4, <1>6, Known DEF DescType
<1>8. Base' = Base /\ Linked' /\ Reach' = accepted + 1 /\ Reach <= Reach'
  BY <1>1, <1>2, <1>5, <1>7, Known DEF Base, Linked, Reach, prev
<1>9. Handle'
  <2>1. moved <= Reach'
    BY <1>1, <1>2, <1>8, Known DEF Ring, Handle
  <2> QED
    BY <1>1, <1>5, <1>7, <1>8, <2>1 DEF Ring, Handle, Polling
<1>10. Chunks'
  <2> SUFFICES ASSUME NEW c \in Base + 1 .. accepted
               PROVE  buf[SlotOf(c)] = c /\ (desc'[SlotOf(c)].owner = "CPU" <=> c <= moved)
    BY <1>5, <1>8 DEF Chunks
  <2>1. SlotOf(c) \in Slot
    BY <1>2, SlotIn
  <2> QED
    BY <1>1, <1>7, <2>1 DEF Ring, Chunks
<1>11. Links'
  <2>1. ASSUME NEW c \in Base + 1 .. accepted - 1
        PROVE  desc'[SlotOf(c)].next = SlotOf(c + 1) /\ ~desc'[SlotOf(c)].eof
    <3>1. SlotOf(c) \in Slot /\ SlotOf(c) # prev
      BY <1>1, <1>2, SlotIn, Apart DEF prev
    <3> QED
      BY <1>1, <1>7, <3>1 DEF Ring, Links
  <2> QED
    BY <1>1, <1>5, <1>7, <1>8, <2>1 DEF Links, prev
<1>12. Rest'
  <2> SUFFICES ASSUME NEW c \in accepted + 1 .. Base + Count
               PROVE  desc'[SlotOf(c)] = Free \/ (c = accepted + 1 /\ locked)
    BY <1>5, <1>8 DEF Rest
  <2>1. SlotOf(c) \in Slot /\ SlotOf(c) # prev
    BY <1>1, <1>2, SlotIn, Apart DEF prev
  <2> QED
    BY <1>1, <1>7, <2>1 DEF Ring, Rest
<1>13. Appending'
  <2>1. dev.head # prev
    <3>1. accepted + 1 \in accepted + 1 .. Base + Count
      BY <1>2, CountIs
    <3> QED
      BY <1>1, <1>2, <3>1, Apart DEF prev
  <2>2. desc'[dev.head] = desc[dev.head]
    BY <1>2, <1>7, <2>1
  <2> QED
    BY <1>1, <1>2, <1>5, <2>2 DEF Ring, Appending
<1>14. Channel'
  <2>1. \A n \in Int : n <= Reach => n <= Reach'
    BY <1>1, <1>8, Known
  <2>2. moved + 1 \in Int /\ moved + 2 \in Int
    BY <1>2
  <2> QED
    BY <1>1, <1>5, <1>8, <2>1, <2>2 DEF Channel, DmaIdle
<1>15. Drained'
  BY <1>1, <1>5, DrainedKept
<1> QED
  BY <1>9, <1>10, <1>11, <1>12, <1>13, <1>14, <1>15 DEF Ring

(* The chunk is the queue's.                                               *)
LEMMA QueueStep ==
  ASSUME Inv, irqOwner, Queue
  PROVE  Ring' /\ Channel' /\ Drained'
<1>1. TypeInv /\ LockTrue /\ Ring /\ Channel /\ Drained /\ run.at = "queue" /\ locked
  BY DEF Inv, Stream, Queue, At, LockTrue
<1>2. /\ dev.queued < Count /\ dev.head = SlotOf(accepted + 1) /\ dev.head \in Slot
      /\ dev.queued <= accepted /\ Base <= moved
      /\ accepted \in Nat /\ moved \in Nat /\ dev.queued \in Nat /\ Base \in Int /\ Base = accepted - dev.queued
  BY <1>1, Known DEF Ring, Handle, Appending, Base
<1>3. (dev.queued + 1) % CountMod = dev.queued + 1
  <2>1. dev.queued + 1 \in 0 .. CountMod - 1
    BY <1>2, CountIs
  <2> QED
    BY <2>1, CountIs, ModSmall
<1>4. /\ dev'.queued = dev.queued + 1 /\ dev'.head = Succ(dev.head) /\ dev'.tail = dev.tail
      /\ dev'.mode = dev.mode /\ dev'.error = dev.error /\ dev'.started = dev.started
      /\ accepted' = accepted + 1 /\ ~locked' /\ run'.at = "start"
      /\ UNCHANGED <<desc, buf, dma, status, moved, drained>>
  BY <1>1, <1>3, Known DEF Queue, DevType, RunType
<1>5. Base' = Base
  BY <1>2, <1>4 DEF Base
<1>6. desc[SlotOf(accepted + 1)] = [Free EXCEPT !.owner = IF moved = accepted + 1 THEN "CPU" ELSE "DMA"]
      /\ buf[SlotOf(accepted + 1)] = accepted + 1
  BY <1>1, <1>2 DEF Ring, Appending
<1>7. /\ desc[SlotOf(accepted + 1)].next = NULL /\ desc[SlotOf(accepted + 1)].eof
      /\ desc[SlotOf(accepted + 1)].owner = (IF moved = accepted + 1 THEN "CPU" ELSE "DMA")
  BY <1>6 DEF Free
<1>8. Reach' = accepted + 1 /\ moved <= accepted + 1 /\ \A n \in Int : n <= Reach => n <= accepted + 1
  <2>1. ~Linked'
    BY <1>4, <1>7 DEF Linked
  <2> QED
    BY <1>1, <1>2, <1>4, <2>1, Known DEF Reach, Ring, Handle
<1>9. Handle'
  <2>1. Succ(dev.head) = SlotOf((accepted + 1) + 1)
    BY <1>2, SlotNext, accepted + 1 \in Int
  <2>2. dev'.queued <= Count /\ dev'.queued <= accepted'
    BY <1>2, <1>4, CountIs
  <2>3. Base' <= moved' /\ moved' <= Reach'
    BY <1>2, <1>4, <1>5, <1>8
  <2>4. dev'.head = SlotOf(accepted' + 1) /\ dev'.tail = SlotOf(Base' + 1)
    BY <1>1, <1>4, <1>5, <2>1 DEF Ring, Handle
  <2> QED
    BY <1>1, <1>4, <2>2, <2>3, <2>4 DEF Ring, Handle, Polling
<1>10. Chunks'
  <2> SUFFICES ASSUME NEW c \in Base + 1 .. accepted + 1
               PROVE  buf[SlotOf(c)] = c /\ (desc[SlotOf(c)].owner = "CPU" <=> c <= moved)
    BY <1>4, <1>5 DEF Chunks
  <2>1. CASE c = accepted + 1
    <3>1. desc[SlotOf(accepted + 1)].owner = "CPU" <=> accepted + 1 <= moved
      BY <1>2, <1>7, <1>8
    <3> QED
      BY <1>6, <2>1, <3>1
  <2>2. CASE c # accepted + 1
    <3>1. c \in Base + 1 .. accepted
      BY <1>2, <2>2
    <3> QED
      BY <1>1, <3>1 DEF Ring, Chunks
  <2> QED
    BY <2>1, <2>2
<1>11. Links'
  <2>1. ASSUME NEW c \in Base + 1 .. accepted
        PROVE  desc[SlotOf(c)].next = SlotOf(c + 1) /\ ~desc[SlotOf(c)].eof
    <3>1. CASE c = accepted
      <4>1. dev.queued > 0
        BY <1>2, <3>1
      <4> QED
        BY <1>1, <1>2, <3>1, <4>1 DEF Ring, Links
    <3>2. CASE c # accepted
      <4>1. c \in Base + 1 .. accepted - 1
        BY <1>2, <3>2
      <4> QED
        BY <1>1, <4>1 DEF Ring, Links
    <3> QED
      BY <3>1, <3>2
  <2>2. accepted' - 1 = accepted
    BY <1>2, <1>4
  <2> QED
    BY <1>4, <1>5, <1>7, <2>1, <2>2 DEF Links
<1>12. Rest'
  <2> SUFFICES ASSUME NEW c \in accepted + 2 .. Base + Count PROVE desc[SlotOf(c)] = Free
    BY <1>2, <1>4, <1>5, CountIs DEF Rest
  <2>1. c \in accepted + 1 .. Base + Count /\ c # accepted + 1
    BY <1>2, CountIs
  <2> QED
    BY <1>1, <2>1 DEF Ring, Rest
<1>13. Appending'
  BY <1>4 DEF Appending
<1>14. Channel'
  <2>1. moved + 1 \in Int /\ moved + 2 \in Int
    BY <1>2
  <2> QED
    BY <1>1, <1>4, <1>5, <1>8, <2>1 DEF Channel, DmaIdle
<1>15. Drained'
  BY <1>1, <1>4 DEF Drained
<1> QED
  BY <1>9, <1>10, <1>11, <1>12, <1>13, <1>14, <1>15 DEF Ring

-----------------------------------------------------------------------------
(* The invariant.                                                          *)

LEMMA ProgramStep ==
  ASSUME Inv, irqOwner, Program
  PROVE  Ring' /\ Channel' /\ Drained'
<1>1. CASE Top \/ WaitReclaim
  BY <1>1, RoundStep
<1>2. CASE Test \/ Fill \/ Link \/ Queue
  BY <1>2, TestStep, FillStep, LinkStep, QueueStep
<1>3. CASE Restart \/ TryStart
  BY <1>3, StartStep
<1>4. CASE Resume \/ Check
  BY <1>4, LookStep
<1>5. CASE PollStatus \/ PollQueued \/ PollOwner \/ PollResume \/ Polled
  <2>1. run.at \in Polling
    BY <1>5 DEF PollStatus, PollQueued, PollOwner, PollResume, Polled, At, Polling
  <2> QED
    BY <2>1 DEF Inv, Stream, Ring, Handle
<1> QED
  BY <1>1, <1>2, <1>3, <1>4, <1>5 DEF Program

LEMMA InvInit == Init => Inv
<1> SUFFICES ASSUME Init PROVE Inv
  OBVIOUS
<1>1. LockTrue /\ Stream
  BY DEF Init, LockTrue, Stream, Waiting
<1> QED
  BY <1>1, InitTypes DEF Inv

(* Only i2s_stream_begin and i2s_stream_stop give and take the interrupt.  *)
LEMMA OwnerStep ==
  ASSUME Next, ~(Begin \/ Stop)
  PROVE  irqOwner' = irqOwner
BY DEF Next, Program, DmaLoad, DmaDone, Isr, OtherWake, Enter, Top, Test, WaitReclaim, Resume, Restart, Check,
       Fill, Link, Queue, TryStart, PollStatus, PollQueued, PollOwner, PollResume, Polled

LEMMA InvStep ==
  ASSUME "poll" \notin Calls, Inv, [Next]_vars
  PROVE  Inv'
<1>1. TypeInv' /\ LockTrue'
  BY NextTypes, LockStep DEF Inv
<1>2. Stream'
  <2> SUFFICES ASSUME irqOwner' PROVE Ring' /\ Channel' /\ Drained'
    BY DEF Stream
  <2>1. CASE UNCHANGED vars
    <3>1. Stream
      BY DEF Inv
    <3> QED
      BY <2>1, <3>1 DEF vars, Stream, Ring, Handle, Chunks, Links, Rest, Appending, Channel, Drained, DmaIdle,
                        Base, Linked, Reach
  <2>2. CASE Begin \/ Stop
    BY <2>2, CallStep DEF Inv
  <2>3. CASE Next /\ ~(Begin \/ Stop)
    <3>1. irqOwner
      BY <2>3, OwnerStep
    <3>2. CASE DmaLoad \/ DmaDone
      BY <3>1, <3>2, LoadStep, DoneStep
    <3>3. CASE Isr \/ OtherWake
      BY <3>1, <3>3, InterruptStep
    <3>4. CASE Program
      BY <3>1, <3>4, ProgramStep
    <3>5. ASSUME NEW call, NEW n, Enter(call, n) PROVE Ring' /\ Channel' /\ Drained'
      BY <3>1, <3>5, EnterStep
    <3> QED
      BY <2>3, <3>2, <3>3, <3>4, <3>5 DEF Next
  <2> QED
    BY <2>1, <2>2, <2>3
<1> QED
  BY <1>1, <1>2 DEF Inv

LEMMA InvAlways == ASSUME "poll" \notin Calls PROVE Spec => []Inv
<1>1. Inv /\ [Next]_vars => Inv'
  BY InvStep
<1> QED
  BY <1>1, InvInit, PTL DEF Spec

(* Whoever began the stream, no descriptor is without a successor and      *)
(* without an end mark, and none such is loaded.                           *)
Ended(d) == d.next # NULL \/ d.eof

EndInv == TypeInv /\ (\A i \in Slot : Ended(desc[i])) /\ Ended(dma)

LEMMA EndStep == EndInv /\ [Next]_vars => EndInv'
<1> SUFFICES ASSUME EndInv, [Next]_vars PROVE EndInv'
  OBVIOUS
<1>1. TypeInv' /\ TypeInv
  BY NextTypes DEF EndInv
<1>2. /\ desc \in [Slot -> DescType] /\ dma \in DmaType /\ dev.head \in Slot /\ dev.tail \in Slot /\ dev.head # NULL
      /\ Ended(Free) /\ Ended(Off) /\ Ended([Free EXCEPT !.owner = "DMA"])
      /\ \A i \in Slot : Ended([Off EXCEPT !.next = i])
  BY <1>1, Known, CountIs DEF Ended, Free, Off
<1>3. CASE UNCHANGED <<desc, dma>>
  BY <1>1, <1>3 DEF EndInv, Ended
<1>4. ASSUME Reclaim PROVE EndInv'
  <2>1. \A i \in Slot : desc'[i] = desc[i] \/ desc'[i] = [desc[i] EXCEPT !.eof = TRUE, !.next = NULL]
    BY <1>4 DEF Reclaim
  <2>2. \A i \in Slot : Ended(desc'[i])
    <3> SUFFICES ASSUME NEW i \in Slot PROVE Ended(desc'[i])
      OBVIOUS
    <3>1. desc[i] \in DescType /\ Ended(desc[i])
      BY <1>2 DEF EndInv
    <3>2. Ended([desc[i] EXCEPT !.eof = TRUE, !.next = NULL])
      BY <3>1 DEF Ended, DescType
    <3> QED
      BY <2>1, <3>1, <3>2
  <2>3. dma' \in {dma, Off}
    BY <1>4 DEF Reclaim
  <2> QED
    BY <1>1, <1>2, <2>2, <2>3 DEF EndInv, Ended
<1>5. ASSUME StartDma, UNCHANGED desc PROVE EndInv'
  BY <1>1, <1>2, <1>5 DEF EndInv, Ended, StartDma
<1>6. ASSUME dma' = Off, desc' = desc PROVE EndInv'
  BY <1>1, <1>2, <1>6 DEF EndInv, Ended
<1>7. CASE DmaLoad
  BY <1>1, <1>2, <1>7 DEF EndInv, Ended, DmaLoad, DmaType
<1>8. CASE DmaDone
  BY <1>1, <1>2, <1>8 DEF EndInv, Ended, DmaDone, DmaType, DescType
<1>9. CASE Begin \/ Stop
  BY <1>1, <1>2, <1>9 DEF EndInv, Ended, Begin, Stop, Reset
<1>10. CASE Isr
  BY <1>3, <1>4, <1>6, <1>10 DEF Isr
<1>11. CASE Top \/ WaitReclaim
  BY <1>3, <1>4, <1>5, <1>11 DEF Top, WaitReclaim
<1>12. CASE Restart \/ TryStart
  BY <1>3, <1>5, <1>12 DEF Restart, TryStart
<1>13. CASE Fill
  BY <1>1, <1>2, <1>3, <1>13 DEF EndInv, Fill, Ended
<1>14. CASE Link
  <2>1. Pred(dev.head) \in Slot
    BY <1>2, SlotMod, CountIs DEF Pred, Slot
  <2>2. dma' = dma
    BY <1>14 DEF Link
  <2>3. \A i \in Slot : Ended(desc'[i])
    BY <1>2, <1>14, <2>1 DEF EndInv, Ended, Link, DescType
  <2> QED
    BY <1>1, <2>2, <2>3 DEF EndInv, Ended
<1>15. CASE PollStatus
  BY <1>3, <1>6, <1>15 DEF PollStatus
<1>16. CASE PollOwner
  BY <1>1, <1>2, <1>3, <1>16 DEF EndInv, Ended, PollOwner
<1>17. CASE PollResume
  BY <1>3, <1>5, <1>6, <1>17 DEF PollResume
<1>18. CASE OtherWake \/ Test \/ Resume \/ Check \/ Queue \/ PollQueued \/ Polled \/ UNCHANGED vars
  BY <1>3, <1>18 DEF OtherWake, Test, Resume, Check, Queue, PollQueued, Polled, vars
<1>19. ASSUME NEW call, NEW n, Enter(call, n) PROVE EndInv'
  BY <1>3, <1>19 DEF Enter
<1> QED
  BY <1>7, <1>8, <1>9, <1>10, <1>11, <1>12, <1>13, <1>14, <1>15, <1>16, <1>17, <1>18, <1>19 DEF Next, Program

LEMMA EndAlways == Spec => []EndInv
<1>1. Init => EndInv
  BY InitTypes DEF Init, EndInv, Ended, Free, Off
<1> QED
  BY <1>1, EndStep, PTL DEF Spec

-----------------------------------------------------------------------------
(* What the application can rely on.                                       *)

LEMMA CountsFollow == Inv => CountsTrue
<1> SUFFICES ASSUME Inv, irqOwner, ~locked
             PROVE  /\ ~dev.error
                    /\ dev.queued <= Count
                    /\ dev.head = (dev.tail + dev.queued) % Count
                    /\ \A k \in 0 .. dev.queued - 1 :
                          LET i == (dev.tail + k) % Count
                          IN  /\ buf[i] = accepted - dev.queued + 1 + k
                              /\ desc[i].owner = "CPU" <=> buf[i] <= moved
                    /\ \A k \in dev.queued .. Count - 1 : desc[(dev.tail + k) % Count] = Free
  BY DEF CountsTrue
<1>1. TypeInv /\ Ring
  BY DEF Inv, Stream
<1>2. /\ ~dev.error /\ dev.queued <= Count
      /\ dev.head = SlotOf(accepted + 1) /\ dev.tail = SlotOf(Base + 1)
      /\ accepted \in Nat /\ moved \in Nat /\ dev.queued \in Nat /\ Base \in Int /\ Base = accepted - dev.queued
  BY <1>1, Known DEF Ring, Handle, Base
<1>3. \A k \in Int : (dev.tail + k) % Count = SlotOf(Base + 1 + k)
  <2> SUFFICES ASSUME NEW k \in Int PROVE (dev.tail + k) % Count = SlotOf(Base + 1 + k)
    OBVIOUS
  <2>1. Base + 1 \in Int
    BY <1>2
  <2> QED
    BY <1>2, <2>1, SlotPlus
<1>4. dev.head = (dev.tail + dev.queued) % Count
  <2>1. Base + 1 + dev.queued = accepted + 1 /\ dev.queued \in Int
    BY <1>2
  <2> QED
    BY <1>2, <1>3, <2>1
<1>5. ASSUME NEW k \in 0 .. dev.queued - 1
      PROVE  LET i == (dev.tail + k) % Count
             IN  /\ buf[i] = accepted - dev.queued + 1 + k
                 /\ desc[i].owner = "CPU" <=> buf[i] <= moved
  <2>1. Base + 1 + k \in Base + 1 .. accepted /\ Base + 1 + k = accepted - dev.queued + 1 + k /\ k \in Int
    BY <1>2
  <2>2. buf[SlotOf(Base + 1 + k)] = Base + 1 + k
        /\ (desc[SlotOf(Base + 1 + k)].owner = "CPU" <=> Base + 1 + k <= moved)
    BY <1>1, <2>1 DEF Ring, Chunks
  <2> QED
    BY <1>3, <2>1, <2>2
<1>6. ASSUME NEW k \in dev.queued .. Count - 1
      PROVE  desc[(dev.tail + k) % Count] = Free
  <2>1. Base + 1 + k \in accepted + 1 .. Base + Count /\ k \in Int
    BY <1>2, CountIs
  <2>2. desc[SlotOf(Base + 1 + k)] = Free
    BY <1>1, <2>1 DEF Ring, Rest
  <2> QED
    BY <1>3, <2>1, <2>2
<1> QED
  BY <1>2, <1>4, <1>5, <1>6

(* The count, the head and the tail, the owners and the links agree with   *)
(* what was accepted and moved, whatever the channel and the interrupt     *)
(* handler do between two steps of the program.                            *)
THEOREM I2sQueueTrue == ASSUME "poll" \notin Calls PROVE Spec => []QueueTrue
<1>1. EndInv => NoLooseEnd
  BY DEF EndInv, Ended, NoLooseEnd
<1>2. Spec => []Inv
  BY InvAlways
<1> QED
  BY <1>1, <1>2, CountsFollow, EndAlways, PTL DEF QueueTrue

(* When i2s_stream_drain returns true every chunk has been moved to the    *)
(* I2S peripheral.                                                         *)
THEOREM I2sDrainTrueMeansMoved == ASSUME "poll" \notin Calls PROVE Spec => []DrainTrueMeansMoved
<1>1. Inv => DrainTrueMeansMoved
  BY DEF Inv, Stream, Drained, DrainTrueMeansMoved
<1>2. Spec => []Inv
  BY InvAlways
<1> QED
  BY <1>1, <1>2, PTL

(* Nothing but the channel and a reset changes what has been moved.        *)
LEMMA MovedStep ==
  ASSUME Next, ~DmaDone, ~(Begin \/ Stop)
  PROVE  moved' = moved
BY DEF Next, Program, DmaLoad, Isr, OtherWake, Enter, Top, Test, WaitReclaim, Resume, Restart, Check,
       Fill, Link, Queue, TryStart, PollStatus, PollQueued, PollOwner, PollResume, Polled

(* Every chunk is moved once and in order: what is moved next is the       *)
(* successor of what was moved last, until a reset between two calls.      *)
THEOREM I2sMovedInOrder == ASSUME "poll" \notin Calls PROVE Spec => MovedInOrder
<1>1. Inv /\ [Next]_vars => [irqOwner => moved' = moved + 1 \/ (run.at = "idle" /\ moved' = 0)]_moved
  <2> SUFFICES ASSUME Inv, [Next]_vars, moved' # moved, irqOwner
               PROVE  moved' = moved + 1 \/ (run.at = "idle" /\ moved' = 0)
    OBVIOUS
  <2>1. Next
    BY DEF vars
  <2>2. CASE DmaDone
    BY <2>2, DoneFacts
  <2>3. CASE Begin \/ Stop
    BY <2>3 DEF Begin, Stop, Reset, At
  <2> QED
    BY <2>1, <2>2, <2>3, MovedStep
<1>2. Spec => []Inv
  BY InvAlways
<1> QED
  BY <1>1, <1>2, PTL DEF Spec, MovedInOrder
=============================================================================
