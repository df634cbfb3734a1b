------------------------- MODULE HostedQueueProofs --------------------------
(***************************************************************************)
(* Proofs about HostedQueue for every depth of the ring, every set of      *)
(* frames and every bound: the shape of the ring, what is left of a stack  *)
(* that is down, the order in which frames leave, and the refinement of    *)
(* the bounded FIFO.                                                       *)
(***************************************************************************)
EXTENDS HostedQueue, SequenceTheorems, TLAPS

-----------------------------------------------------------------------------
(* Arithmetic of the ring's indices.                                       *)

LEMMA ModSmall ==
  ASSUME NEW D \in Nat \ {0}, NEW a \in 0 .. D - 1
  PROVE  a % D = a
BY SMT

LEMMA ModLarge ==
  ASSUME NEW D \in Nat \ {0}, NEW a \in D .. 2 * D - 1
  PROVE  a % D = a - D
BY SMT

LEMMA ZeroMod == (0 + 0) % Depth = 0
BY DepthAssumption, ModSmall

LEMMA NextSlotInRange ==
  ASSUME NEW i \in Nat
  PROVE  NextSlot(i) \in 0 .. Depth - 1
BY DepthAssumption DEF NextSlot

(* A slot is a slot.                                                       *)
LEMMA SlotInRange ==
  ASSUME NEW k \in Nat, TypeOK
  PROVE  SlotAt(k) \in 0 .. Depth - 1
BY DepthAssumption DEF TypeOK, SlotAt

(* The slot after the k-th is the (k+1)-th.                                *)
LEMMA SlotStep ==
  ASSUME NEW k \in 0 .. Depth - 1, TypeOK
  PROVE  NextSlot(SlotAt(k)) = SlotAt(k + 1)
<1> DEFINE s == tail + k
<1>1. Depth \in Nat \ {0} /\ tail \in 0 .. Depth - 1
  BY DepthAssumption DEF TypeOK
<1>2. s \in 0 .. 2 * Depth - 2
  BY <1>1
<1>3. CASE s < Depth - 1
  <2>1. s % Depth = s /\ (s + 1) % Depth = s + 1
    BY <1>1, <1>2, <1>3, ModSmall
  <2> QED
    BY <2>1, <1>1 DEF NextSlot, SlotAt
<1>4. CASE s = Depth - 1
  <2>1. s % Depth = s
    BY <1>1, <1>4, ModSmall
  <2> QED
    BY <2>1, <1>1 DEF NextSlot, SlotAt
<1>5. CASE s > Depth - 1
  <2>1. s % Depth = s - Depth /\ (s + 1) % Depth = s + 1 - Depth
    BY SMTT(30), <1>1, <1>2, <1>5, ModLarge
  <2>2. (s - Depth + 1) % Depth = s - Depth + 1
    BY <1>1, <1>2, <1>5, ModSmall
  <2> QED
    BY <2>1, <2>2, <1>1 DEF NextSlot, SlotAt
<1> QED
  BY <1>2, <1>3, <1>4, <1>5, <1>1

(* Different positions of the queue are different slots.                   *)
LEMMA SlotInjective ==
  ASSUME NEW j \in 0 .. Depth - 1, NEW k \in 0 .. Depth - 1, TypeOK,
         SlotAt(j) = SlotAt(k)
  PROVE  j = k
<1>1. Depth \in Nat \ {0} /\ tail \in 0 .. Depth - 1
  BY DepthAssumption DEF TypeOK
<1>2. \A i \in 0 .. Depth - 1 :
        SlotAt(i) = IF tail + i < Depth THEN tail + i ELSE tail + i - Depth
  <2> SUFFICES ASSUME NEW i \in 0 .. Depth - 1
               PROVE  SlotAt(i) = IF tail + i < Depth THEN tail + i ELSE tail + i - Depth
    OBVIOUS
  <2>1. CASE tail + i < Depth
    BY <2>1, <1>1, ModSmall DEF SlotAt
  <2>2. CASE tail + i >= Depth
    <3>1. tail + i \in Depth .. 2 * Depth - 1
      BY <2>2, <1>1
    <3>2. (tail + i) % Depth = tail + i - Depth
      BY <3>1, <1>1, SMT
    <3> QED
      BY <3>1, <3>2, <1>1 DEF SlotAt
  <2> QED
    BY <2>1, <2>2, <1>1
<1> QED
  BY <1>1, <1>2

-----------------------------------------------------------------------------
(* The initial state.                                                      *)
LEMMA ZeroIsPacket == Zero \in Packet
BY BoundAssumption DEF Zero, Packet

LEMMA InitTypeOK == Init => TypeOK /\ HeadInStep /\ DownIsEmpty
<1> SUFFICES ASSUME Init
             PROVE  TypeOK /\ HeadInStep /\ DownIsEmpty
  OBVIOUS
<1> USE DepthAssumption, BoundAssumption, ZeroIsPacket DEF Init
<1>1. TypeOK
  <2>1. /\ items \in [0 .. Depth - 1 -> Packet]
        /\ cb \in [Slot -> BOOLEAN]
        /\ pc \in [1 .. MaxNest -> {"loop", "callback"}]
        /\ local \in [1 .. MaxNest -> Packet]
    OBVIOUS
  <2>2. /\ head \in 0 .. Depth - 1 /\ tail \in 0 .. Depth - 1
        /\ count \in 0 .. Depth /\ dropped \in Nat
        /\ txSeq \in 0 .. SeqMod - 1 /\ level \in 0 .. MaxNest
        /\ submitted \in 0 .. MaxSubmit /\ inits \in 0 .. MaxInits
    OBVIOUS
  <2>3. initialized \in BOOLEAN /\ transport \in {"NULL", "ready"} /\ out \in Packet
    OBVIOUS
  <2> QED
    BY <2>1, <2>2, <2>3 DEF TypeOK
<1>2. HeadInStep
  BY ZeroMod DEF HeadInStep, SlotAt
<1>3. DownIsEmpty
  BY DEF DownIsEmpty
<1> QED
  BY <1>1, <1>2, <1>3

(* What the two operations of the ring, and its reset, do to its type and  *)
(* its shape.                                                              *)
RingType ==
    /\ items \in [0 .. Depth - 1 -> Packet]
    /\ head \in 0 .. Depth - 1
    /\ tail \in 0 .. Depth - 1
    /\ count \in 0 .. Depth
    /\ dropped \in Nat

LEMMA PushRing ==
  ASSUME TypeOK, HeadInStep, NEW p \in Packet, QueuePush(p)
  PROVE  RingType' /\ HeadInStep'
<1> USE DepthAssumption DEF TypeOK, RingType
<1>1. CASE QueueFull
  BY <1>1 DEF QueuePush, HeadInStep, SlotAt
<1>2. CASE ~QueueFull
  <2>1. NextSlot(head) \in 0 .. Depth - 1
    BY DEF NextSlot
  <2>2. NextSlot(head) = SlotAt(count + 1)
    BY <1>2, SlotStep DEF HeadInStep, QueueFull
  <2>3. count' = count + 1 /\ tail' = tail /\ head' = NextSlot(head)
    BY <1>2 DEF QueuePush
  <2>4. HeadInStep'
    BY <2>2, <2>3 DEF HeadInStep, SlotAt
  <2>5. RingType'
    BY <1>2, <2>1 DEF QueuePush, QueueFull
  <2> QED
    BY <2>4, <2>5
<1> QED
  BY <1>1, <1>2

(* After a pop, position k is what position k + 1 was.                     *)
LEMMA PopSlot ==
  ASSUME TypeOK, QueuePop, NEW k \in 0 .. Depth - 1
  PROVE  SlotAt(k)' = SlotAt(k + 1)
<1>1. Depth \in Nat \ {0} /\ tail \in 0 .. Depth - 1 /\ tail' = NextSlot(tail)
  BY DepthAssumption DEF TypeOK, QueuePop
<1>2. CASE tail < Depth - 1
  <2>1. NextSlot(tail) = tail + 1
    BY <1>1, <1>2, ModSmall DEF NextSlot
  <2> QED
    BY <1>1, <2>1 DEF SlotAt
<1>3. CASE tail = Depth - 1
  <2>1. NextSlot(tail) = 0
    BY <1>1, <1>3, ModLarge DEF NextSlot
  <2>2. (0 + k) % Depth = k /\ (tail + (k + 1)) % Depth = k
    BY <1>1, <1>3, ModSmall, ModLarge
  <2> QED
    BY <1>1, <2>1, <2>2 DEF SlotAt
<1> QED
  BY <1>1, <1>2, <1>3

LEMMA PopRing ==
  ASSUME TypeOK, HeadInStep, QueuePop
  PROVE  RingType' /\ HeadInStep' /\ out' \in Packet
<1> USE DepthAssumption DEF TypeOK, RingType
<1>1. RingType' /\ out' \in Packet
  BY NextSlotInRange DEF QueuePop
<1>2. count - 1 \in 0 .. Depth - 1 /\ count - 1 + 1 = count
  BY DEF QueuePop
<1>3. \A k \in 0 .. Depth - 1 : SlotAt(k)' = SlotAt(k + 1)
  BY PopSlot
<1>4. (tail' + (count - 1)) % Depth = SlotAt(count)
  BY <1>2, <1>3 DEF SlotAt
<1>5. HeadInStep'
  BY <1>4 DEF QueuePop, HeadInStep, SlotAt
<1> QED
  BY <1>1, <1>5

LEMMA ResetRing ==
  ASSUME ResetState
  PROVE  RingType' /\ HeadInStep'
<1> USE DepthAssumption, ZeroIsPacket DEF ResetState
<1>1. RingType'
  BY DEF RingType
<1>2. HeadInStep'
  BY ZeroMod DEF HeadInStep, SlotAt
<1> QED
  BY <1>1, <1>2

-----------------------------------------------------------------------------
(* The inductive invariant behind the first three safety properties: the   *)
(* indices only stay in step with the count when all three are in range,   *)
(* and a stack that is down stays empty because nothing but rx_submit,     *)
(* which looks at s_initialized, pushes.                                   *)
Shape == TypeOK /\ HeadInStep /\ DownIsEmpty

(* The variables the ring and the calls of dispatch_rx do not touch.       *)
OtherType ==
    /\ initialized \in BOOLEAN
    /\ transport \in {"NULL", "ready"}
    /\ txSeq \in 0 .. SeqMod - 1
    /\ cb \in [Slot -> BOOLEAN]
    /\ submitted \in 0 .. MaxSubmit
    /\ inits \in 0 .. MaxInits

CallsType ==
    /\ level \in 0 .. MaxNest
    /\ pc \in [1 .. MaxNest -> {"loop", "callback"}]
    /\ local \in [1 .. MaxNest -> Packet]

LEMMA SameRing ==
  ASSUME Shape, UNCHANGED ring
  PROVE  RingType' /\ HeadInStep'
BY DEF Shape, TypeOK, ring, RingType, HeadInStep, SlotAt

LEMMA SameCalls ==
  ASSUME Shape, UNCHANGED calls
  PROVE  CallsType'
BY DEF Shape, TypeOK, calls, CallsType

LEMMA EspInitShape ==
  ASSUME Shape, NEW t \in TransportArg, EspInit(t)
  PROVE  Shape'
<1>1. RingType' /\ HeadInStep' /\ CallsType'
  BY ResetRing, SameCalls DEF EspInit
<1>2. OtherType' /\ out' \in Packet
  BY BoundAssumption DEF EspInit, ResetState, OtherType, Shape, TypeOK
<1>3. DownIsEmpty'
  BY DEF EspInit, DownIsEmpty
<1> QED
  BY <1>1, <1>2, <1>3 DEF Shape, TypeOK, RingType, OtherType, CallsType

LEMMA EspDeinitShape ==
  ASSUME Shape, EspDeinit
  PROVE  Shape'
<1>1. RingType' /\ HeadInStep' /\ CallsType'
  BY ResetRing, SameCalls DEF EspDeinit
<1>2. OtherType' /\ out' \in Packet
  <2>1. txSeq' \in 0 .. SeqMod - 1 /\ cb' \in [Slot -> BOOLEAN]
    BY BoundAssumption DEF EspDeinit, ResetState
  <2>2. UNCHANGED <<out, submitted, inits>>
    BY DEF EspDeinit, history
  <2> QED
    BY <2>1, <2>2 DEF EspDeinit, OtherType, Shape, TypeOK
<1>3. DownIsEmpty'
  BY DEF EspDeinit, ResetState, DownIsEmpty
<1> QED
  BY <1>1, <1>2, <1>3 DEF Shape, TypeOK, RingType, OtherType, CallsType

LEMMA SetTransportShape ==
  ASSUME Shape, NEW t \in TransportArg, SetTransport(t)
  PROVE  Shape'
<1>1. RingType' /\ HeadInStep' /\ CallsType'
  BY SameRing, SameCalls DEF SetTransport
<1>2. OtherType' /\ out' \in Packet /\ DownIsEmpty'
  BY DEF SetTransport, TransportArg, OtherType, Shape, TypeOK, history, DownIsEmpty
<1> QED
  BY <1>1, <1>2 DEF Shape, TypeOK, RingType, OtherType, CallsType

LEMMA SetCallbackShape ==
  ASSUME Shape, NEW s \in Client, NEW registered \in BOOLEAN, SetCallback(s, registered)
  PROVE  Shape'
<1>1. RingType' /\ HeadInStep' /\ CallsType'
  BY SameRing, SameCalls DEF SetCallback
<1>2. OtherType' /\ out' \in Packet /\ DownIsEmpty'
  BY ClientAssumption
     DEF SetCallback, OtherType, Shape, TypeOK, history, ring, DownIsEmpty
<1> QED
  BY <1>1, <1>2 DEF Shape, TypeOK, RingType, OtherType, CallsType

LEMMA TxShape ==
  ASSUME Shape, Tx
  PROVE  Shape'
<1>1. RingType' /\ HeadInStep' /\ CallsType'
  BY SameRing, SameCalls DEF Tx
<1>2. (txSeq + 1) % SeqMod \in 0 .. SeqMod - 1
  BY BoundAssumption DEF Shape, TypeOK
<1>3. OtherType' /\ out' \in Packet /\ DownIsEmpty'
  BY <1>2 DEF Tx, OtherType, Shape, TypeOK, history, ring, DownIsEmpty
<1> QED
  BY <1>1, <1>3 DEF Shape, TypeOK, RingType, OtherType, CallsType

LEMMA RxSubmitShape ==
  ASSUME Shape, NEW f \in Frame, RxSubmit(f)
  PROVE  Shape'
<1> DEFINE p == [id |-> submitted + 1, frame |-> f]
<1>1. p \in Packet /\ QueuePush(p)
  BY BoundAssumption DEF RxSubmit, Packet, Shape, TypeOK
<1>2. RingType' /\ HeadInStep'
  BY <1>1, PushRing DEF Shape
<1>3. CallsType'
  BY SameCalls DEF RxSubmit
<1>4. OtherType' /\ out' \in Packet /\ DownIsEmpty'
  BY BoundAssumption DEF RxSubmit, OtherType, Shape, TypeOK, DownIsEmpty
<1> QED
  BY <1>2, <1>3, <1>4 DEF Shape, TypeOK, RingType, OtherType, CallsType

(* A pop of a stack that is down would find nothing.                       *)
LEMMA PopIsUp ==
  ASSUME Shape, QueuePop
  PROVE  initialized
BY DEF Shape, DownIsEmpty, QueuePop, TypeOK

LEMMA RxPopShape ==
  ASSUME Shape, RxPop
  PROVE  Shape'
<1>1. RingType' /\ HeadInStep' /\ out' \in Packet
  BY PopRing DEF RxPop, Shape
<1>2. CallsType'
  BY SameCalls DEF RxPop
<1>3. OtherType' /\ DownIsEmpty'
  BY DEF RxPop, OtherType, Shape, TypeOK, DownIsEmpty
<1> QED
  BY <1>1, <1>2, <1>3 DEF Shape, TypeOK, RingType, OtherType, CallsType

LEMMA DispatchBeginShape ==
  ASSUME Shape, DispatchBegin
  PROVE  Shape'
<1>1. RingType' /\ HeadInStep'
  BY SameRing DEF DispatchBegin
<1>2. CallsType'
  BY BoundAssumption DEF DispatchBegin, CallsType, Shape, TypeOK
<1>3. OtherType' /\ out' \in Packet /\ DownIsEmpty'
  BY DEF DispatchBegin, OtherType, Shape, TypeOK, history, ring, DownIsEmpty
<1> QED
  BY <1>1, <1>2, <1>3 DEF Shape, TypeOK, RingType, OtherType, CallsType

LEMMA DispatchTakeShape ==
  ASSUME Shape, DispatchTake
  PROVE  Shape'
<1>1. RingType' /\ HeadInStep' /\ out' \in Packet
  BY PopRing DEF DispatchTake, Shape
<1>2. CallsType'
  <2>1. items[tail] \in Packet
    BY DEF Shape, TypeOK
  <2> QED
    BY <2>1 DEF DispatchTake, CallsType, Shape, TypeOK
<1>3. OtherType' /\ DownIsEmpty'
  BY PopIsUp DEF DispatchTake, OtherType, Shape, TypeOK, DownIsEmpty
<1> QED
  BY <1>1, <1>2, <1>3 DEF Shape, TypeOK, RingType, OtherType, CallsType

LEMMA CallbackReturnShape ==
  ASSUME Shape, CallbackReturn
  PROVE  Shape'
<1>1. RingType' /\ HeadInStep'
  BY SameRing DEF CallbackReturn
<1>2. CallsType'
  BY ZeroIsPacket DEF CallbackReturn, CallsType, Shape, TypeOK
<1>3. OtherType' /\ out' \in Packet /\ DownIsEmpty'
  BY DEF CallbackReturn, OtherType, Shape, TypeOK, history, ring, DownIsEmpty
<1> QED
  BY <1>1, <1>2, <1>3 DEF Shape, TypeOK, RingType, OtherType, CallsType

LEMMA DispatchEndShape ==
  ASSUME Shape, DispatchEnd
  PROVE  Shape'
<1>1. RingType' /\ HeadInStep'
  BY SameRing DEF DispatchEnd
<1>2. CallsType'
  BY BoundAssumption DEF DispatchEnd, CallsType, Shape, TypeOK
<1>3. OtherType' /\ out' \in Packet /\ DownIsEmpty'
  BY DEF DispatchEnd, OtherType, Shape, TypeOK, history, ring, DownIsEmpty
<1> QED
  BY <1>1, <1>2, <1>3 DEF Shape, TypeOK, RingType, OtherType, CallsType

LEMMA StutterShape ==
  ASSUME Shape, UNCHANGED vars
  PROVE  Shape'
<1>1. RingType' /\ HeadInStep' /\ CallsType'
  BY SameRing, SameCalls DEF vars
<1>2. OtherType' /\ out' \in Packet /\ DownIsEmpty'
  BY DEF vars, OtherType, Shape, TypeOK, history, ring, DownIsEmpty
<1> QED
  BY <1>1, <1>2 DEF Shape, TypeOK, RingType, OtherType, CallsType

LEMMA NextShape == Shape /\ [Next]_vars => Shape'
<1> SUFFICES ASSUME Shape, [Next]_vars
             PROVE  Shape'
  OBVIOUS
<1> USE EspInitShape, EspDeinitShape, SetTransportShape, SetCallbackShape, TxShape,
        RxSubmitShape, RxPopShape, DispatchBeginShape, DispatchTakeShape,
        CallbackReturnShape, DispatchEndShape
<1>1. CASE Next
  BY <1>1, Zenon DEF Next
<1>2. CASE UNCHANGED vars
  BY <1>2, StutterShape
<1> QED
  BY <1>1, <1>2

(* Every variable keeps its type, the ring its shape, and a stack that is  *)
(* down holds nothing, whatever the depth, the frames and the nesting.     *)
THEOREM ShapeHolds == Spec => []Shape
<1>1. Init => Shape
  BY InitTypeOK DEF Shape
<1> QED
  BY <1>1, NextShape, PTL DEF Spec

(* Every variable of the receive path keeps its type.                      *)
THEOREM TypeCorrect == Spec => []TypeOK
<1>1. Shape => TypeOK
  BY DEF Shape
<1> QED
  BY <1>1, ShapeHolds, PTL

(* Pushes, pops and resets keep the indices and the count in step, and a   *)
(* stack that esp_hosted_deinit took down stays empty.                     *)
THEOREM RingKeepsShape == Spec => []RingShape
<1>1. Shape => RingShape
  BY DEF Shape, RingShape
<1> QED
  BY <1>1, ShapeHolds, PTL

-----------------------------------------------------------------------------
(* The order of the frames.  The k-th oldest packet's number:              *)
Num(k) == items[SlotAt(k)].id

(* Numbers grow along the ring, from what was handed out last to what was  *)
(* submitted last: this is what InOrder needs to be inductive.             *)
RingSorted ==
    /\ out.id <= submitted
    /\ \A k \in 0 .. count - 1 : out.id < Num(k) /\ Num(k) <= submitted
    /\ \A j, k \in 0 .. count - 1 : j < k => Num(j) < Num(k)

(* Only the innermost dispatch can be in its loop, and no callback works   *)
(* on a packet later than the one handed out last.                         *)
CallsSorted ==
    /\ \A i \in 1 .. MaxNest : i < level => pc[i] = "callback"
    /\ \A i \in 1 .. MaxNest : i > level => pc[i] = "loop"
    /\ \A i \in 1 .. level : pc[i] = "callback" => local[i].id <= out.id
    /\ NestedAreLater

LEMMA NumIsNat ==
  ASSUME TypeOK, NEW k \in Nat
  PROVE  Num(k) \in Nat
<1>1. SlotAt(k) \in 0 .. Depth - 1
  BY SlotInRange
<1>2. items[SlotAt(k)] \in Packet
  BY <1>1 DEF TypeOK
<1> QED
  BY <1>2, BoundAssumption DEF Packet, Num

LEMMA IdIsNat ==
  ASSUME NEW p \in Packet
  PROVE  p.id \in Nat
BY BoundAssumption DEF Packet

LEMMA PushSorted ==
  ASSUME Shape, RingSorted, NEW p \in Packet, p.id = submitted + 1,
         QueuePush(p), submitted' = submitted + 1, out' = out
  PROVE  RingSorted'
<1>1. /\ TypeOK /\ HeadInStep /\ count \in 0 .. Depth /\ Depth \in Nat
      /\ out.id \in Nat /\ submitted \in Nat
  BY IdIsNat, DepthAssumption DEF Shape, TypeOK
<1>2. CASE QueueFull
  <2>1. \A k \in 0 .. count - 1 : Num(k)' = Num(k)
    BY <1>2 DEF QueuePush, Num, SlotAt
  <2>2. count' = count
    BY <1>2 DEF QueuePush
  <2> QED
    BY <1>1, <2>1, <2>2, NumIsNat DEF RingSorted
<1>3. CASE ~QueueFull
  <2>1. /\ count < Depth /\ count' = count + 1 /\ tail' = tail
        /\ items' = [items EXCEPT ![SlotAt(count)] = p]
    BY <1>1, <1>3 DEF QueuePush, QueueFull, HeadInStep
  <2>2. \A k \in 0 .. count - 1 : SlotAt(k) # SlotAt(count)
    <3>1. /\ \A k \in 0 .. count - 1 : k \in 0 .. Depth - 1 /\ k # count
          /\ count \in 0 .. Depth - 1
      BY <1>1, <2>1
    <3> QED
      BY <1>1, <3>1, SlotInjective, Zenon
  <2>3. \A k \in 0 .. count - 1 : Num(k)' = Num(k)
    <3>1. \A k \in 0 .. count - 1 : SlotAt(k)' = SlotAt(k)
      BY <2>1 DEF SlotAt
    <3>2. \A k \in 0 .. count - 1 : SlotAt(k) \in 0 .. Depth - 1
      BY <1>1, SlotInRange
    <3>3. items \in [0 .. Depth - 1 -> Packet]
      BY <1>1 DEF TypeOK
    <3>4. \A k \in 0 .. count - 1 : items'[SlotAt(k)] = items[SlotAt(k)]
      BY <2>1, <2>2, <3>2, <3>3
    <3> QED
      BY <3>1, <3>4 DEF Num
  <2>4. items'[SlotAt(count)] = p
    BY <1>1, <2>1, SlotInRange DEF TypeOK
  <2>5. \A k \in {count} : Num(k)' = submitted + 1
    BY <2>1, <2>4 DEF Num, SlotAt
  <2>6. \A k \in 0 .. count' - 1 : k \in 0 .. count - 1 \/ k = count
    BY <1>1, <2>1
  <2> QED
    BY <1>1, <2>1, <2>3, <2>5, <2>6, NumIsNat DEF RingSorted
<1> QED
  BY <1>2, <1>3

LEMMA PopSorted ==
  ASSUME Shape, RingSorted, QueuePop, submitted' = submitted
  PROVE  RingSorted' /\ out'.id > out.id /\ out'.id = Num(0)
<1>1. /\ TypeOK /\ count \in 1 .. Depth /\ out.id \in Nat /\ submitted \in Nat
      /\ count' = count - 1 /\ tail \in 0 .. Depth - 1 /\ Depth \in Nat
  BY IdIsNat, DepthAssumption DEF Shape, TypeOK, QueuePop
<1>2. SlotAt(0) = tail
  BY <1>1, SMT DEF SlotAt
<1>3. out'.id = Num(0)
  BY <1>2 DEF QueuePop, Num
<1>4. \A k \in 0 .. Depth - 1 : Num(k)' = Num(k + 1)
  BY <1>1, PopSlot DEF Num, QueuePop
<1>5. \A k \in 0 .. count' - 1 : k + 1 \in 1 .. count - 1 /\ k \in 0 .. Depth - 1
  BY <1>1
<1>6. 0 \in 0 .. count - 1 /\ \A k \in 1 .. count - 1 : k \in 0 .. count - 1 /\ Num(0) < Num(k)
  BY <1>1 DEF RingSorted
<1>7. \A k \in 0 .. count' - 1 : Num(0) < Num(k)' /\ Num(k)' <= submitted
  BY <1>4, <1>5, <1>6 DEF RingSorted
<1>8. \A j, k \in 0 .. count' - 1 : j < k => Num(j)' < Num(k)'
  BY <1>1, <1>4, <1>5, <1>6 DEF RingSorted
<1>9. Num(0) > out.id /\ Num(0) <= submitted
  BY <1>1, <1>6, NumIsNat DEF RingSorted
<1> QED
  BY <1>3, <1>7, <1>8, <1>9 DEF RingSorted

LEMMA ResetSorted ==
  ASSUME Shape, RingSorted, count' = 0, UNCHANGED <<out, submitted>>
  PROVE  RingSorted'
BY DEF RingSorted

LEMMA SameSorted ==
  ASSUME Shape, RingSorted, UNCHANGED <<ring, out, submitted>>
  PROVE  RingSorted'
BY DEF RingSorted, Num, SlotAt, ring

Ordered == Shape /\ RingSorted /\ CallsSorted

LEMMA SameCallsSorted ==
  ASSUME Ordered, UNCHANGED <<calls, out>>
  PROVE  CallsSorted'
BY DEF Ordered, CallsSorted, NestedAreLater, calls

(* A pop outside every dispatch, or in a callback, only raises out.        *)
LEMMA RxPopCallsSorted ==
  ASSUME Ordered, RxPop
  PROVE  CallsSorted'
<1>1. out'.id > out.id
  BY PopSorted DEF Ordered, RxPop
<1>2. /\ TypeOK /\ out.id \in Nat /\ out'.id \in Nat
      /\ \A i \in 1 .. MaxNest : local[i].id \in Nat
      /\ level \in 0 .. MaxNest /\ MaxNest \in Nat
  <2>1. TypeOK /\ out' \in Packet
    BY PopRing DEF Ordered, Shape, RxPop
  <2>2. \A i \in 1 .. MaxNest : local[i] \in Packet
    BY <2>1 DEF TypeOK
  <2> QED
    BY <2>1, <2>2, IdIsNat, BoundAssumption DEF TypeOK
<1>3. UNCHANGED calls
  BY DEF RxPop
<1>4. \A i \in 1 .. level : pc[i] = "callback" => local[i].id <= out'.id
  BY <1>1, <1>2 DEF Ordered, CallsSorted
<1> QED
  BY <1>3, <1>4 DEF Ordered, CallsSorted, NestedAreLater, calls

LEMMA DispatchTakeCallsSorted ==
  ASSUME Ordered, DispatchTake
  PROVE  CallsSorted'
<1>1. out'.id > out.id /\ out' = items[tail]
  BY PopSorted DEF Ordered, DispatchTake, QueuePop
<1>2. /\ TypeOK /\ out.id \in Nat /\ out'.id \in Nat
      /\ \A i \in 1 .. MaxNest : local[i].id \in Nat
      /\ level \in 1 .. MaxNest /\ MaxNest \in Nat /\ level' = level
  <2>1. TypeOK /\ out' \in Packet
    BY PopRing DEF Ordered, Shape, DispatchTake
  <2>2. \A i \in 1 .. MaxNest : local[i] \in Packet
    BY <2>1 DEF TypeOK
  <2> QED
    BY <2>1, <2>2, IdIsNat, BoundAssumption DEF TypeOK, DispatchTake
<1>3. \A i \in 1 .. level : pc[i] = "callback" => local[i].id < out'.id
  BY <1>1, <1>2 DEF Ordered, CallsSorted
<1>4. CASE HasClient(items[tail])
  <2>1. /\ pc' = [pc EXCEPT ![level] = "callback"]
        /\ local' = [local EXCEPT ![level] = out']
    BY <1>1, <1>4 DEF DispatchTake
  <2>2. /\ pc \in [1 .. MaxNest -> {"loop", "callback"}]
        /\ local \in [1 .. MaxNest -> Packet]
    BY <1>2 DEF TypeOK
  <2>3. /\ pc'[level] = "callback" /\ local'[level] = out'
        /\ \A i \in 1 .. MaxNest : i # level => pc'[i] = pc[i] /\ local'[i] = local[i]
    BY <1>2, <2>1, <2>2
  <2>4. \A i \in 1 .. level : i # level => i \in 1 .. MaxNest /\ i < level /\ pc[i] = "callback"
    BY <1>2 DEF Ordered, CallsSorted
  <2>5. /\ \A i \in 1 .. MaxNest : i < level => pc'[i] = "callback"
        /\ \A i \in 1 .. MaxNest : i > level => pc'[i] = "loop"
    BY <1>2, <2>3 DEF Ordered, CallsSorted
  <2>6. \A i \in 1 .. level : local'[i].id <= out'.id
    BY <1>2, <1>3, <2>3, <2>4
  <2>7. \A i, j \in 1 .. level : i < j => local'[i].id < local'[j].id
    <3> SUFFICES ASSUME NEW i \in 1 .. level, NEW j \in 1 .. level, i < j
                 PROVE  local'[i].id < local'[j].id
      OBVIOUS
    <3>1. i # level /\ i < level
      BY <1>2
    <3>2. CASE j = level
      BY <1>3, <2>3, <2>4, <3>1, <3>2
    <3>3. CASE j # level
      BY <2>3, <2>4, <3>1, <3>3 DEF Ordered, CallsSorted, NestedAreLater
    <3> QED
      BY <3>2, <3>3
  <2> QED
    BY <1>2, <2>5, <2>6, <2>7 DEF CallsSorted, NestedAreLater
<1>5. CASE ~HasClient(items[tail])
  <2>1. UNCHANGED <<pc, local>>
    BY <1>5 DEF DispatchTake
  <2>2. \A i \in 1 .. level : pc[i] = "callback" => local[i].id <= out'.id
    BY <1>2, <1>3
  <2> QED
    BY <1>2, <2>1, <2>2 DEF Ordered, CallsSorted, NestedAreLater
<1> QED
  BY <1>4, <1>5

LEMMA CallbackReturnCallsSorted ==
  ASSUME Ordered, CallbackReturn
  PROVE  CallsSorted'
<1>1. /\ pc \in [1 .. MaxNest -> {"loop", "callback"}]
      /\ local \in [1 .. MaxNest -> Packet]
      /\ level \in 1 .. MaxNest /\ MaxNest \in Nat /\ level' = level /\ out' = out
  BY BoundAssumption DEF Ordered, Shape, TypeOK, CallbackReturn, history
<1>2. /\ pc'[level] = "loop"
      /\ \A i \in 1 .. MaxNest : i # level => pc'[i] = pc[i] /\ local'[i] = local[i]
  BY <1>1 DEF CallbackReturn
<1>3. \A i \in 1 .. level : i \in 1 .. MaxNest
  BY <1>1
<1>4. /\ \A i \in 1 .. MaxNest : i < level => pc'[i] = "callback"
      /\ \A i \in 1 .. MaxNest : i > level => pc'[i] = "loop"
  BY <1>1, <1>2 DEF Ordered, CallsSorted
<1>5. \A i \in 1 .. level : pc'[i] = "callback" => local'[i].id <= out.id
  BY <1>1, <1>2, <1>3 DEF Ordered, CallsSorted
<1>6. NestedAreLater'
  BY <1>1, <1>2, <1>3 DEF Ordered, CallsSorted, NestedAreLater
<1> QED
  BY <1>1, <1>4, <1>5, <1>6 DEF CallsSorted

LEMMA DispatchBeginCallsSorted ==
  ASSUME Ordered, DispatchBegin
  PROVE  CallsSorted'
<1>1. /\ level \in 0 .. MaxNest - 1 /\ MaxNest \in Nat /\ level' = level + 1
      /\ UNCHANGED <<pc, local, out>>
  BY BoundAssumption DEF Ordered, Shape, TypeOK, DispatchBegin, history
<1>2. level > 0 => pc[level] = "callback"
  BY DEF DispatchBegin, AppRuns
<1>3. pc[level + 1] = "loop"
  BY <1>1 DEF Ordered, CallsSorted
<1>4. /\ \A i \in 1 .. MaxNest : i < level' => pc'[i] = "callback"
      /\ \A i \in 1 .. MaxNest : i > level' => pc'[i] = "loop"
  BY <1>1, <1>2 DEF Ordered, CallsSorted
<1>5. \A i \in 1 .. level' : pc'[i] = "callback" => i \in 1 .. level
  BY <1>1, <1>3
<1> QED
  BY <1>1, <1>4, <1>5 DEF Ordered, CallsSorted, NestedAreLater

LEMMA DispatchEndCallsSorted ==
  ASSUME Ordered, DispatchEnd
  PROVE  CallsSorted'
<1>1. /\ level \in 1 .. MaxNest /\ MaxNest \in Nat /\ level' = level - 1
      /\ pc[level] = "loop" /\ UNCHANGED <<pc, local, out>>
  BY BoundAssumption DEF Ordered, Shape, TypeOK, DispatchEnd, history
<1>2. /\ \A i \in 1 .. MaxNest : i < level' => pc'[i] = "callback"
      /\ \A i \in 1 .. MaxNest : i > level' => pc'[i] = "loop"
  BY <1>1 DEF Ordered, CallsSorted
<1>3. \A i \in 1 .. level' : i \in 1 .. level
  BY <1>1
<1> QED
  BY <1>1, <1>2, <1>3 DEF Ordered, CallsSorted, NestedAreLater

LEMMA InitOrdered == Init => Ordered
<1> SUFFICES ASSUME Init
             PROVE  Ordered
  OBVIOUS
<1>1. RingSorted
  BY DEF Init, RingSorted, Zero
<1>2. CallsSorted
  BY BoundAssumption DEF Init, CallsSorted, NestedAreLater
<1> QED
  BY <1>1, <1>2, InitTypeOK DEF Ordered, Shape

LEMMA NextOrdered == Ordered /\ [Next]_vars => Ordered' /\ (out' # out => out'.id > out.id)
<1> SUFFICES ASSUME Ordered, [Next]_vars
             PROVE  RingSorted' /\ CallsSorted' /\ (out' # out => out'.id > out.id)
  BY NextShape DEF Ordered
<1>0. Shape /\ RingSorted
  BY DEF Ordered
<1>1. ASSUME NEW t \in TransportArg, EspInit(t) \/ SetTransport(t)
      PROVE  RingSorted' /\ CallsSorted' /\ out' = out
  BY <1>0, <1>1, ResetSorted, SameSorted, SameCallsSorted
     DEF EspInit, SetTransport, ResetState, history
<1>2. CASE EspDeinit
  BY <1>0, <1>2, ResetSorted, SameCallsSorted DEF EspDeinit, ResetState, history
<1>3. ASSUME NEW s \in Client, NEW registered \in BOOLEAN, SetCallback(s, registered)
      PROVE  RingSorted' /\ CallsSorted' /\ out' = out
  BY <1>0, <1>3, SameSorted, SameCallsSorted DEF SetCallback, history
<1>4. CASE Tx
  BY <1>0, <1>4, SameSorted, SameCallsSorted DEF Tx, history
<1>5. ASSUME NEW f \in Frame, RxSubmit(f)
      PROVE  RingSorted' /\ CallsSorted' /\ out' = out
  <2> DEFINE p == [id |-> submitted + 1, frame |-> f]
  <2>1. p \in Packet /\ p.id = submitted + 1 /\ QueuePush(p)
    BY <1>0, <1>5, BoundAssumption DEF RxSubmit, Packet, Shape, TypeOK
  <2>2. submitted' = submitted + 1 /\ out' = out /\ UNCHANGED calls
    BY <1>5 DEF RxSubmit
  <2> HIDE DEF p
  <2>3. RingSorted'
    BY <1>0, <2>1, <2>2, PushSorted
  <2>4. CallsSorted'
    BY <2>2, SameCallsSorted
  <2> QED
    BY <2>2, <2>3, <2>4
<1>6. CASE RxPop
  <2>1. QueuePop /\ submitted' = submitted
    BY <1>6 DEF RxPop
  <2> QED
    BY <1>0, <1>6, <2>1, PopSorted, RxPopCallsSorted
<1>7. CASE DispatchTake
  <2>1. QueuePop /\ submitted' = submitted
    BY <1>7 DEF DispatchTake
  <2> QED
    BY <1>0, <1>7, <2>1, PopSorted, DispatchTakeCallsSorted
<1>8. CASE DispatchBegin
  BY <1>0, <1>8, SameSorted, DispatchBeginCallsSorted DEF DispatchBegin, history
<1>9. CASE CallbackReturn
  BY <1>0, <1>9, SameSorted, CallbackReturnCallsSorted DEF CallbackReturn, history
<1>10. CASE DispatchEnd
  BY <1>0, <1>10, SameSorted, DispatchEndCallsSorted DEF DispatchEnd, history
<1>11. CASE UNCHANGED vars
  BY <1>0, <1>11, SameSorted, SameCallsSorted DEF vars, history
<1> QED
  BY <1>1, <1>2, <1>3, <1>4, <1>5, <1>6, <1>7, <1>8, <1>9, <1>10, <1>11, Zenon DEF Next

LEMMA OrderedHolds == Spec => []Ordered
<1>1. Ordered /\ [Next]_vars => Ordered'
  BY NextOrdered
<1> QED
  BY <1>1, InitOrdered, PTL DEF Spec

(* Frames leave the ring in the order they were submitted, each at most    *)
(* once, whoever takes them.                                               *)
THEOREM FramesLeaveInOrder == Spec => InOrder
<1>1. Ordered /\ [Next]_vars => [out' # out => out'.id > out.id]_vars
  BY NextOrdered
<1> QED
  BY <1>1, OrderedHolds, PTL DEF Spec, InOrder

(* Callbacks that are active at once work on frames in submission order.   *)
THEOREM NestedCallbacksInOrder == Spec => []NestedAreLater
<1>1. Ordered => NestedAreLater
  BY DEF Ordered, CallsSorted
<1> QED
  BY <1>1, OrderedHolds, PTL

-----------------------------------------------------------------------------
(* The refinement of HostedFifo.                                           *)

LEMMA QueuedIsSeq ==
  ASSUME TypeOK
  PROVE  /\ Queued \in Seq(Packet)
         /\ Len(Queued) = count
         /\ count \in Nat
         /\ \A k \in 1 .. count : Queued[k] = items[SlotAt(k - 1)]
<1>1. count \in Nat /\ items \in [0 .. Depth - 1 -> Packet]
  BY DepthAssumption DEF TypeOK
<1>2. \A k \in 1 .. count : k - 1 \in Nat
  BY <1>1
<1>3. \A k \in 1 .. count : items[SlotAt(k - 1)] \in Packet
  BY <1>1, <1>2, SlotInRange
<1> QED
  BY <1>1, <1>3 DEF Queued

LEMMA PushAppends ==
  ASSUME Shape, NEW p \in Packet, ~QueueFull, QueuePush(p)
  PROVE  Queued' = Append(Queued, p)
<1>1. /\ TypeOK /\ HeadInStep /\ count \in 0 .. Depth - 1 /\ Depth \in Nat
      /\ count' = count + 1 /\ tail' = tail
      /\ items' = [items EXCEPT ![SlotAt(count)] = p]
      /\ items \in [0 .. Depth - 1 -> Packet]
  BY DepthAssumption DEF Shape, TypeOK, QueuePush, QueueFull, HeadInStep
<1>2. \A k \in 0 .. count : SlotAt(k) \in 0 .. Depth - 1 /\ k \in 0 .. Depth - 1
  BY <1>1, SlotInRange
<1>3. \A k \in 0 .. count - 1 : SlotAt(k) # SlotAt(count)
  <2>1. \A k \in 0 .. count - 1 : k \in 0 .. Depth - 1 /\ k # count
    BY <1>1
  <2> QED
    BY <1>1, <2>1, SlotInjective, Zenon
<1>4. /\ \A k \in 0 .. count - 1 : items'[SlotAt(k)] = items[SlotAt(k)]
      /\ items'[SlotAt(count)] = p
  <2>1. \A k \in 0 .. count - 1 : SlotAt(k) \in 0 .. Depth - 1
    BY <1>1, SlotInRange
  <2>2. SlotAt(count) \in 0 .. Depth - 1
    BY <1>1, SlotInRange
  <2> QED
    BY <1>1, <1>3, <2>1, <2>2
<1>5. \A k \in Nat : SlotAt(k)' = SlotAt(k)
  BY <1>1 DEF SlotAt
<1>6. Queued' = [k \in 1 .. count + 1 |-> items'[SlotAt(k - 1)]]
  <2>1. \A k \in 1 .. count + 1 : k - 1 \in Nat
    BY <1>1
  <2>2. Queued' = [k \in 1 .. count + 1 |-> items'[(tail + (k - 1)) % Depth]]
    BY <1>1 DEF Queued, SlotAt
  <2> QED
    BY <2>2 DEF SlotAt
<1>7. /\ Queued \in Seq(Packet) /\ Len(Queued) = count
      /\ \A k \in 1 .. count : Queued[k] = items[SlotAt(k - 1)]
  BY <1>1, QueuedIsSeq
<1>8. \A k \in 1 .. count : k - 1 \in 0 .. count - 1
  BY <1>1
<1>9. \A k \in 1 .. count : Queued'[k] = Queued[k]
  BY <1>1, <1>4, <1>6, <1>7, <1>8
<1>10. Queued'[count + 1] = p
  BY <1>1, <1>4, <1>6
<1>11. Queued' \in Seq(Packet) /\ Len(Queued') = count + 1
  <2>1. \A k \in 1 .. count + 1 : Queued'[k] \in Packet
    BY <1>1, <1>7, <1>9, <1>10, ElementOfSeq
  <2> QED
    BY <1>1, <1>6, <2>1
<1>12. /\ Append(Queued, p) \in Seq(Packet) /\ Len(Append(Queued, p)) = count + 1
       /\ \A k \in 1 .. count : Append(Queued, p)[k] = Queued[k]
       /\ Append(Queued, p)[count + 1] = p
  BY <1>1, <1>7, AppendProperties
<1>13. \A k \in 1 .. count + 1 : Queued'[k] = Append(Queued, p)[k]
  BY <1>1, <1>9, <1>10, <1>12
<1> QED
  BY <1>11, <1>12, <1>13, SeqEqual

LEMMA PopTakesHead ==
  ASSUME Shape, QueuePop
  PROVE  /\ Queued # <<>>
         /\ out' = Head(Queued)
         /\ Queued' = Tail(Queued)
<1>1. /\ TypeOK /\ count \in 1 .. Depth /\ Depth \in Nat
      /\ count' = count - 1 /\ items' = items /\ tail \in 0 .. Depth - 1
  BY DepthAssumption DEF Shape, TypeOK, QueuePop
<1>2. /\ Queued \in Seq(Packet) /\ Len(Queued) = count
      /\ \A k \in 1 .. count : Queued[k] = items[SlotAt(k - 1)]
  BY <1>1, QueuedIsSeq
<1>3. SlotAt(0) = tail
  BY <1>1, SMT DEF SlotAt
<1>4. out' = Head(Queued) /\ Queued # <<>>
  BY <1>1, <1>2, <1>3 DEF QueuePop
<1>5. \A k \in 0 .. Depth - 1 : SlotAt(k)' = SlotAt(k + 1)
  BY <1>1, PopSlot
<1>6. \A k \in 1 .. count - 1 : (tail' + (k - 1)) % Depth = SlotAt(k)
  <2>1. \A k \in 1 .. count - 1 : k - 1 \in 0 .. Depth - 1 /\ (k - 1) + 1 = k
    BY <1>1
  <2>2. \A k \in 0 .. Depth - 1 : (tail' + k) % Depth = SlotAt(k + 1)
    BY <1>5 DEF SlotAt
  <2> QED
    BY <2>1, <2>2
<1>7. Queued' = [k \in 1 .. count - 1 |-> items[(tail' + (k - 1)) % Depth]]
  BY <1>1 DEF Queued, SlotAt
<1>8. Queued' = [k \in 1 .. count - 1 |-> items[SlotAt(k)]]
  BY <1>6, <1>7
<1>9. \A k \in 1 .. count - 1 : k + 1 \in 1 .. count /\ (k + 1) - 1 = k
  BY <1>1
<1>10. \A k \in 1 .. count - 1 : Queued'[k] = Queued[k + 1]
  BY <1>2, <1>8, <1>9
<1>11. Queued' \in Seq(Packet) /\ Len(Queued') = count - 1
  <2>1. \A k \in 1 .. count - 1 : Queued'[k] \in Packet
    BY <1>2, <1>9, <1>10, ElementOfSeq
  <2> QED
    BY <1>1, <1>8, <2>1
<1>12. /\ Tail(Queued) \in Seq(Packet) /\ Len(Tail(Queued)) = count - 1
       /\ \A k \in 1 .. count - 1 : Tail(Queued)[k] = Queued[k + 1]
  BY <1>2, <1>4, HeadTailProperties
<1>13. Queued' = Tail(Queued)
  BY <1>10, <1>11, <1>12, SeqEqual
<1> QED
  BY <1>4, <1>13

LEMMA ResetEmpties ==
  ASSUME count' = 0
  PROVE  Queued' = <<>>
BY DEF Queued

LEMMA SameQueued ==
  ASSUME UNCHANGED ring
  PROVE  UNCHANGED <<Queued, dropped>>
BY DEF ring, Queued, SlotAt

(* Every step of the ring is a step of the FIFO or leaves it alone.        *)
LEMMA StepRefines == Shape /\ [Next]_vars => [Fifo!Next]_(Fifo!vars)
<1> SUFFICES ASSUME Shape, [Next]_vars
             PROVE  Fifo!Next \/ UNCHANGED <<initialized, Queued, dropped, out>>
  BY DEF Fifo!vars
<1> USE DEF Fifo!Next
<1>0. TypeOK /\ count \in 0 .. Depth /\ Depth \in Nat
  BY DepthAssumption DEF Shape, TypeOK
<1>1. ASSUME NEW t \in TransportArg, EspInit(t)
      PROVE  Fifo!Restart
  BY <1>1, ResetEmpties DEF EspInit, ResetState, Fifo!Restart
<1>2. CASE EspDeinit
  BY <1>2, ResetEmpties DEF EspDeinit, ResetState, history, Fifo!Restart
<1>3. ASSUME NEW t \in TransportArg, SetTransport(t)
      PROVE  UNCHANGED <<initialized, Queued, dropped, out>>
  BY <1>3, SameQueued DEF SetTransport, history
<1>4. ASSUME NEW s \in Client, NEW registered \in BOOLEAN, SetCallback(s, registered)
      PROVE  UNCHANGED <<initialized, Queued, dropped, out>>
  BY <1>4, SameQueued DEF SetCallback, history
<1>5. CASE Tx \/ DispatchBegin \/ CallbackReturn \/ DispatchEnd
  BY <1>5, SameQueued DEF Tx, DispatchBegin, CallbackReturn, DispatchEnd, history
<1>6. ASSUME NEW f \in Frame, RxSubmit(f)
      PROVE  Fifo!Next
  <2> DEFINE p == [id |-> submitted + 1, frame |-> f]
  <2>1. p \in Packet /\ QueuePush(p) /\ initialized /\ UNCHANGED <<initialized, out>>
    BY <1>6, BoundAssumption DEF RxSubmit, Packet, Shape, TypeOK
  <2> HIDE DEF p
  <2>2. Len(Queued) = count
    BY <1>0, QueuedIsSeq
  <2>3. CASE QueueFull
    <3>1. count = Depth
      BY <1>0, <2>3 DEF QueueFull
    <3>2. dropped' = dropped + 1 /\ UNCHANGED Queued
      BY <2>1, <2>3 DEF QueuePush, Queued, SlotAt
    <3> QED
      BY <2>1, <2>2, <3>1, <3>2 DEF Fifo!Refuse
  <2>4. CASE ~QueueFull
    <3>1. Len(Queued) < Depth
      BY <1>0, <2>2, <2>4 DEF QueueFull
    <3>2. dropped' = dropped
      BY <2>1, <2>4 DEF QueuePush
    <3>3. Fifo!Accept(p)
      BY <2>1, <2>4, <3>1, <3>2, PushAppends DEF Fifo!Accept
    <3> QED
      BY <2>1, <3>3
  <2> QED
    BY <2>3, <2>4
<1>7. CASE RxPop \/ DispatchTake
  <2>1. QueuePop /\ UNCHANGED initialized
    BY <1>7 DEF RxPop, DispatchTake
  <2> QED
    BY <2>1, PopIsUp, PopTakesHead DEF Fifo!HandOut, QueuePop
<1>8. CASE UNCHANGED vars
  BY <1>8, SameQueued DEF vars, history
<1> QED
  BY <1>1, <1>2, <1>3, <1>4, <1>5, <1>6, <1>7, <1>8 DEF Next

(* The ring, its callers and the nested dispatches implement the bounded   *)
(* FIFO of HostedFifo.                                                     *)
THEOREM RingRefinesFifo == Spec => RefinesFifo
<1>1. Init => Fifo!Init
  <2> SUFFICES ASSUME Init
               PROVE  Fifo!Init
    OBVIOUS
  <2>1. Queued = <<>>
    BY DEF Init, Queued
  <2> QED
    BY <2>1, ZeroIsPacket DEF Init, Fifo!Init
<1> QED
  BY <1>1, StepRefines, ShapeHolds, PTL DEF Spec, RefinesFifo, Fifo!Spec
=============================================================================
