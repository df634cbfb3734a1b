---------------------------- MODULE HostedQueue -----------------------------
(***************************************************************************)
(* drivers/esp_hosted/esp_hosted.c: the transport-independent half of the  *)
(* ESP-Hosted stack.  A transport submits decoded frames into a ring of    *)
(* Depth slots; esp_hosted_dispatch_rx pops them and calls the client that *)
(* is registered for the frame's interface.  There is one thread, but a    *)
(* callback may call any function of the API again: poll and submit more   *)
(* frames, dispatch recursively, or take the whole stack down and up.      *)
(* The model keeps one activation record per nested esp_hosted_dispatch_rx.*)
(***************************************************************************)
EXTENDS Naturals, FiniteSets, Sequences

CONSTANTS
    Depth,          \* ESP_HOSTED_RX_QUEUE_DEPTH, 8 by default
    PayloadMax,     \* ESP_HOSTED_RX_PAYLOAD_MAX, 1600 by default
    Frame,          \* the decoded frames a transport may submit
    Client,         \* the callback slots the application ever registers
    SeqMod,         \* s_tx_seq_num is a uint16_t: 2^16
    MaxSubmit,      \* bound: frames submitted in one behaviour
    MaxInits,       \* bound: calls of esp_hosted_init in one behaviour
    MaxNest         \* bound: nested activations of esp_hosted_dispatch_rx

IfType == {"INVALID", "STA", "AP", "SERIAL", "HCI", "PRIV", "TEST", "ETH"}
HciType == {"NONE", "CMD", "ACL", "SCO", "EVT"}

(* A decoded frame: hci is info.hci_pkt_type, first stands for payload[0]  *)
(* read as an H4 packet type.                                              *)
FrameType == [if_type : IfType, hci : HciType, first : HciType, len : Nat]

Slot == {"lwip", "ctrl", "priv", "ble_evt", "ble_acl"}

(* What a caller passes as a transport: NULL, one whose tx is NULL, or one *)
(* that can transmit.                                                      *)
TransportArg == {"NULL", "no_tx", "ready"}

(* The indices and the count of the ring are uint8_t.                      *)
ASSUME DepthAssumption == Depth \in 1 .. 255
ASSUME FrameAssumption == Frame \subseteq FrameType
ASSUME ClientAssumption == Client \subseteq Slot
ASSUME BoundAssumption ==
    /\ MaxSubmit \in Nat /\ MaxInits \in Nat
    /\ MaxNest \in Nat \ {0}
    /\ PayloadMax \in Nat
    /\ SeqMod \in Nat \ {0}

(* The contents of a slot after memset(0); id numbers the submissions, it  *)
(* tells apart frames with the same contents.                              *)
ZeroFrame == [if_type |-> "INVALID", hci |-> "NONE", first |-> "NONE", len |-> 0]
Packet == [id : 0 .. MaxSubmit, frame : Frame \cup {ZeroFrame}]
Zero == [id |-> 0, frame |-> ZeroFrame]

VARIABLES
    initialized,    \* s_initialized
    transport,      \* s_transport: zeroed, or able to transmit
    items,          \* s_rx_queue.items
    head,           \* s_rx_queue.head: the slot the next push writes
    tail,           \* s_rx_queue.tail: the slot the next pop reads
    count,          \* s_rx_queue.count
    dropped,        \* s_rx_queue.dropped
    txSeq,          \* s_tx_seq_num
    cb,             \* which of the five callback slots have a function
    level,          \* active calls of esp_hosted_dispatch_rx, innermost last
    pc,             \* where each of them is: in its loop, or in a callback
    local,          \* the packet variable of each of them
    out,            \* history: the packet handed out last, by pop or dispatch
    submitted,      \* history: frames that reached esp_hosted_queue_push
    inits           \* history: calls of esp_hosted_init

ring == <<items, head, tail, count, dropped>>
calls == <<level, pc, local>>
history == <<out, submitted, inits>>
vars == <<initialized, transport, ring, txSeq, cb, calls, history>>

Init ==
    /\ initialized = FALSE
    /\ transport = "NULL"
    /\ items = [i \in 0 .. Depth - 1 |-> Zero]
    /\ head = 0 /\ tail = 0 /\ count = 0 /\ dropped = 0
    /\ txSeq = 0
    /\ cb = [s \in Slot |-> FALSE]
    /\ level = 0
    /\ pc = [l \in 1 .. MaxNest |-> "loop"]
    /\ local = [l \in 1 .. MaxNest |-> Zero]
    /\ out = Zero /\ submitted = 0 /\ inits = 0

-----------------------------------------------------------------------------
(* Control is with the application, outside the stack or in a callback.    *)
AppRuns == level > 0 => pc[level] = "callback"

NextSlot(i) == (i + 1) % Depth

(* Mutant: the reset forgets the index of the writer.                      *)
ResetKeepsHead ==
    /\ items' = [i \in 0 .. Depth - 1 |-> Zero]
    /\ head' = head
    /\ tail' = 0 /\ count' = 0 /\ dropped' = 0
    /\ txSeq' = 0
    /\ cb' = [s \in Slot |-> FALSE]

(* Mutant: the reset forgets the counter of refused frames.                *)
ResetKeepsDropped ==
    /\ items' = [i \in 0 .. Depth - 1 |-> Zero]
    /\ head' = 0 /\ tail' = 0 /\ count' = 0
    /\ dropped' = dropped
    /\ txSeq' = 0
    /\ cb' = [s \in Slot |-> FALSE]

(* Everything esp_hosted_reset_state clears except s_initialized, which    *)
(* both its callers set.                                                   *)
ResetState ==
    /\ items' = [i \in 0 .. Depth - 1 |-> Zero]
    /\ head' = 0 /\ tail' = 0 /\ count' = 0 /\ dropped' = 0
    /\ txSeq' = 0
    /\ cb' = [s \in Slot |-> FALSE]

(* A transport without a tx function is refused by set_transport, and      *)
(* NULL is the same as no transport: both leave an initialised stack bare. *)
EspInit(t) ==
    /\ AppRuns
    /\ inits < MaxInits
    /\ inits' = inits + 1
    /\ ResetState
    /\ initialized' = TRUE
    /\ transport' = IF t = "ready" THEN "ready" ELSE "NULL"
    /\ UNCHANGED <<calls, out, submitted>>

(* Mutant: deinit only lowers the flag and drops the transport.            *)
EspDeinitKeepsQueue ==
    /\ AppRuns
    /\ initialized' = FALSE
    /\ transport' = "NULL"
    /\ UNCHANGED <<ring, txSeq, cb, calls, history>>

EspDeinit ==
    /\ AppRuns
    /\ ResetState
    /\ initialized' = FALSE
    /\ transport' = "NULL"
    /\ UNCHANGED <<calls, history>>

(* NULL detaches; a non-NULL transport needs a tx function.                *)
SetTransport(t) ==
    /\ AppRuns
    /\ initialized
    /\ t # "no_tx"
    /\ transport' = t
    /\ UNCHANGED <<initialized, ring, txSeq, cb, calls, history>>

(* The five setters; none of them looks at s_initialized.                  *)
SetCallback(s, registered) ==
    /\ AppRuns
    /\ cb' = [cb EXCEPT ![s] = registered]
    /\ UNCHANGED <<initialized, transport, ring, txSeq, calls, history>>

(* esp_hosted_tx_common: the number is consumed before the transport is    *)
(* called and whatever the transport returns.                              *)
Tx ==
    /\ AppRuns
    /\ initialized
    /\ transport = "ready"
    /\ txSeq' = (txSeq + 1) % SeqMod
    /\ UNCHANGED <<initialized, transport, ring, cb, calls, history>>

-----------------------------------------------------------------------------
(* Mutant: the test for a full ring is off by one.                         *)
QueueFullLate == count > Depth

QueueFull == count >= Depth

(* Mutant: a full ring overwrites its oldest packet and leaves the reader. *)
QueuePushOverwrites(p) ==
    /\ items' = [items EXCEPT ![head] = p]
    /\ head' = NextSlot(head)
    /\ count' = IF QueueFull THEN count ELSE count + 1
    /\ UNCHANGED <<tail, dropped>>

QueuePush(p) ==
    \/ /\ QueueFull
       /\ dropped' = dropped + 1
       /\ UNCHANGED <<items, head, tail, count>>
    \/ /\ ~QueueFull
       /\ items' = [items EXCEPT ![head] = p]
       /\ head' = NextSlot(head)
       /\ count' = count + 1
       /\ UNCHANGED <<tail, dropped>>

QueuePop ==
    /\ count > 0
    /\ out' = items[tail]
    /\ tail' = NextSlot(tail)
    /\ count' = count - 1
    /\ UNCHANGED <<items, head, dropped>>

(* esp_hosted_rx_submit: a frame that is too long is refused unseen and is *)
(* not counted as dropped.                                                 *)
RxSubmit(f) ==
    /\ AppRuns
    /\ initialized
    /\ f.len <= PayloadMax
    /\ submitted < MaxSubmit
    /\ submitted' = submitted + 1
    /\ QueuePush([id |-> submitted + 1, frame |-> f])
    /\ UNCHANGED <<initialized, transport, txSeq, cb, calls, out, inits>>

RxPop ==
    /\ AppRuns
    /\ initialized
    /\ QueuePop
    /\ UNCHANGED <<initialized, transport, txSeq, cb, calls, submitted, inits>>

-----------------------------------------------------------------------------
(* The packet type an HCI frame is routed by: the header's, or that of an  *)
(* H4 payload of at least two bytes when the header's is neither.          *)
HciRoute(f) ==
    IF f.hci \in {"EVT", "ACL"} THEN f.hci
    ELSE IF f.len > 1 THEN f.first ELSE "NONE"

(* The callback slots esp_hosted_dispatch_one selects: one or none.        *)
Route(f) ==
    {s \in Slot :
        \/ s = "lwip" /\ f.if_type \in {"STA", "AP", "ETH"}
        \/ s = "ctrl" /\ f.if_type = "SERIAL"
        \/ s = "priv" /\ f.if_type = "PRIV"
        \/ s = "ble_evt" /\ f.if_type = "HCI" /\ HciRoute(f) = "EVT"
        \/ s = "ble_acl" /\ f.if_type = "HCI" /\ HciRoute(f) = "ACL"}

HasClient(p) == \E s \in Route(p.frame) : cb[s]

(* Mutant: dispatch is gated on a transport, like esp_hosted_poll.         *)
DispatchBeginAttached ==
    /\ AppRuns
    /\ initialized
    /\ transport = "ready"
    /\ level < MaxNest
    /\ level' = level + 1
    /\ UNCHANGED <<initialized, transport, ring, txSeq, cb, pc, local, history>>

DispatchBegin ==
    /\ AppRuns
    /\ initialized
    /\ level < MaxNest
    /\ level' = level + 1
    /\ UNCHANGED <<initialized, transport, ring, txSeq, cb, pc, local, history>>

(* Mutant: the client works on the slot in place, before it is popped.     *)
DispatchTakeInPlace ==
    /\ level > 0
    /\ pc[level] = "loop"
    /\ count > 0
    /\ IF HasClient(items[tail])
       THEN /\ pc' = [pc EXCEPT ![level] = "callback"]
            /\ local' = [local EXCEPT ![level] = items[tail]]
            /\ UNCHANGED <<ring, out>>
       ELSE /\ QueuePop
            /\ UNCHANGED <<pc, local>>
    /\ UNCHANGED <<initialized, transport, txSeq, cb, level, submitted, inits>>

(* One iteration of the loop.  s_initialized is not looked at again; a     *)
(* packet nobody has registered for disappears.                            *)
DispatchTake ==
    /\ level > 0
    /\ pc[level] = "loop"
    /\ QueuePop
    /\ IF HasClient(items[tail])
       THEN /\ pc' = [pc EXCEPT ![level] = "callback"]
            /\ local' = [local EXCEPT ![level] = items[tail]]
       ELSE UNCHANGED <<pc, local>>
    /\ UNCHANGED <<initialized, transport, txSeq, cb, level, submitted, inits>>

CallbackReturn ==
    /\ level > 0
    /\ pc[level] = "callback"
    /\ pc' = [pc EXCEPT ![level] = "loop"]
    /\ local' = [local EXCEPT ![level] = Zero]
    /\ UNCHANGED <<initialized, transport, ring, txSeq, cb, level, history>>

DispatchEnd ==
    /\ level > 0
    /\ pc[level] = "loop"
    /\ count = 0
    /\ level' = level - 1
    /\ UNCHANGED <<initialized, transport, ring, txSeq, cb, pc, local, history>>

Next ==
    \/ \E t \in TransportArg : EspInit(t) \/ SetTransport(t)
    \/ EspDeinit
    \/ \E s \in Client, registered \in BOOLEAN : SetCallback(s, registered)
    \/ Tx
    \/ \E f \in Frame : RxSubmit(f)
    \/ RxPop
    \/ DispatchBegin
    \/ DispatchTake
    \/ CallbackReturn
    \/ DispatchEnd

Spec == Init /\ [][Next]_vars

(* The superloop of examples/esp_hosted dispatches for ever, the loop of   *)
(* esp_hosted_dispatch_rx runs on, and clients return from their callbacks.*)
FairSpec ==
    /\ Spec
    /\ WF_vars(level = 0 /\ DispatchBegin)
    /\ WF_vars(DispatchTake)
    /\ WF_vars(CallbackReturn)
    /\ WF_vars(DispatchEnd)

-----------------------------------------------------------------------------
TypeOK ==
    /\ initialized \in BOOLEAN
    /\ transport \in {"NULL", "ready"}
    /\ items \in [0 .. Depth - 1 -> Packet]
    /\ head \in 0 .. Depth - 1
    /\ tail \in 0 .. Depth - 1
    /\ count \in 0 .. Depth
    /\ dropped \in Nat
    /\ txSeq \in 0 .. SeqMod - 1
    /\ cb \in [Slot -> BOOLEAN]
    /\ level \in 0 .. MaxNest
    /\ pc \in [1 .. MaxNest -> {"loop", "callback"}]
    /\ local \in [1 .. MaxNest -> Packet]
    /\ out \in Packet
    /\ submitted \in 0 .. MaxSubmit
    /\ inits \in 0 .. MaxInits

(* The slot of the k-th oldest packet, k counted from 0.                   *)
SlotAt(k) == (tail + k) % Depth

(* The packets in the ring, oldest first.                                  *)
Queued == [k \in 1 .. count |-> items[SlotAt(k - 1)]]

(* The slot the next push writes is the first one after the queued packets *)
(* (esp_hosted_queue_push and _pop each move two of the three indices).    *)
HeadInStep == head = SlotAt(count)

(* A stack that is down holds nothing and reaches nobody: the loop of an   *)
(* esp_hosted_dispatch_rx whose callback took the stack down ends without  *)
(* looking at s_initialized, because there is nothing to pop.              *)
DownIsEmpty == ~initialized => count = 0 /\ transport = "NULL"

(* Head, tail and count agree, and are zero on a stack that is down,       *)
(* whatever the callbacks of a dispatch loop do to the ring under it.      *)
RingShape == HeadInStep /\ DownIsEmpty

(* Frames leave the ring, by esp_hosted_rx_pop or at any nesting level of  *)
(* esp_hosted_dispatch_rx, in the order they were submitted and at most    *)
(* once, through wrap-around, drops and restarts of the stack.             *)
InOrder == [][out' # out => out'.id > out.id]_vars

(* The packets callbacks are working on, outermost first, are in the order *)
(* of their submission: a nested dispatch only sees later frames, and the  *)
(* packet of an outer callback survives whatever the nested calls submit.  *)
NestedAreLater ==
    \A i, j \in 1 .. level :
        i < j /\ pc[i] = "callback" /\ pc[j] = "callback"
            => local[i].id < local[j].id

(* The ring implements the bounded FIFO.                                   *)
Fifo == INSTANCE HostedFifo WITH up <- initialized, queue <- Queued
RefinesFifo == Fifo!Spec

IsQueued(n) == \E k \in 1 .. count : Queued[k].id = n

(* Every frame accepted is handed out, or thrown away with the stack.      *)
EveryFrameLeaves == \A n \in 1 .. MaxSubmit : IsQueued(n) ~> ~IsQueued(n)

=============================================================================
