----------------------------- MODULE HostedSdio -----------------------------
(***************************************************************************)
(* drivers/esp_hosted/esp_hosted_sdio.c: the SDIO transport between the    *)
(* host and the co-processor.  The host polls the slave's interrupt        *)
(* register, clears what it saw, reads the packet length counter and then  *)
(* that many bytes, and sends frames against the slave's buffer tokens.    *)
(* Every register access is a step of its own, so the slave can move       *)
(* between any two of them, and every transfer may fail.                   *)
(*                                                                         *)
(* The slave is external: its counters are what the host's arithmetic      *)
(* presupposes.  A register is read in one transfer (CMD53), not byte by   *)
(* byte (CMD52).                                                           *)
(*                                                                         *)
(* Three things set the sides apart without the host noticing: a transfer  *)
(* of several chunks that reaches the slave and is reported as failed, a   *)
(* slave that restarts by itself, and an attach without a reset pin to a   *)
(* slave that has been running.  "apart" records it; what the host reads   *)
(* from then on is unpredictable and not modelled, up to the next attach   *)
(* that resets the slave.                                                  *)
(*                                                                         *)
(* The receive queue above the transport is the abstract HostedFifo, which *)
(* HostedQueue implements.                                                 *)
(***************************************************************************)
EXTENDS Integers, FiniteSets, Sequences

CONSTANTS
    RxMod,          \* ESP_HOSTED_SDIO_RX_BYTE_MAX, 2^20
    TxMod,          \* ESP_HOSTED_SDIO_TX_BUF_MAX, 2^12
    FrameBuf,       \* sizeof(frame_buf): what one poll can read, 2048
    Window,         \* ESP_HOSTED_SDIO_RX_BUF_WINDOW, the slave's buffer, 1536
    Budget,         \* poll_budget: rounds of one transport_poll, 4
    QueueDepth,     \* ESP_HOSTED_RX_QUEUE_DEPTH
    RxKind,         \* the frames the slave sends
    TxKind,         \* the frames the clients send
    Buffers,        \* receive buffers of the slave
    Faults,         \* the transfers that may fail
    ResetPins,      \* whether attach is given a reset pin: some of BOOLEAN
    MaxFrames,      \* bound: frames the slave sends
    MaxTx,          \* bound: frames the host sends
    MaxThrottle,    \* bound: times the slave throttles
    MaxAttach,      \* bound: calls of esp_hosted_sdio_attach
    MaxRestart      \* bound: times the slave restarts by itself

(* A received frame: its bytes on the wire, header and padding included;   *)
(* whether its header passes the checks of parse_rx_frames.                *)
RxKindType == [size : Nat \ {0}, valid : BOOLEAN]

(* A sent frame: network data or not, and its length with the header.      *)
TxKindType == [data : BOOLEAN, len : Nat \ {0}]

(* A "late" failure is one the slave does not know of: it has taken or     *)
(* given everything when the host is told that the transfer failed.        *)
Transfer == {"raw", "clear", "len", "data", "drain", "token", "write", "attach", "open",
             "data_late", "drain_late", "write_late"}

ASSUME SdioAssumption ==
    /\ RxMod \in Nat \ {0} /\ TxMod \in Nat \ {0}
    /\ FrameBuf \in Nat /\ Window \in Nat \ {0} /\ Budget \in Nat \ {0}
    /\ QueueDepth \in Nat \ {0}
    /\ RxKind \subseteq RxKindType /\ RxKind # {}
    /\ TxKind \subseteq TxKindType
    /\ Buffers \in 0 .. TxMod - 1
    /\ Faults \subseteq Transfer /\ ResetPins \subseteq BOOLEAN
    /\ {MaxFrames, MaxTx, MaxThrottle, MaxAttach, MaxRestart} \subseteq Nat

VARIABLES
    (* The host: s_ctx and the locals of transport_poll and transport_tx.  *)
    attached,       \* s_ctx.attached
    throttled,      \* s_ctx.tx_throttled
    rxCount,        \* s_ctx.rx_byte_count
    txCount,        \* s_ctx.tx_buf_count
    pc,             \* the register access the host is about to make
    budget,         \* poll_budget
    intr,           \* interrupts, as read
    want,           \* len_from_slave
    batch,          \* frames in frame_buf that are not parsed yet
    tx,             \* the frame being sent
    (* The slave.                                                          *)
    intRaw,         \* its interrupt register
    produced,       \* bytes it has sent so far; the register shows them % RxMod
    consumed,       \* bytes the host has read of them
    fifo,           \* frames not read yet, each with the position of its end
    token,          \* its buffer counter: buffers it ever offered, % TxMod
    free,           \* buffers it really has
    slaveBusy,      \* it has throttled the host
    (* The queue above.                                                    *)
    up, queue, dropped, out,
    (* History and bounds.                                                 *)
    made,           \* frames the slave has sent
    handed,         \* frames handed out to clients
    lost,           \* frames that went in a reset of the slave, in a drain, in
                    \* a late read, or behind a wrong header
    sent, throttles, attaches, restarts,
    apart           \* the directions in which the two sides have lost step

host == <<attached, throttled, rxCount, txCount>>
poll == <<pc, budget, intr, want, batch, tx>>
slave == <<intRaw, produced, consumed, fifo, token, free, slaveBusy>>
above == <<up, queue, dropped, out>>
rift == <<restarts, apart>>
history == <<made, handed, lost, sent, throttles, attaches, rift>>
vars == <<host, poll, slave, above, history>>

RxFrame == [id : 0 .. MaxFrames, end : Nat, kind : RxKind]

(* What HostedFifo calls packets: any record with an id will do.           *)
Q == INSTANCE HostedFifo WITH Packet <- RxFrame, Depth <- QueueDepth

NoTx == [data |-> FALSE, len |-> 0]

-----------------------------------------------------------------------------
(* attach and detach clear s_ctx.                                          *)
HostCleared ==
    /\ throttled' = FALSE
    /\ rxCount' = 0
    /\ txCount' = 0

SlaveReset ==
    /\ intRaw' = {}
    /\ produced' = 0 /\ consumed' = 0 /\ fifo' = <<>>
    /\ token' = Buffers /\ free' = Buffers
    /\ slaveBusy' = FALSE

(* A slave that has done nothing since it started.                         *)
SlaveFresh ==
    /\ produced = 0 /\ consumed = 0 /\ fifo = <<>>
    /\ token = Buffers /\ free = Buffers

Init ==
    /\ attached = FALSE /\ throttled = FALSE /\ rxCount = 0 /\ txCount = 0
    /\ pc = "idle" /\ budget = 0 /\ intr = {} /\ want = 0 /\ batch = <<>> /\ tx = NoTx
    /\ SlaveFresh /\ intRaw = {} /\ slaveBusy = FALSE
    /\ up = FALSE /\ queue = <<>> /\ dropped = 0
    /\ out = [id |-> 0, end |-> 0, kind |-> CHOOSE k \in RxKind : TRUE]
    /\ made = 0 /\ handed = 0 /\ lost = 0 /\ sent = 0 /\ throttles = 0 /\ attaches = 0
    /\ restarts = 0 /\ apart = {}

(* attach pulses the slave's reset pin, if it has been given one: then the *)
(* frames the slave held are gone.  Otherwise the slave goes on where it   *)
(* was, while the host counts from 0.                                      *)
SlavePulsed ==
    \/ /\ TRUE \in ResetPins
       /\ SlaveReset
       /\ lost' = lost + Len(fifo)
       /\ apart' = {}
    \/ /\ FALSE \in ResetPins
       /\ apart' = IF SlaveFresh THEN {} ELSE {"rx", "tx"}
       /\ UNCHANGED <<slave, lost>>

(* Any command of the bring-up fails.  Nothing is left over from it: the   *)
(* next attach begins again with the first.                                *)
CardInitFails ==
    /\ "attach" \in Faults
    /\ attached' = FALSE
    /\ UNCHANGED above

(* A transport that is attached is detached first.  The first success also *)
(* brings the stack up; a later one finds it up and keeps its queue.  The  *)
(* bus may fail in each of the attempts, or when the data path is opened;  *)
(* in the second case the stack is up already and stays up.                *)
Attach ==
    /\ pc = "idle"
    /\ attaches < MaxAttach
    /\ attaches' = attaches + 1
    /\ HostCleared
    /\ SlavePulsed
    /\ \/ /\ attached' = TRUE
          /\ IF up THEN UNCHANGED above ELSE up' = TRUE /\ UNCHANGED <<queue, dropped, out>>
       \/ /\ "open" \in Faults
          /\ attached' = FALSE
          /\ IF up THEN UNCHANGED above ELSE up' = TRUE /\ UNCHANGED <<queue, dropped, out>>
       \/ CardInitFails
    /\ UNCHANGED <<poll, made, handed, sent, throttles, restarts>>

Detach ==
    /\ pc = "idle"
    /\ attached
    /\ attached' = FALSE
    /\ HostCleared
    /\ UNCHANGED <<poll, slave, above, history>>

-----------------------------------------------------------------------------
(* esp_hosted_sdio_transport_poll, one register access after the other.    *)

PollBegin ==
    /\ pc = "idle"
    /\ attached
    /\ pc' = "raw"
    /\ budget' = Budget
    /\ UNCHANGED <<host, intr, want, batch, tx, slave, above, history>>

PollReturns ==
    /\ pc' = "idle"
    /\ budget' = 0 /\ intr' = {} /\ want' = 0

NextRound ==
    IF budget = 0
    THEN PollReturns
    ELSE /\ pc' = "raw"
         /\ intr' = {} /\ want' = 0
         /\ UNCHANGED budget

PollRaw ==
    /\ pc = "raw"
    /\ \/ /\ intRaw # {}
          /\ intr' = intRaw
          /\ budget' = budget - 1
          /\ pc' = "clear"
          /\ UNCHANGED want
       \/ /\ intRaw = {} \/ "raw" \in Faults
          /\ PollReturns
    /\ UNCHANGED <<host, batch, tx, slave, above, history>>

(* Mutant: the whole register is cleared, not what was read.               *)
ClearsAll == {"new", "start", "stop"}

(* The result of the write is ignored; the throttle bits are looked at     *)
(* after it, START before STOP.                                            *)
Clears == intr

(* Mutant: the throttle bits are looked at in the other order.             *)
PollClearStartWins ==
    /\ pc = "clear"
    /\ \/ intRaw' = intRaw \ Clears
       \/ "clear" \in Faults /\ UNCHANGED intRaw
    /\ throttled' = CASE "start" \in intr -> TRUE
                      [] "stop" \in intr -> FALSE
                      [] OTHER -> throttled
    /\ IF "new" \in intr
       THEN pc' = "len" /\ UNCHANGED <<budget, intr, want>>
       ELSE NextRound
    /\ UNCHANGED <<attached, rxCount, txCount, batch, tx>>
    /\ UNCHANGED <<produced, consumed, fifo, token, free, slaveBusy, above, history>>

PollClear ==
    /\ pc = "clear"
    /\ \/ intRaw' = intRaw \ Clears
       \/ "clear" \in Faults /\ UNCHANGED intRaw
    /\ throttled' = CASE "stop" \in intr -> FALSE
                      [] "start" \in intr -> TRUE
                      [] OTHER -> throttled
    /\ IF "new" \in intr
       THEN pc' = "len" /\ UNCHANGED <<budget, intr, want>>
       ELSE NextRound
    /\ UNCHANGED <<attached, rxCount, txCount, batch, tx>>
    /\ UNCHANGED <<produced, consumed, fifo, token, free, slaveBusy, above, history>>

(* Mutant: a length register that has wrapped looks like nothing new.      *)
LenFromSlaveNoWrap ==
    LET len == produced % RxMod
    IN  IF len >= rxCount THEN len - rxCount ELSE 0

(* esp_hosted_sdio_get_len_from_slave: what the slave has sent beyond what *)
(* the host has counted, both modulo RxMod.                                *)
LenFromSlave ==
    LET len == produced % RxMod
    IN  IF len >= rxCount
        THEN (len + RxMod - rxCount) % RxMod
        ELSE (RxMod - rxCount) + len

PollLen ==
    /\ pc = "len"
    /\ \/ /\ LenFromSlave > 0
          /\ want' = LenFromSlave
          /\ pc' = IF LenFromSlave > FrameBuf THEN "drain" ELSE "data"
          /\ UNCHANGED <<budget, intr>>
       \/ /\ LenFromSlave = 0 \/ "len" \in Faults
          /\ PollReturns
    /\ UNCHANGED <<host, batch, tx, slave, above, history>>

(* Reading want bytes takes the frames that end within them.               *)
Served == Cardinality({i \in DOMAIN fifo : fifo[i].end <= consumed + want})

SlaveServes ==
    /\ "rx" \notin apart
    /\ consumed' = consumed + want
    /\ fifo' = SubSeq(fifo, Served + 1, Len(fifo))
    /\ UNCHANGED <<intRaw, produced, token, free, slaveBusy>>

(* A read or drain fails: at the slave nothing happened, or, when the      *)
(* transfer was late or one chunk of several, it has given the bytes away. *)
ReadFails(soon, late) ==
    /\ PollReturns
    /\ \/ /\ soon \in Faults \/ "rx" \in apart
          /\ UNCHANGED <<slave, apart, lost>>
       \/ /\ late \in Faults
          /\ SlaveServes
          /\ apart' = apart \cup {"rx"}
          /\ lost' = lost + Served

(* Mutant: the byte counter does not wrap with the slave's.                *)
CountReadNoWrap == rxCount' = rxCount + want

CountRead == rxCount' = (rxCount + want) % RxMod

(* Mutant: drained bytes are not counted as read.                          *)
PollDrainUncounted ==
    /\ pc = "drain"
    /\ \/ /\ SlaveServes
          /\ lost' = lost + Served
          /\ NextRound
          /\ UNCHANGED apart
       \/ ReadFails("drain", "drain_late")
    /\ UNCHANGED <<attached, throttled, rxCount, txCount, batch, tx, above>>
    /\ UNCHANGED <<made, handed, sent, throttles, attaches, restarts>>

(* More bytes are outstanding than frame_buf holds: all of them are read   *)
(* and thrown away, chunk by chunk; if a chunk fails, none is counted.     *)
PollDrain ==
    /\ pc = "drain"
    /\ \/ /\ SlaveServes
          /\ CountRead
          /\ lost' = lost + Served
          /\ NextRound
          /\ UNCHANGED apart
       \/ ReadFails("drain", "drain_late") /\ UNCHANGED rxCount
    /\ UNCHANGED <<attached, throttled, txCount, batch, tx, above>>
    /\ UNCHANGED <<made, handed, sent, throttles, attaches, restarts>>

(* Mutant: frame_buf is parsed although the read failed.                   *)
PollDataUnchecked ==
    /\ pc = "data"
    /\ batch' = SubSeq(fifo, 1, Served)
    /\ pc' = "parse"
    /\ \/ SlaveServes /\ CountRead
       \/ "data" \in Faults /\ UNCHANGED <<slave, rxCount>>
    /\ UNCHANGED <<budget, intr, want>>
    /\ UNCHANGED <<attached, throttled, txCount, tx, above, history>>

PollData ==
    /\ pc = "data"
    /\ \/ /\ SlaveServes
          /\ CountRead
          /\ batch' = SubSeq(fifo, 1, Served)
          /\ pc' = "parse"
          /\ UNCHANGED <<budget, intr, want, lost, apart>>
       \/ ReadFails("data", "data_late") /\ UNCHANGED <<rxCount, batch>>
    /\ UNCHANGED <<attached, throttled, txCount, tx, above>>
    /\ UNCHANGED <<made, handed, sent, throttles, attaches, restarts>>

(* Mutant: one frame per read is looked at.                                *)
PollParseFirstOnly ==
    /\ pc = "parse"
    /\ NextRound
    /\ batch' = <<>>
    /\ IF batch # <<>> /\ Head(batch).kind.valid
       THEN Q!Accept(Head(batch)) \/ Q!Refuse
       ELSE UNCHANGED above
    /\ UNCHANGED <<host, tx, slave, lost, made, handed, sent, throttles, attaches, rift>>

(* esp_hosted_sdio_parse_rx_frames, one frame per step.  The result of     *)
(* esp_hosted_rx_submit is ignored; a frame whose header is wrong ends the *)
(* parsing and takes the frames behind it along.                           *)
PollParse ==
    /\ pc = "parse"
    /\ \/ /\ batch = <<>>
          /\ NextRound
          /\ UNCHANGED <<batch, lost, above>>
       \/ /\ batch # <<>>
          /\ Head(batch).kind.valid
          /\ Q!Accept(Head(batch)) \/ Q!Refuse
          /\ batch' = Tail(batch)
          /\ UNCHANGED <<pc, budget, intr, want, lost>>
       \/ /\ batch # <<>>
          /\ ~Head(batch).kind.valid
          /\ lost' = lost + Len(batch)
          /\ batch' = <<>>
          /\ UNCHANGED <<pc, budget, intr, want, above>>
    /\ UNCHANGED <<host, tx, slave, made, handed, sent, throttles, attaches, rift>>

-----------------------------------------------------------------------------
(* esp_hosted_sdio_transport_tx.                                           *)

(* Mutant: a partly filled buffer is not counted.                          *)
BufNeededFloor(len) == len \div Window

BufNeeded(len) == (len + Window - 1) \div Window

(* The credit the token register shows (get_tx_buffer_num).                *)
TxBufferNum == (token + TxMod - txCount) % TxMod

TxBegin(k) ==
    /\ pc = "idle"
    /\ attached
    /\ ~(throttled /\ k.data)
    /\ sent < MaxTx
    /\ tx' = k
    /\ pc' = "token"
    /\ UNCHANGED <<host, budget, intr, want, batch, slave, above, history>>

TxReturns == pc' = "idle" /\ tx' = NoTx

TxToken ==
    /\ pc = "token"
    /\ \/ /\ TxBufferNum >= BufNeeded(tx.len)
          /\ pc' = "write"
          /\ UNCHANGED tx
       \/ /\ TxBufferNum < BufNeeded(tx.len) \/ "token" \in Faults
          /\ TxReturns
    /\ UNCHANGED <<host, budget, intr, want, batch, slave, above, history>>

(* The buffers of the slave a frame fills.                                 *)
SlaveBuffers(len) == CHOOSE n \in 1 .. len : (n - 1) * Window < len /\ len <= n * Window

(* The slave puts the frame into buffers it has.  One that is apart from   *)
(* the host may have none left, and takes nothing.                         *)
SlaveTakes ==
    /\ "tx" \in apart => SlaveBuffers(tx.len) <= free
    /\ free' = free - SlaveBuffers(tx.len)
    /\ sent' = sent + 1

WriteFails ==
    \/ /\ "write" \in Faults \/ "tx" \in apart
       /\ UNCHANGED <<free, sent, apart>>
    \/ /\ "write_late" \in Faults
       /\ SlaveTakes
       /\ apart' = apart \cup {"tx"}

(* Mutant: every frame counts as one buffer.                               *)
TxWriteCountsOne ==
    /\ pc = "write"
    /\ \/ /\ SlaveTakes
          /\ txCount' = (txCount + 1) % TxMod
          /\ UNCHANGED apart
       \/ WriteFails /\ UNCHANGED txCount
    /\ TxReturns
    /\ UNCHANGED <<attached, throttled, rxCount, budget, intr, want, batch>>
    /\ UNCHANGED <<intRaw, produced, consumed, fifo, token, slaveBusy, above>>
    /\ UNCHANGED <<made, handed, lost, throttles, attaches, restarts>>

TxWrite ==
    /\ pc = "write"
    /\ \/ /\ SlaveTakes
          /\ txCount' = (txCount + BufNeeded(tx.len)) % TxMod
          /\ UNCHANGED apart
       \/ WriteFails /\ UNCHANGED txCount
    /\ TxReturns
    /\ UNCHANGED <<attached, throttled, rxCount, budget, intr, want, batch>>
    /\ UNCHANGED <<intRaw, produced, consumed, fifo, token, slaveBusy, above>>
    /\ UNCHANGED <<made, handed, lost, throttles, attaches, restarts>>

-----------------------------------------------------------------------------
(* The slave (external) and the client above the queue.                    *)

(* The counter moves before the interrupt is raised.  A slave never has    *)
(* RxMod bytes outstanding.                                                *)
SlaveSends(k) ==
    /\ attached
    /\ made < MaxFrames
    /\ produced + k.size - consumed < RxMod
    /\ made' = made + 1
    /\ produced' = produced + k.size
    /\ fifo' = Append(fifo, [id |-> made + 1, end |-> produced + k.size, kind |-> k])
    /\ intRaw' = intRaw \cup {"new"}
    /\ UNCHANGED <<host, poll, consumed, token, free, slaveBusy, above>>
    /\ UNCHANGED <<handed, lost, sent, throttles, attaches, rift>>

SlaveFrees ==
    /\ attached
    /\ free < Buffers
    /\ free' = free + 1
    /\ token' = (token + 1) % TxMod
    /\ UNCHANGED <<host, poll, intRaw, produced, consumed, fifo, slaveBusy, above, history>>

(* The slave does not throttle and release again between the host's read   *)
(* of the interrupt register and its write of the clear register.          *)
SlaveThrottles ==
    /\ attached
    /\ ~slaveBusy
    /\ throttles < MaxThrottle
    /\ throttles' = throttles + 1
    /\ slaveBusy' = TRUE
    /\ intRaw' = intRaw \cup {"start"}
    /\ UNCHANGED <<host, poll, produced, consumed, fifo, token, free, above>>
    /\ UNCHANGED <<made, handed, lost, sent, attaches, rift>>

SlaveReleases ==
    /\ attached
    /\ slaveBusy
    /\ pc = "clear" => ~("start" \in intRaw \ intr)
    /\ slaveBusy' = FALSE
    /\ intRaw' = intRaw \cup {"stop"}
    /\ UNCHANGED <<host, poll, produced, consumed, fifo, token, free, above, history>>

(* Power, watchdog or crash of the slave: it starts again from nothing,    *)
(* what it held is lost, and the host, in whatever it is doing, is not     *)
(* told.                                                                   *)
SlaveRestarts ==
    /\ attached
    /\ restarts < MaxRestart
    /\ restarts' = restarts + 1
    /\ apart' = {"rx", "tx"}
    /\ SlaveReset
    /\ lost' = lost + Len(fifo)
    /\ UNCHANGED <<host, poll, above, made, handed, sent, throttles, attaches>>

(* One packet is popped and its client called: a client may poll, so this  *)
(* happens between polls.                                                  *)
Dispatch ==
    /\ pc = "idle"
    /\ Q!HandOut
    /\ handed' = handed + 1
    /\ UNCHANGED <<host, poll, slave, made, lost, sent, throttles, attaches, rift>>

HostStep ==
    \/ PollRaw \/ PollClear \/ PollLen \/ PollDrain \/ PollData \/ PollParse
    \/ TxToken \/ TxWrite

Next ==
    \/ Attach \/ Detach
    \/ PollBegin
    \/ \E k \in TxKind : TxBegin(k)
    \/ HostStep
    \/ \E k \in RxKind : SlaveSends(k)
    \/ SlaveFrees \/ SlaveThrottles \/ SlaveReleases \/ SlaveRestarts
    \/ Dispatch

Spec == Init /\ [][Next]_vars

(* The superloop polls and dispatches for ever; a function of the driver   *)
(* that has begun goes on.                                                 *)
FairSpec ==
    /\ Spec
    /\ WF_vars(HostStep)
    /\ SF_vars(PollBegin)
    /\ SF_vars(Dispatch)

-----------------------------------------------------------------------------
TypeOK ==
    /\ attached \in BOOLEAN /\ throttled \in BOOLEAN
    /\ rxCount \in 0 .. RxMod - 1
    /\ txCount \in 0 .. TxMod - 1
    /\ pc \in {"idle", "raw", "clear", "len", "data", "drain", "parse", "token", "write"}
    /\ budget \in 0 .. Budget
    /\ intr \subseteq {"new", "start", "stop"}
    /\ want \in 0 .. RxMod - 1
    /\ batch \in Seq(RxFrame)
    /\ tx \in TxKind \cup {NoTx}
    /\ intRaw \subseteq {"new", "start", "stop"}
    /\ produced \in Nat /\ consumed \in 0 .. produced
    /\ fifo \in Seq(RxFrame)
    /\ token \in 0 .. TxMod - 1
    /\ free \in 0 .. Buffers
    /\ slaveBusy \in BOOLEAN
    /\ apart \subseteq {"rx", "tx"}
    /\ up \in BOOLEAN /\ queue \in Seq(RxFrame) /\ dropped \in Nat /\ out \in RxFrame

(* The host's byte counter and the slave's stream agree whenever nothing   *)
(* is half done, through wrap-around, failed transfers, drained frames and *)
(* re-attachment: the next byte the host reads is the first of a frame.    *)
(* Where a late failure or a restart of the slave has set them apart, the  *)
(* next attach with a reset pin brings them together again.                *)
ReadsInStep ==
    attached /\ "rx" \notin apart =>
        /\ rxCount = consumed % RxMod
        /\ fifo = <<>> => consumed = produced
        /\ fifo # <<>> => consumed = Head(fifo).end - Head(fifo).kind.size

(* The credit the host computes is the number of buffers the slave has,    *)
(* except after a write the slave took although it was reported as failed, *)
(* a restart of the slave or an attach that did not reset it: then until   *)
(* the next attach that does.                                              *)
CreditInStep == attached /\ "tx" \notin apart => TxBufferNum = free

(* A frame is only written when the slave still has the buffers it fills,  *)
(* although the slave moved since the host read the token.                 *)
NeverOverrun == pc = "write" /\ "tx" \notin apart => SlaveBuffers(tx.len) <= free

(* From the client down to the slave, frames are in the order the slave    *)
(* sent them, and no frame is in two places, through failures, restarts of *)
(* the slave and new attaches, which keep the queue of the old.            *)
PathInOrder ==
    LET path == <<out>> \o queue \o batch \o fifo
    IN  \A i \in 1 .. Len(path) - 1 : path[i].id < path[i + 1].id

(* Every frame the slave has sent is with the slave, in frame_buf, in the  *)
(* queue, or was handed out, except those the full queue refused and       *)
(* counted, and those the code throws away where "lost" is written: at a   *)
(* reset of the slave, in a drain, in a read that failed late, and behind  *)
(* a wrong header.  None goes, or comes twice, anywhere else, whatever     *)
(* fails.                                                                  *)
NothingVanishes ==
    made = handed + dropped + lost + Len(queue) + Len(batch) + Len(fifo)

Unread(n) == \E i \in 1 .. Len(fifo) : fifo[i].id = n

(* When the host's reads work every frame is read, although a packet may   *)
(* be announced while the host is clearing the last announcement.          *)
EveryFrameRead == \A n \in 1 .. MaxFrames : Unread(n) ~> ~Unread(n) \/ ~attached

(* When the host's reads work, a host the slave has released starts        *)
(* sending data again: no clear, failed or late, loses the release.        *)
ReleaseHeeded == throttled /\ ~slaveBusy ~> ~throttled \/ slaveBusy \/ ~attached
=============================================================================
