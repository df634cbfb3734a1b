------------------------------ MODULE I2sStream -----------------------------
(***************************************************************************)
(* drivers/i2s_drv/i2s_drv.c: the queue of DMA buffers behind              *)
(* i2s_stream_write and i2s_stream_drain.  Three actors share it: the      *)
(* program, the interrupt handler, which runs as soon as an interrupt is   *)
(* pending and not locked out, and the DMA channel, which follows the      *)
(* chain of descriptors and which no lock stops.                           *)
(*                                                                         *)
(* A step of the program is what it does between two points where one of   *)
(* the others matters.  Chunks are numbered in the order they are written. *)
(***************************************************************************)
EXTENDS Integers, FiniteSets

CONSTANTS
    Count,          \* stream_buf_count
    Prefill,        \* I2S_STREAM_MIN_PREFILL
    CountMod,       \* stream_queued is uint8_t: 256
    Calls,          \* the functions of the driver the application uses
    MaxLen,         \* bound: chunks per write
    MaxChunks,      \* bound: chunks written between two resets
    Sleeps,         \* a time-out, in sleeps of a millisecond
    OtherIrq,       \* the application has another, periodic interrupt
    NULL

ASSUME I2sAssumption ==
    /\ {Count, Prefill, CountMod, MaxLen, MaxChunks} \subseteq Nat \ {0}
    /\ Sleeps \in Nat
    /\ Count < CountMod
    /\ OtherIrq \in BOOLEAN
    /\ Calls \subseteq {"write", "drain", "poll", "stop"}
    /\ NULL \notin 0 .. Count - 1

VARIABLES
    desc,       \* desc[i]: owner, next and suc_eof of s_i2s_dma_desc
    buf,        \* buf[i]: the chunk in s_i2s_dma_buf
    dev,        \* the stream_ fields of the handle
    irqOwner,   \* s_i2s_stream_irq_owner[ch] is the handle
    dma,        \* the channel: the descriptor loaded, the one to load next
    status,     \* the channel's raw interrupt status
    run,        \* where the program is: the call, the place in it
    locked,     \* the program is between lock_save and restore
    accepted,   \* history: the last chunk queued since the reset
    moved,      \* history: the last chunk the channel has moved out since the reset
    drained     \* what the last i2s_stream_drain returned, or "none"

vars == <<desc, buf, dev, irqOwner, dma, status, run, locked, accepted, moved, drained>>

Slot == 0 .. Count - 1
(* Mutant: the ring of slots does not wrap.                                *)
SuccNoWrap(i) == i + 1

Succ(i) == (i + 1) % Count
Pred(i) == (i + Count - 1) % Count

Free == [owner |-> "CPU", next |-> NULL, eof |-> TRUE]
Off == [cur |-> NULL, next |-> NULL, eof |-> TRUE]
DmaIdle == dma.cur = NULL /\ dma.next = NULL

Fresh(mode) ==
    [mode |-> mode, head |-> 0, tail |-> 0, queued |-> 0, started |-> FALSE, error |-> FALSE]
Waiting == [at |-> "idle", call |-> "none", ret |-> "idle", todo |-> 0, sleeps |-> 0]

(* The handle is initialised and has never streamed.                       *)
Init ==
    /\ desc = [i \in Slot |-> Free]
    /\ buf = [i \in Slot |-> 0]
    /\ dev = Fresh(FALSE)
    /\ irqOwner = FALSE
    /\ dma = Off
    /\ status = {}
    /\ run = Waiting
    /\ locked = FALSE
    /\ accepted = 0
    /\ moved = 0
    /\ drained = "none"

-----------------------------------------------------------------------------
(* The DMA channel.                                                        *)

(* It loads a descriptor, link and all; the owner check refuses one that   *)
(* is the CPU's.                                                           *)
DmaLoad ==
    /\ dma.cur = NULL
    /\ dma.next # NULL
    /\ IF desc[dma.next].owner = "CPU"
       THEN dma' = Off /\ status' = status \cup {"desc_error"}
       ELSE /\ dma' = [cur |-> dma.next, next |-> desc[dma.next].next, eof |-> desc[dma.next].eof]
            /\ UNCHANGED status
    /\ UNCHANGED <<desc, buf, dev, irqOwner, run, locked, accepted, moved, drained>>

(* It has moved the buffer into the FIFO of the I2S peripheral: it hands   *)
(* the descriptor back and goes on along the link it has loaded, or parks. *)
(* What the FIFO still holds, when the program or the handler then stops   *)
(* the peripheral without a wait for it, is not in the model.              *)
DmaDone ==
    /\ dma.cur # NULL
    /\ desc' = [desc EXCEPT ![dma.cur].owner = "CPU"]
    /\ moved' = buf[dma.cur]
    /\ status' = status \cup {"done"}
    /\ dma' = [dma EXCEPT !.cur = NULL]
    /\ UNCHANGED <<buf, dev, irqOwner, run, locked, accepted, drained>>

-----------------------------------------------------------------------------
(* Mutant: what the program has not queued looks finished as well.         *)
CompletedAny == {n \in 1 .. Count : \A k \in 0 .. n - 1 : desc[(dev.tail + k) % Count].owner = "CPU"}

(* The buffers from the tail on that the channel has handed back.          *)
Completed ==
    {n \in 1 .. dev.queued :
        \A k \in 0 .. n - 1 : desc[(dev.tail + k) % Count].owner = "CPU"}

(* i2s_stream_reclaim_completed, where nothing of the program or of the    *)
(* interrupt handler comes between.                                        *)
Reclaim ==
    LET n == Cardinality(Completed)
        ends == dev.started /\ dev.queued - n = 0 /\ DmaIdle
    IN  /\ desc' = [i \in Slot |->
                      IF \E k \in 0 .. n - 1 : i = (dev.tail + k) % Count
                      THEN [desc[i] EXCEPT !.eof = TRUE, !.next = NULL] ELSE desc[i]]
        /\ dev' = [dev EXCEPT !.tail = (@ + n) % Count,
                              !.queued = (@ + CountMod - n) % CountMod,
                              !.started = @ /\ ~ends]
        /\ dma' = IF ends THEN Off ELSE dma

IrqPending == irqOwner /\ status # {} /\ ~locked

(* wfi returns; the budget shrinks by a millisecond.                       *)
Woken ==
    IF run.at = "sleep" THEN [run EXCEPT !.at = "top", !.sleeps = @ - 1] ELSE run

(* Mutant: the interrupt is handled and not cleared.                       *)
IsrKeepsStatus ==
    /\ IrqPending
    /\ run' = Woken
    /\ IF dev.mode /\ dev.started THEN Reclaim ELSE UNCHANGED <<desc, dev, dma>>
    /\ UNCHANGED <<buf, irqOwner, status, locked, accepted, moved, drained>>

(* i2s_stream_dma_tx_isr_common.                                           *)
Isr ==
    /\ IrqPending
    /\ status' = {}
    /\ run' = Woken
    /\ IF "desc_error" \in status
       THEN /\ dma' = Off
            /\ dev' = [dev EXCEPT !.started = FALSE, !.error = TRUE]
            /\ UNCHANGED desc
       ELSE IF dev.mode /\ dev.started THEN Reclaim
       ELSE UNCHANGED <<desc, dev, dma>>
    /\ UNCHANGED <<buf, irqOwner, locked, accepted, moved, drained>>

(* Another interrupt of the application wakes the program.                 *)
OtherWake ==
    /\ OtherIrq
    /\ run.at = "sleep"
    /\ ~IrqPending
    /\ run' = Woken
    /\ UNCHANGED <<desc, buf, dev, irqOwner, dma, status, locked, accepted, moved, drained>>

-----------------------------------------------------------------------------
(* The program.                                                            *)
At(place) == ~IrqPending /\ run.at = place
Goto(place) == run' = [run EXCEPT !.at = place]
Return == run' = Waiting

(* i2s_stream_reset_queue, after i2s_stream_stop has stopped the channel   *)
(* and taken the interrupt away.                                           *)
Reset(mode) ==
    /\ dma' = Off
    /\ status' = {}
    /\ desc' = [i \in Slot |-> Free]
    /\ buf' = [i \in Slot |-> 0]
    /\ dev' = Fresh(mode)
    /\ accepted' = 0
    /\ moved' = 0
    /\ drained' = "none"
    /\ UNCHANGED <<run, locked>>

(* i2s_stream_begin; the interrupt may belong to another handle.           *)
Begin ==
    /\ At("idle")
    /\ \E ok \in BOOLEAN : (ok \/ ~irqOwner) /\ irqOwner' = ok /\ Reset(ok)

(* i2s_stream_stop leaves stream_mode as it is.                            *)
Stop ==
    /\ At("idle")
    /\ "stop" \in Calls
    /\ dev.mode
    /\ irqOwner' = FALSE
    /\ Reset(TRUE)

(* i2s_stream_write, _drain and _poll begin.                               *)
Enter(call, n) ==
    /\ At("idle")
    /\ call \in Calls
    /\ dev.mode
    /\ call = "write" => ~dev.error /\ accepted + n <= MaxChunks
    /\ run' = [Waiting EXCEPT !.at = IF call = "poll" THEN "poll" ELSE "top", !.call = call,
                              !.todo = n, !.sleeps = Sleeps]
    /\ drained' = "none"
    /\ UNCHANGED <<desc, buf, dev, irqOwner, dma, status, locked, accepted, moved>>

(* i2s_stream_start_dma_internal: the channel is reset and its interrupts  *)
(* cleared before it starts at the tail.                                   *)
StartDma ==
    IF dev.queued = 0 THEN UNCHANGED <<dev, dma, status>>
    ELSE /\ dma' = [Off EXCEPT !.next = dev.tail]
         /\ status' = {}
         /\ dev' = [dev EXCEPT !.started = TRUE, !.error = FALSE]

(* The top of the loops: the time is up, all is written, or one more round.*)
Top ==
    /\ At("top")
    /\ IF run.call = "write" THEN
          IF run.todo = 0 THEN Return /\ UNCHANGED <<desc, dev, dma, status, drained>>
          ELSE Reclaim /\ Goto("test") /\ UNCHANGED <<status, drained>>
       ELSE IF run.sleeps = 0 THEN
          Return /\ drained' = "false" /\ UNCHANGED <<desc, dev, dma, status>>
       ELSE /\ IF ~dev.error /\ ~dev.started THEN StartDma ELSE UNCHANGED <<dev, dma, status>>
            /\ Goto("reclaim")
            /\ UNCHANGED <<desc, drained>>
    /\ UNCHANGED <<buf, irqOwner, locked, accepted, moved>>

(* Mutant: the queue takes one chunk more than it has slots.               *)
TestOneMore ==
    /\ At("test")
    /\ IF dev.queued > Count THEN Goto("reclaim") /\ UNCHANGED buf
       ELSE Goto("fill") /\ buf' = [buf EXCEPT ![dev.head] = accepted + 1]
    /\ UNCHANGED <<desc, dev, irqOwner, dma, status, locked, accepted, moved, drained>>

(* A write finds the queue full, or takes the slot at the head.            *)
Test ==
    /\ At("test")
    /\ IF dev.queued >= Count THEN Goto("reclaim") /\ UNCHANGED buf
       ELSE Goto("fill") /\ buf' = [buf EXCEPT ![dev.head] = accepted + 1]
    /\ UNCHANGED <<desc, dev, irqOwner, dma, status, locked, accepted, moved, drained>>

(* Waiting: reclaim in the lock, and poll if there is no interrupt.  Only  *)
(* a drain reclaims before it polls.                                       *)
WaitReclaim ==
    /\ At("reclaim")
    /\ IF irqOwner \/ run.call = "drain" THEN Reclaim ELSE UNCHANGED <<desc, dev, dma>>
    /\ run' = [run EXCEPT !.at = IF irqOwner THEN "resume" ELSE "poll", !.ret = "check"]
    /\ UNCHANGED <<buf, irqOwner, status, locked, accepted, moved, drained>>

(* i2s_stream_resume_dma_if_idle reads the handle, ...                     *)
Resume ==
    /\ At("resume")
    /\ IF dev.error \/ dev.queued = 0 THEN Goto(run.ret) ELSE Goto("restart")
    /\ UNCHANGED <<desc, buf, dev, irqOwner, dma, status, locked, accepted, moved, drained>>

(* ... and then the channel.  One that is idle stays so and raises nothing.*)
Restart ==
    /\ At("restart")
    /\ IF DmaIdle THEN StartDma ELSE UNCHANGED <<dev, dma, status>>
    /\ Goto(run.ret)
    /\ UNCHANGED <<desc, buf, irqOwner, locked, accepted, moved, drained>>

(* Mutant: a channel that is parked has moved everything.                  *)
CheckParked ==
    /\ At("check")
    /\ IF dev.error \/ (run.call = "drain" /\ DmaIdle) \/ (run.call = "write" /\ run.sleeps = 0)
       THEN /\ Return
            /\ drained' = IF run.call # "drain" THEN drained ELSE IF dev.error THEN "false" ELSE "true"
       ELSE Goto("sleep") /\ UNCHANGED drained
    /\ UNCHANGED <<desc, buf, dev, irqOwner, dma, status, locked, accepted, moved>>

(* After a round of waiting: give up, be done, or sleep until an interrupt.*)
Check ==
    /\ At("check")
    /\ LET done == run.call = "drain" /\ dev.queued = 0 /\ ~dev.started
           late == run.call = "write" /\ run.sleeps = 0
       IN  IF dev.error \/ done \/ late
           THEN /\ Return
                /\ drained' = IF run.call # "drain" THEN drained ELSE IF dev.error THEN "false" ELSE "true"
           ELSE Goto("sleep") /\ UNCHANGED drained
    /\ UNCHANGED <<desc, buf, dev, irqOwner, dma, status, locked, accepted, moved>>

-----------------------------------------------------------------------------
(* i2s_stream_write appends the slot to the chain, in the lock: the        *)
(* descriptor goes to the channel, ...                                     *)
Fill ==
    /\ At("fill")
    /\ IF dev.error THEN Return /\ UNCHANGED <<desc, locked>>
       ELSE /\ desc' = [desc EXCEPT ![dev.head] = [Free EXCEPT !.owner = "DMA"]]
            /\ locked' = TRUE
            /\ Goto(IF dev.queued > 0 THEN "link" ELSE "queue")
    /\ UNCHANGED <<buf, dev, irqOwner, dma, status, accepted, moved, drained>>

(* Mutant: the predecessor loses its end mark before it has a successor.   *)
LinkEofFirst ==
    /\ At("link")
    /\ desc' = [desc EXCEPT ![Pred(dev.head)] = IF @.eof THEN [@ EXCEPT !.eof = FALSE]
                                                         ELSE [@ EXCEPT !.next = dev.head]]
    /\ Goto(IF desc[Pred(dev.head)].eof THEN "link" ELSE "queue")
    /\ UNCHANGED <<buf, dev, irqOwner, dma, status, locked, accepted, moved, drained>>

(* ... its predecessor gets the link, and then loses its end mark, ...     *)
Link ==
    /\ At("link")
    /\ LET prev == Pred(dev.head)
       IN  IF desc[prev].next # dev.head
           THEN desc' = [desc EXCEPT ![prev].next = dev.head] /\ Goto("link")
           ELSE desc' = [desc EXCEPT ![prev].eof = FALSE] /\ Goto("queue")
    /\ UNCHANGED <<buf, dev, irqOwner, dma, status, locked, accepted, moved, drained>>

(* ... and the head moves on.                                              *)
Queue ==
    /\ At("queue")
    /\ dev' = [dev EXCEPT !.head = Succ(@), !.queued = (@ + 1) % CountMod]
    /\ accepted' = accepted + 1
    /\ locked' = FALSE
    /\ run' = [run EXCEPT !.at = "start", !.todo = @ - 1]
    /\ UNCHANGED <<desc, buf, irqOwner, dma, status, moved, drained>>

(* i2s_stream_try_start.                                                   *)
TryStart ==
    /\ At("start")
    /\ LET enough == IF Count < Prefill THEN Count ELSE Prefill
       IN  IF dev.error \/ dev.queued < enough
           THEN Goto("top") /\ UNCHANGED <<dev, dma, status>>
           ELSE IF dev.started
           THEN run' = [run EXCEPT !.at = "resume", !.ret = "top"] /\ UNCHANGED <<dev, dma, status>>
           ELSE StartDma /\ Goto("top")
    /\ UNCHANGED <<desc, buf, irqOwner, locked, accepted, moved, drained>>

-----------------------------------------------------------------------------
(* i2s_stream_poll, which takes no lock.                                   *)
PollStatus ==
    /\ At("poll")
    /\ status' = {}
    /\ IF "desc_error" \in status
       THEN /\ dma' = Off
            /\ dev' = [dev EXCEPT !.started = FALSE, !.error = TRUE]
            /\ Goto("polled")
       ELSE Goto("poll_queued") /\ UNCHANGED <<dev, dma>>
    /\ UNCHANGED <<desc, buf, irqOwner, locked, accepted, moved, drained>>

(* Its reclaim loop reads the count, ...                                   *)
PollQueued ==
    /\ At("poll_queued")
    /\ Goto(IF dev.queued > 0 THEN "poll_owner" ELSE "poll_resume")
    /\ UNCHANGED <<desc, buf, dev, irqOwner, dma, status, locked, accepted, moved, drained>>

(* ... the descriptor at the tail, and takes it.                           *)
PollOwner ==
    /\ At("poll_owner")
    /\ IF desc[dev.tail].owner # "CPU" THEN Goto("poll_resume") /\ UNCHANGED <<desc, dev>>
       ELSE /\ desc' = [desc EXCEPT ![dev.tail] = Free]
            /\ dev' = [dev EXCEPT !.tail = Succ(@), !.queued = (@ + CountMod - 1) % CountMod]
            /\ Goto("poll_queued")
    /\ UNCHANGED <<buf, irqOwner, dma, status, locked, accepted, moved, drained>>

PollResume ==
    /\ At("poll_resume")
    /\ IF dev.started /\ DmaIdle /\ dev.queued > 0 THEN StartDma
       ELSE /\ dev' = [dev EXCEPT !.started = @ /\ ~DmaIdle]
            /\ dma' = IF dev.started /\ DmaIdle THEN Off ELSE dma
            /\ UNCHANGED status
    /\ Goto("polled")
    /\ UNCHANGED <<desc, buf, irqOwner, locked, accepted, moved, drained>>

(* A wait that had to poll goes on to resume; the application's own call   *)
(* returns.                                                                *)
Polled ==
    /\ At("polled")
    /\ IF run.call = "poll" THEN Return ELSE Goto("resume")
    /\ UNCHANGED <<desc, buf, dev, irqOwner, dma, status, locked, accepted, moved, drained>>

-----------------------------------------------------------------------------
Program ==
    \/ Top \/ Test \/ WaitReclaim \/ Resume \/ Restart \/ Check
    \/ Fill \/ Link \/ Queue \/ TryStart
    \/ PollStatus \/ PollQueued \/ PollOwner \/ PollResume \/ Polled

Next ==
    \/ DmaLoad \/ DmaDone \/ Isr \/ OtherWake
    \/ Begin \/ Stop
    \/ \E n \in 1 .. MaxLen : Enter("write", n)
    \/ \E call \in {"drain", "poll"} : Enter(call, 0)
    \/ Program

Spec == Init /\ [][Next]_vars

(* The processor runs, the channel is clocked, and an interrupt that the   *)
(* application has, if it has one, comes again and again.                  *)
FairSpec ==
    /\ Spec
    /\ WF_vars(Program)
    /\ WF_vars(Isr)
    /\ WF_vars(DmaLoad \/ DmaDone)
    /\ WF_vars(OtherWake)
-----------------------------------------------------------------------------
Place ==
    {"idle", "top", "test", "reclaim", "resume", "restart", "check", "sleep", "fill", "link",
     "queue", "start", "poll", "poll_queued", "poll_owner", "poll_resume", "polled"}

TypeOK ==
    /\ desc \in [Slot -> [owner : {"CPU", "DMA"}, next : Slot \cup {NULL}, eof : BOOLEAN]]
    /\ buf \in [Slot -> 0 .. MaxChunks]
    /\ dev \in [mode : BOOLEAN, head : Slot, tail : Slot, queued : 0 .. CountMod - 1,
                started : BOOLEAN, error : BOOLEAN]
    /\ {irqOwner, locked} \subseteq BOOLEAN
    /\ dma \in [cur : Slot \cup {NULL}, next : Slot \cup {NULL}, eof : BOOLEAN]
    /\ status \subseteq {"done", "desc_error"}
    /\ run \in [at : Place, call : {"none", "write", "drain", "poll"},
                ret : {"idle", "check", "top"}, todo : 0 .. MaxLen, sleeps : 0 .. Sleeps]
    /\ {accepted, moved} \subseteq 0 .. MaxChunks
    /\ drained \in {"none", "true", "false"}

(* The queue is what the handle says: from the tail on, as many slots as   *)
(* are counted, the chunks written last in order, each the channel's until *)
(* it has been moved; every other slot is the program's and unlinked.      *)
(* Nothing the handler reclaims in between is counted twice or forgotten,  *)
(* and the channel has run into no descriptor of the program's.            *)
CountsTrue ==
    irqOwner /\ ~locked =>
        /\ ~dev.error
        /\ dev.queued <= Count
        /\ dev.head = (dev.tail + dev.queued) % Count
        /\ \A k \in 0 .. dev.queued - 1 :
              LET i == (dev.tail + k) % Count
              IN  /\ buf[i] = accepted - dev.queued + 1 + k
                  /\ desc[i].owner = "CPU" <=> buf[i] <= moved
        /\ \A k \in dev.queued .. Count - 1 : desc[(dev.tail + k) % Count] = Free

(* The channel never loads a descriptor that neither ends the stream nor   *)
(* has a successor.                                                        *)
NoLooseEnd == dma.cur # NULL => dma.next # NULL \/ dma.eof

(* Counts, owners and links agree with what was accepted and moved.        *)
QueueTrue == CountsTrue /\ NoLooseEnd

(* Every chunk is moved once and in order, however often the channel       *)
(* parks and is started again.                                             *)
MovedInOrder ==
    [][irqOwner => moved' = moved + 1 \/ (run.at = "idle" /\ moved' = 0)]_moved

(* A drain that reports success has let every chunk be moved to the I2S    *)
(* peripheral; it does not wait until the peripheral has played the last.  *)
DrainTrueMeansMoved == irqOwner /\ drained = "true" => moved = accepted

(* With another interrupt to wake the processor, every call returns.       *)
EveryCallReturns == run.at # "idle" ~> run.at = "idle"

(* i2s_stream_poll may be called at any time: the count of used buffers    *)
(* stays a number of buffers.                                              *)
CountWithinBuffers == dev.queued <= Count
=============================================================================
