----------------------------- MODULE SdmmcHost ------------------------------
(***************************************************************************)
(* drivers/sdmmc/sdmmc.c: the SD card behind the SDMMC controller, polled, *)
(* one sector at a time, through one DMA descriptor and one bounce buffer. *)
(* The controller works beside the driver.  A transfer the driver gave up  *)
(* goes on in it until the next transfer resets FIFO and DMA: the call     *)
(* returns, "cmd" and "flight" stay.                                       *)
(*                                                                         *)
(* Controller and card are external.  A command starts when the transfer   *)
(* before it is over (wait_complete); resetting FIFO and DMA ends the      *)
(* transfer they belong to; a card that programs a sector holds the data   *)
(* line busy and takes no other data command.                              *)
(***************************************************************************)
EXTENDS Integers, FiniteSets

CONSTANTS Lba, Value,
    Fails,          \* the waits that may run out and the errors that may happen
    MaxTries,       \* SDMMC_ACMD41_MAX_TRIES, 1000
    MaxInit         \* bound: calls of sdmmc_init

Waits == {"idle", "taken", "reset", "accept", "data"}
Errors == {"response", "transfer", "identify"}

(* What the constants must be; SdCard assumes it of both drivers.          *)
Parameters ==
    /\ Lba # {} /\ Value # {}
    /\ Fails \subseteq Waits \cup Errors
    /\ MaxTries \in Nat \ {0} /\ MaxInit \in Nat

VARIABLES
    (* The card.                                                           *)
    cells,          \* its sectors
    prog,           \* the write it is programming
    mode,           \* its state: "idle", "ready", "ident", "stby" or "tran"
    sdhc,           \* it counts in sectors, not in bytes
    wide,           \* it uses four data lines
    (* The controller.                                                     *)
    cmd,            \* the command that waits to be taken (start_command)
    flight,         \* the transfer it is doing
    stage,          \* what that transfer has done: "sent", "answer", "dma", "over"
    carried,        \* the sector it carries
    events,         \* raw event bits of both status registers
    bounce,         \* s_sdmmc_dma_bounce
    (* The driver.                                                         *)
    initialized,    \* s_initialized
    highCapacity,   \* s_high_capacity
    pc, call,
    seen,           \* data_done and dma_done
    buffer,         \* the caller's buffer of a read
    tries,          \* rounds of ACMD41
    result,         \* what the last call returned
    inits,          \* bound
    overlap         \* history: what two transfers have shared: "bounce", one that
                    \* was given up overwrote or took the data of the next; "fifo",
                    \* one was started under another

card == <<cells, prog, mode, sdhc, wide>>
controller == <<cmd, flight, stage, carried, events, bounce>>
flags == <<initialized, highCapacity>>
history == <<inits, overlap>>
vars == <<card, controller, flags, pc, call, seen, buffer, tries, result, history>>

Dev == INSTANCE SectorDevice
    WITH doubt <- {w \in {call, cmd, flight, prog} : w.op = "write"}

NoCall == Dev!NoCall
Busy == prog # NoCall
Quiet == cmd = NoCall /\ flight = NoCall

Init ==
    /\ cells \in [Lba -> Value] /\ prog = NoCall
    /\ mode = "idle" /\ sdhc \in BOOLEAN /\ wide = FALSE
    /\ cmd = NoCall /\ flight = NoCall /\ stage = {} /\ events = {}
    /\ carried \in Value /\ bounce = carried
    /\ initialized = FALSE /\ highCapacity = FALSE
    /\ pc = "idle" /\ call = NoCall /\ seen = {} /\ tries = 0 /\ buffer = carried
    /\ result = Dev!Failed /\ inits = 0 /\ overlap = {}

-----------------------------------------------------------------------------
(* The controller and the card.                                            *)

TakeCommand ==
    /\ cmd # NoCall /\ flight = NoCall
    /\ flight' = cmd /\ stage' = {} /\ cmd' = NoCall
    /\ UNCHANGED <<card, carried, events, bounce, flags, pc, call, seen, buffer, tries, result, history>>

(* The card's answer; without one, or with a card that is still busy, the  *)
(* transfer ends in an error.                                              *)
Answer ==
    /\ flight # NoCall /\ "answer" \notin stage
    /\ \/ /\ ~Busy /\ mode = "tran"
          /\ stage' = {"answer"}
          /\ UNCHANGED <<flight, events>>
       \/ /\ Busy \/ mode # "tran" \/ "response" \in Fails
          /\ events' = events \cup {"cmd_error"}
          /\ flight' = NoCall /\ stage' = {}
    /\ UNCHANGED <<card, cmd, carried, bounce, flags, pc, call, seen, buffer, tries, result, history>>

Ends(st) ==
    IF {"dma", "over"} \subseteq st
    THEN flight' = NoCall /\ stage' = {}
    ELSE stage' = st /\ UNCHANGED flight

(* The flight reads over the data of a write that begins, or takes them.   *)
Crosses ==
    IF flight.op = "read" THEN call.op = "write" ELSE bounce # flight.val

(* The DMA channel moves the sector between the FIFO and the bounce buffer.*)
Dma ==
    /\ "answer" \in stage /\ "dma" \notin stage
    /\ IF flight.op = "read"
       THEN bounce' = cells[flight.lba] /\ UNCHANGED carried
       ELSE carried' = bounce /\ UNCHANGED bounce
    /\ events' = events \cup {"dma"}
    /\ Ends(stage \cup {"dma"})
    /\ overlap' = IF Crosses THEN overlap \cup {"bounce"} ELSE overlap
    /\ UNCHANGED <<card, cmd, flags, pc, call, seen, buffer, tries, result, inits>>

(* DATA_OVER: the card has sent the sector, or has accepted it.            *)
Over ==
    /\ "answer" \in stage /\ "over" \notin stage
    /\ IF flight.op = "read"
       THEN UNCHANGED prog
       ELSE "dma" \in stage /\ prog' = [flight EXCEPT !.val = carried]
    /\ events' = events \cup {"over"}
    /\ Ends(stage \cup {"over"})
    /\ UNCHANGED <<cells, mode, sdhc, wide, cmd, carried, bounce>>
    /\ UNCHANGED <<flags, pc, call, seen, buffer, tries, result, history>>

TransferError ==
    /\ "answer" \in stage /\ "transfer" \in Fails
    /\ events' = events \cup {"data_error"}
    /\ flight' = NoCall /\ stage' = {}
    /\ UNCHANGED <<card, cmd, carried, bounce, flags, pc, call, seen, buffer, tries, result, history>>

Program ==
    /\ Busy
    /\ cells' = [cells EXCEPT ![prog.lba] = prog.val]
    /\ prog' = NoCall
    /\ UNCHANGED <<mode, sdhc, wide, controller, flags, pc, call, seen, buffer, tries, result, history>>

Hardware == TakeCommand \/ Answer \/ Dma \/ Over \/ TransferError \/ Program

-----------------------------------------------------------------------------
(* sdmmc_read_sector, sdmmc_write_sector, sdmmc_transfer_sector.           *)

Returns(r) ==
    /\ pc' = "idle" /\ call' = NoCall /\ seen' = {}
    /\ result' = r

NotReady ==
    /\ pc = "idle" /\ ~initialized
    /\ result' = Dev!Failed
    /\ UNCHANGED <<card, controller, flags, pc, call, seen, buffer, tries, history>>

(* The data of a write goes to the bounce buffer before anything else.     *)
Begin(c) ==
    /\ pc = "idle" /\ initialized
    /\ pc' = "wait_idle" /\ call' = c
    /\ bounce' = IF c.op = "write" THEN c.val ELSE bounce
    /\ UNCHANGED <<card, cmd, flight, stage, carried, events, flags, seen, buffer, tries, result, history>>

(* sdmmc_wait_data_idle, before a transfer.                                *)
WaitIdle ==
    /\ pc = "wait_idle"
    /\ \/ ~Busy /\ pc' = "wait_taken" /\ UNCHANGED <<call, seen, result>>
       \/ Busy /\ "idle" \in Fails /\ Returns(Dev!Failed)
    /\ UNCHANGED <<card, controller, flags, buffer, tries, history>>

WaitTaken ==
    /\ pc = "wait_taken"
    /\ \/ cmd = NoCall /\ pc' = "start" /\ UNCHANGED <<call, seen, result>>
       \/ cmd # NoCall /\ "taken" \in Fails /\ Returns(Dev!Failed)
    /\ UNCHANGED <<card, controller, flags, buffer, tries, history>>

(* FIFO and DMA are reset, the events cleared, descriptor and command      *)
(* written.  The wait for the reset cannot fail: when it runs out, its     *)
(* counter is not zero but the largest number, and the driver goes on with *)
(* a transfer that was not stopped.  (If the reset is done in the very     *)
(* last round the counter is zero, and the call fails.)                    *)
Start ==
    /\ pc = "start"
    /\ \/ /\ flight' = NoCall /\ stage' = {}
          /\ events' = {} /\ cmd' = call
          /\ pc' = "accept"
          /\ UNCHANGED <<call, seen, result, overlap>>
       \/ /\ "reset" \in Fails
          /\ events' = {} /\ cmd' = call
          /\ pc' = "accept"
          /\ overlap' = IF Quiet THEN overlap ELSE overlap \cup {"fifo"}
          /\ UNCHANGED <<flight, stage, call, seen, result>>
       \/ /\ "reset" \in Fails
          /\ flight' = NoCall /\ stage' = {}
          /\ Returns(Dev!Failed)
          /\ UNCHANGED <<events, cmd, overlap>>
    /\ UNCHANGED <<card, carried, bounce, flags, buffer, tries, inits>>

(* A command that is not taken in time stays where it is.                  *)
Accept ==
    /\ pc = "accept"
    /\ \/ cmd = NoCall /\ pc' = "poll" /\ UNCHANGED <<call, seen, result>>
       \/ cmd # NoCall /\ "accept" \in Fails /\ Returns(Dev!Failed)
    /\ UNCHANGED <<card, controller, flags, buffer, tries, history>>

(* Mutant: the transfer is over when the card is done.                     *)
FinishedEarly(s) == "over" \in s

(* Both the card and the DMA channel must be done.                         *)
Finished(s) == {"dma", "over"} \subseteq s

Erring == events \cap {"cmd_error", "data_error"} # {}

(* One round of the polling loop: an error ends the call, and so does the  *)
(* last round; what is done is remembered, and its bit cleared.            *)
Poll ==
    /\ pc = "poll"
    /\ events' = {}
    /\ \/ /\ Erring \/ ("data" \in Fails /\ ~Finished(seen \cup events))
          /\ Returns(Dev!Failed)
          /\ UNCHANGED buffer
       \/ /\ ~Erring
          /\ events # {} /\ ~Finished(seen \cup events)
          /\ seen' = seen \cup events
          /\ UNCHANGED <<pc, call, result, buffer>>
       \/ /\ ~Erring
          /\ Finished(seen \cup events)
          /\ seen' = seen \cup events
          /\ buffer' = IF call.op = "read" THEN bounce ELSE buffer
          /\ pc' = "settle"
          /\ UNCHANGED <<call, result>>
    /\ UNCHANGED <<card, cmd, flight, stage, carried, bounce, flags, tries, history>>

(* sdmmc_wait_data_idle again: a write is done when it is programmed.      *)
Settle ==
    /\ pc = "settle"
    /\ \/ ~Busy /\ Returns(IF call.op = "read" THEN Dev!Data(buffer) ELSE Dev!Done)
       \/ Busy /\ "idle" \in Fails /\ Returns(Dev!Failed)
    /\ UNCHANGED <<card, controller, flags, buffer, tries, history>>

-----------------------------------------------------------------------------
(* sdmmc_init.                                                             *)

(* Mutant: a driver that was initialised stays so until it is again.       *)
InitBeginKeepsFlag ==
    /\ pc = "idle" /\ inits < MaxInit
    /\ inits' = inits + 1
    /\ pc' = "controller"
    /\ UNCHANGED <<card, controller, flags, call, seen, buffer, tries, result, overlap>>

InitBegin ==
    /\ pc = "idle" /\ inits < MaxInit
    /\ inits' = inits + 1
    /\ initialized' = FALSE /\ highCapacity' = FALSE
    /\ pc' = "controller"
    /\ UNCHANGED <<card, controller, call, seen, buffer, tries, result, overlap>>

InitFails == pc' = "idle" /\ tries' = 0

(* The controller, the FIFO and the DMA channel are reset and the slow     *)
(* clock is set; the wait for the reset is that of Start.                  *)
ResetController ==
    /\ pc = "controller"
    /\ \/ /\ cmd' = NoCall /\ flight' = NoCall /\ stage' = {}
          /\ pc' = "CMD0"
          /\ UNCHANGED tries
       \/ /\ "reset" \in Fails
          /\ UNCHANGED <<cmd, flight, stage>>
          /\ pc' = "CMD0"
          /\ UNCHANGED tries
       \/ /\ "identify" \in Fails
          /\ cmd' = NoCall /\ flight' = NoCall /\ stage' = {}
          /\ InitFails
    /\ events' = {}
    /\ UNCHANGED <<card, carried, bounce, flags, call, seen, buffer, result, history>>

(* A card goes back to its first state from any other.  CMD0 has no        *)
(* response: that it is done does not show that the card has taken it, nor *)
(* that it is not done, that it has not.                                   *)
GoIdle ==
    /\ pc = "CMD0"
    /\ \/ /\ Quiet
          /\ mode' = "idle" /\ wide' = FALSE
       \/ /\ ~Quiet \/ "identify" \in Fails
          /\ UNCHANGED <<mode, wide>>
    /\ \/ /\ Quiet
          /\ pc' = "CMD8" /\ tries' = 0
       \/ /\ ~Quiet \/ "identify" \in Fails
          /\ InitFails
    /\ UNCHANGED <<cells, prog, sdhc, controller, flags, call, seen, buffer, result, history>>

(* ACMD41 is repeated until the card says that it is ready; an error is    *)
(* only another round.                                                     *)
SendOpCond ==
    /\ pc = "ACMD41"
    /\ \/ /\ Quiet /\ mode = "idle"
          /\ mode' = "ready"
          /\ highCapacity' = sdhc
          /\ pc' = "CMD2" /\ UNCHANGED tries
       \/ /\ ~Quiet \/ mode # "idle" \/ "identify" \in Fails
          /\ mode' \in IF mode = "idle" THEN {"idle", "ready"} ELSE {mode}
          /\ UNCHANGED highCapacity
          /\ IF tries + 1 = MaxTries
             THEN InitFails
             ELSE tries' = tries + 1 /\ UNCHANGED pc
    /\ UNCHANGED <<cells, prog, sdhc, wide, controller, initialized, call, seen, buffer>>
    /\ UNCHANGED <<result, history>>

(* The other commands: the state a card must be in, the state it goes to,  *)
(* and what the driver does next.                                          *)
Needs == [CMD8 |-> "idle", CMD2 |-> "ready", CMD3 |-> "ident", CMD9 |-> "stby", CMD7 |-> "stby", ACMD6 |-> "tran"]
Leads == [CMD8 |-> "idle", CMD2 |-> "ident", CMD3 |-> "stby", CMD9 |-> "stby", CMD7 |-> "tran", ACMD6 |-> "tran"]
After == [CMD8 |-> "ACMD41", CMD2 |-> "CMD3", CMD3 |-> "CMD9", CMD9 |-> "CMD7", CMD7 |-> "ACMD6", ACMD6 |-> "clock"]

(* A command that fails may have reached the card.  Without the card's     *)
(* capacity (CMD9) the driver goes on.                                     *)
Identify ==
    /\ pc \in DOMAIN Needs
    /\ \/ /\ Quiet /\ mode = Needs[pc]
          /\ mode' = Leads[pc]
          /\ wide' = (wide \/ pc = "ACMD6")
          /\ pc' = After[pc]
          /\ UNCHANGED tries
       \/ /\ ~Quiet \/ mode # Needs[pc] \/ "identify" \in Fails
          /\ mode' \in IF mode = Needs[pc] THEN {mode, Leads[pc]} ELSE {mode}
          /\ UNCHANGED wide
          /\ IF pc = "CMD9" THEN pc' = After[pc] /\ UNCHANGED tries ELSE InitFails
    /\ UNCHANGED <<cells, prog, sdhc, controller, flags, call, seen, buffer, result, history>>

SetClock ==
    /\ pc = "clock"
    /\ \/ initialized' = TRUE
       \/ "identify" \in Fails /\ UNCHANGED initialized
    /\ InitFails
    /\ UNCHANGED <<card, controller, highCapacity, call, seen, buffer, result, history>>

-----------------------------------------------------------------------------
Next ==
    \/ NotReady
    \/ \E c \in Dev!Read \cup Dev!Write : Begin(c)
    \/ WaitIdle \/ WaitTaken \/ Start \/ Accept \/ Poll \/ Settle
    \/ InitBegin \/ ResetController \/ GoIdle \/ SendOpCond \/ Identify \/ SetClock
    \/ Hardware

Spec == Init /\ [][Next]_vars

-----------------------------------------------------------------------------
Transfer == Dev!Read \cup Dev!Write \cup {NoCall}

TypeOK ==
    /\ cells \in [Lba -> Value]
    /\ prog \in Dev!Write \cup {NoCall}
    /\ mode \in {"idle", "ready", "ident", "stby", "tran"}
    /\ {sdhc, wide, initialized, highCapacity} \subseteq BOOLEAN
    /\ overlap \subseteq {"bounce", "fifo"}
    /\ {cmd, flight, call} \subseteq Transfer
    /\ stage \subseteq {"answer", "dma", "over"}
    /\ {carried, bounce, buffer} \subseteq Value
    /\ events \subseteq {"dma", "over", "cmd_error", "data_error"}
    /\ pc \in {"idle", "wait_idle", "wait_taken", "start", "accept", "poll", "settle",
              "controller", "CMD0", "ACMD41", "clock"} \cup DOMAIN Needs
    /\ seen \subseteq {"dma", "over"}
    /\ result \in {Dev!Failed, Dev!Done} \cup {Dev!Data(v) : v \in Value}
    /\ tries \in 0 .. MaxTries
    /\ inits \in 0 .. MaxInit

(* A driver that takes calls has a card that does: whatever failed in      *)
(* earlier attempts, the card is selected, four lines wide, and counts as  *)
(* the driver does.                                                        *)
ReadyMeansReady ==
    initialized => mode = "tran" /\ wide /\ highCapacity = sdhc

(* The driver is a sector device, whatever fails in whatever order and     *)
(* however late the controller is, as long as no two transfers share the   *)
(* bounce buffer or the FIFO.                                              *)
RefinesDevice == Dev!Init /\ [][overlap' = {} => Dev!Next]_<<Dev!vars>>

(* A read or write that returns SDMMC_OK has done what it was called for.  *)
(* (What comes of a shared bounce buffer is excepted here.)                *)
SuccessIsTrue ==
    [][result'.ok /\ call # NoCall /\ call' = NoCall /\ "bounce" \notin overlap =>
        CASE call.op = "read" -> result'.val = cells[call.lba]
          [] call.op = "write" -> cells[call.lba] = call.val]_vars
=============================================================================
