------------------------------- MODULE SdSpi --------------------------------
(***************************************************************************)
(* drivers/sd_spi/sd_spi.c: an SD card on a SPI bus.  The host clocks      *)
(* bytes; the card answers a command with R1, a read with a token and the  *)
(* data, a write with a data response, and then holds the line low, which  *)
(* reads 0x00, while it programs the sector.                               *)
(*                                                                         *)
(* The driver stops waiting for the programming after 100 ms (the card may *)
(* take longer) and forgets it: the next call speaks to a card that reads  *)
(* 0x00 whatever is said to it, and 0x00 is also R1's "ready".             *)
(*                                                                         *)
(* The card is external.  It is late only in programming: a read it has    *)
(* not answered within 250 ms it never answers.  It takes nothing of a     *)
(* data block for a command, and programs what it has accepted.  It counts *)
(* in sectors: the driver sends the number of the sector to every card,    *)
(* and reads the bit of the OCR that tells a card of standard capacity,    *)
(* which counts in bytes, without looking at it.  Such a card is left out. *)
(***************************************************************************)
EXTENDS Integers, FiniteSets

CONSTANTS Lba, Value,
    Fails,          \* the steps in which the card may fail to answer
    MaxTries,       \* bound of the attempts of CMD0 and ACMD41 (100 in the code)
    MaxInit         \* bound: calls of sd_init

(* What the constants must be; SdCard assumes it of both drivers.          *)
Parameters ==
    /\ Lba # {} /\ Value # {}
    /\ Fails \subseteq {"command", "token", "response", "programming", "init"}
    /\ MaxTries \in Nat /\ MaxInit \in Nat

VARIABLES
    (* The card.                                                           *)
    cells,          \* its sectors
    prog,           \* the write it is programming
    serving,        \* the command it has taken and not finished
    awake,          \* it has left the idle state
    (* The driver.                                                         *)
    pc,             \* what the call in progress does next
    call,           \* the call
    line,           \* what the card will answer to the command: R1
    tries,          \* cmd_attempts
    result,         \* what the last call returned
    inits,          \* bound
    edge            \* history: a wait for the data token ended on the very
                    \* byte in which the card stopped being busy

card == <<cells, prog, serving, awake>>
vars == <<card, pc, call, line, tries, result, inits, edge>>

Dev == INSTANCE SectorDevice WITH doubt <- {w \in {call, prog} : w.op = "write"}

NoCall == Dev!NoCall
Busy == prog # NoCall

Init ==
    /\ cells \in [Lba -> Value] /\ prog = NoCall /\ serving = NoCall /\ awake = FALSE
    /\ pc = "idle" /\ call = NoCall /\ line = "none" /\ tries = 0
    /\ result = Dev!Failed /\ inits = 0 /\ edge = FALSE

-----------------------------------------------------------------------------
(* The card.                                                               *)

Program ==
    /\ Busy
    /\ cells' = [cells EXCEPT ![prog.lba] = prog.val]
    /\ prog' = NoCall
    /\ UNCHANGED <<serving, awake, pc, call, line, tries, result, inits, edge>>

(* How the card takes a command it can serve: a busy one does not listen,  *)
(* one that is idle says so, and one may refuse or miss it.                *)
Takes(c) ==
    \/ /\ ~Busy /\ awake
       /\ serving' = c /\ line' = "ready"
    \/ /\ ~Busy /\ ~awake
       /\ serving' = NoCall /\ line' = "idle"
    \/ /\ Busy \/ "command" \in Fails
       /\ serving' = NoCall /\ line' = "none"
    \/ /\ ~Busy /\ "command" \in Fails
       /\ serving' = NoCall /\ line' = "error"

-----------------------------------------------------------------------------
(* The driver: sd_read_sector and sd_write_sector.                         *)

Returns(r) ==
    /\ pc' = "idle" /\ call' = NoCall /\ result' = r
    /\ serving' = NoCall /\ line' = "none"

Begin(c) ==
    /\ pc = "idle"
    /\ pc' = "command" /\ call' = c
    /\ UNCHANGED <<card, line, tries, result, inits, edge>>

SendCommand ==
    /\ pc = "command"
    /\ Takes(call)
    /\ pc' = "r1"
    /\ UNCHANGED <<cells, prog, awake, call, tries, result, inits, edge>>

(* sd_read_res1: the first byte that is not 0xFF, in nine.  A card that is *)
(* busy reads 0x00.                                                        *)
Res1 == IF Busy THEN "ready" ELSE line

ReadRes1 ==
    /\ pc = "r1"
    /\ IF Res1 = "ready"
       THEN /\ pc' = IF call.op = "read" THEN "token" ELSE "response"
            /\ UNCHANGED <<call, result, serving, line>>
       ELSE Returns(Dev!Failed)
    /\ UNCHANGED <<cells, prog, awake, tries, inits, edge>>

(* sd_read_start waits 250 times for 0xFE.  When the wait is over, the     *)
(* last byte is taken for the token, and any that is neither 0xFF nor of   *)
(* the form 0x0. passes for success: one in which a busy card releases the *)
(* line is (0x1F, 0x3F or 0x7F), and the buffer is then what it was.       *)
ReadToken ==
    /\ pc = "token"
    /\ \/ /\ serving.op = "read"
          /\ Returns(Dev!Data(cells[serving.lba]))
          /\ UNCHANGED <<cells, prog, edge>>
       \/ /\ serving.op # "read" \/ "token" \in Fails
          /\ Returns(Dev!Failed)
          /\ UNCHANGED <<cells, prog, edge>>
       \/ /\ Busy
          /\ cells' = [cells EXCEPT ![prog.lba] = prog.val] /\ prog' = NoCall
          /\ \E v \in Value : Returns(Dev!Data(v))
          /\ edge' = TRUE
    /\ UNCHANGED <<awake, tries, inits>>

(* The data goes out whether the card listens or not; 0xE5 means that it   *)
(* was accepted.  A card that is busy with another sector reads 0x00 here, *)
(* one that is not serving anything 0xFF.                                  *)
WriteData ==
    /\ pc = "response"
    /\ \/ /\ serving.op = "write"
          /\ prog' = serving
          /\ pc' = "busy"
          /\ UNCHANGED <<call, result, serving, line>>
       \/ /\ serving.op # "write" \/ "response" \in Fails
          /\ Returns(Dev!Failed)
          /\ UNCHANGED prog
    /\ UNCHANGED <<cells, awake, tries, inits, edge>>

WaitBusy ==
    /\ pc = "busy"
    /\ \/ ~Busy /\ Returns(Dev!Done)
       \/ Busy /\ "programming" \in Fails /\ Returns(Dev!Failed)
    /\ UNCHANGED <<cells, prog, awake, tries, inits, edge>>

-----------------------------------------------------------------------------
(* sd_init: CMD0 until the card says idle, CMD8, CMD55 with ACMD41 until   *)
(* it says ready, CMD58.  Nothing remembers that it failed.                *)

InitReturns == pc' = "idle" /\ tries' = 0

InitBegin ==
    /\ pc = "idle" /\ inits < MaxInit
    /\ inits' = inits + 1
    /\ pc' = "cmd0"
    /\ UNCHANGED <<card, call, line, tries, result, edge>>

(* Mutant: the attempts are not counted.                                   *)
LastTryNever == FALSE

LastTry == tries >= MaxTries

(* A card that is busy reads 0x00, which is not "idle".                    *)
GoIdle ==
    /\ pc = "cmd0"
    /\ \/ /\ ~Busy
          /\ awake' = FALSE
          /\ pc' = "cmd8" /\ tries' = 0
       \/ /\ Busy \/ "init" \in Fails
          /\ awake' \in IF Busy THEN {awake} ELSE {awake, FALSE}
          /\ IF LastTry
             THEN InitReturns
             ELSE tries' = tries + 1 /\ UNCHANGED pc
    /\ UNCHANGED <<cells, prog, serving, call, line, result, inits, edge>>

SendIfCond ==
    /\ pc = "cmd8"
    /\ \/ pc' = "acmd41" /\ UNCHANGED tries
       \/ "init" \in Fails /\ InitReturns
    /\ UNCHANGED <<card, call, line, result, inits, edge>>

SendOpCond ==
    /\ pc = "acmd41"
    /\ \/ /\ tries > MaxTries
          /\ InitReturns
          /\ UNCHANGED awake
       \/ /\ tries <= MaxTries
          /\ awake' = TRUE
          /\ pc' = "cmd58" /\ UNCHANGED tries
       \/ /\ tries <= MaxTries /\ "init" \in Fails
          /\ tries' = tries + 1
          /\ awake' \in {awake, TRUE}
          /\ UNCHANGED pc
    /\ UNCHANGED <<cells, prog, serving, call, line, result, inits, edge>>

ReadOcr ==
    /\ pc = "cmd58"
    /\ InitReturns
    /\ UNCHANGED <<card, call, line, result, inits, edge>>

-----------------------------------------------------------------------------
Next ==
    \/ \E c \in Dev!Read \cup Dev!Write : Begin(c)
    \/ SendCommand \/ ReadRes1 \/ ReadToken \/ WriteData \/ WaitBusy
    \/ InitBegin \/ GoIdle \/ SendIfCond \/ SendOpCond \/ ReadOcr
    \/ Program

Spec == Init /\ [][Next]_vars

-----------------------------------------------------------------------------
Call == Dev!Read \cup Dev!Write \cup {NoCall}

TypeOK ==
    /\ cells \in [Lba -> Value]
    /\ prog \in Dev!Write \cup {NoCall}
    /\ serving \in Call /\ call \in Call
    /\ awake \in BOOLEAN /\ edge \in BOOLEAN
    /\ pc \in {"idle", "command", "r1", "token", "response", "busy",
              "cmd0", "cmd8", "acmd41", "cmd58"}
    /\ line \in {"none", "ready", "idle", "error"}
    /\ result \in {Dev!Failed, Dev!Done} \cup {Dev!Data(v) : v \in Value}
    /\ tries \in 0 .. MaxTries + 1
    /\ inits \in 0 .. MaxInit

(* The driver is a sector device: what a successful read returns is what   *)
(* the card holds, a successful write is on the card, and a write that was *)
(* given up too early never comes between a later write and its success.   *)
(* One coincidence is excepted (see ReadToken).                            *)
RefinesDevice == Dev!Init /\ [][~edge' => Dev!Next]_<<Dev!vars>>
=============================================================================
