------------------------------- MODULE SdCard -------------------------------
(***************************************************************************)
(* The card as sdFat32.c sees it.  SDFAT32_SD_INIT, SDFAT32_SD_READ_SECTOR *)
(* and SDFAT32_SD_WRITE_SECTOR are one of the two drivers, chosen when the *)
(* program is built; both must be the same SectorDevice.                   *)
(***************************************************************************)
CONSTANTS Lba, Value, SpiFails, MmcFails, MaxTries, MaxInit, Boards

VARIABLES
    board,                                              \* the driver in use
    cells, prog, pc, call, tries, result, inits,        \* of both drivers
    serving, awake, line, edge,                         \* of SdSpi
    mode, sdhc, wide, cmd, flight, stage, carried, events, bounce,
    initialized, highCapacity, seen, buffer, overlap    \* of SdmmcHost

spiOnly == <<serving, awake, line, edge>>
mmcOnly == <<mode, sdhc, wide, cmd, flight, stage, carried, events, bounce,
             initialized, highCapacity, seen, buffer, overlap>>
vars == <<board, cells, prog, pc, call, tries, result, inits, spiOnly, mmcOnly>>

Spi == INSTANCE SdSpi WITH Fails <- SpiFails
Mmc == INSTANCE SdmmcHost WITH Fails <- MmcFails

ASSUME SdCardAssumption ==
    Boards \subseteq {"spi", "sdmmc"} /\ Spi!Parameters /\ Mmc!Parameters

(* The variables of the other driver keep their first values.              *)
Init ==
    /\ board \in Boards
    /\ Spi!Init
    /\ Mmc!Init
    /\ board = "spi" => ~sdhc

Next ==
    \/ board = "spi" /\ Spi!Next /\ UNCHANGED <<board, mmcOnly>>
    \/ board = "sdmmc" /\ Mmc!Next /\ UNCHANGED <<board, spiOnly>>

Spec == Init /\ [][Next]_vars

-----------------------------------------------------------------------------
TypeOK == IF board = "spi" THEN Spi!TypeOK ELSE Mmc!TypeOK

(* A driver that takes calls has a card that does: whatever failed in      *)
(* earlier attempts of sdmmc_init, the card is selected, four lines wide,  *)
(* and counts as the driver does.                                          *)
ReadyMeansReady == Mmc!ReadyMeansReady

Dev == INSTANCE SectorDevice
    WITH doubt <- {w \in {call, cmd, flight, prog} : w.op = "write"}

(* Either driver is a sector device, whatever fails and however late the   *)
(* card is: what a successful read returns is on the card, a successful    *)
(* write is on the card, and a write that was given up does not surface    *)
(* after a later success.  The coincidences that break it are the histories*)
(* edge (SdSpi) and overlap (SdmmcHost).                                   *)
RefinesDevice == Dev!Init /\ [][~edge' /\ overlap' = {} => Dev!Next]_<<Dev!vars>>

(* A read or write that returns SDMMC_OK has done what it was called for.  *)
SuccessIsTrue == Mmc!SuccessIsTrue
=============================================================================
