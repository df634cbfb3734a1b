---------------------------- MODULE SdCardProofs ----------------------------
(***************************************************************************)
(* Proofs about SdCard, for every set of sectors and contents, every set   *)
(* of failures and every bound: both drivers are sector devices, and a     *)
(* driver that takes calls has a card that does.                           *)
(***************************************************************************)
EXTENDS SdCard, Integers, TLAPS

Read == Dev!Read
Write == Dev!Write
NoCall == Dev!NoCall
Failed == Dev!Failed
Done == Dev!Done
Data(v) == Dev!Data(v)

(* The names of the two drivers for the same things.                       *)
LEMMA SpiNames ==
  /\ Spi!Dev!Read = Read /\ Spi!Dev!Write = Write
  /\ Spi!NoCall = NoCall /\ Spi!Dev!NoCall = NoCall
  /\ Spi!Dev!Failed = Failed /\ Spi!Dev!Done = Done
  /\ \A v : Spi!Dev!Data(v) = Data(v)
BY DEF Read, Write, NoCall, Failed, Done, Data, Dev!Read, Dev!Write, Dev!NoCall, Dev!Failed, Dev!Done, Dev!Data,
   Spi!NoCall, Spi!Dev!Read, Spi!Dev!Write, Spi!Dev!NoCall, Spi!Dev!Failed, Spi!Dev!Done, Spi!Dev!Data

LEMMA MmcNames ==
  /\ Mmc!Dev!Read = Read /\ Mmc!Dev!Write = Write
  /\ Mmc!NoCall = NoCall /\ Mmc!Dev!NoCall = NoCall
  /\ Mmc!Dev!Failed = Failed /\ Mmc!Dev!Done = Done
  /\ \A v : Mmc!Dev!Data(v) = Data(v)
BY DEF Read, Write, NoCall, Failed, Done, Data, Dev!Read, Dev!Write, Dev!NoCall, Dev!Failed, Dev!Done, Dev!Data,
   Mmc!NoCall, Mmc!Dev!Read, Mmc!Dev!Write, Mmc!Dev!NoCall, Mmc!Dev!Failed, Mmc!Dev!Done, Mmc!Dev!Data

Call == Read \cup Write \cup {NoCall}

LEMMA CallFacts ==
  /\ \A c \in Read : c.op = "read" /\ c.lba \in Lba /\ c # NoCall /\ c \notin Write
  /\ \A c \in Write : c.op = "write" /\ c.lba \in Lba /\ c.val \in Value /\ c # NoCall /\ c \notin Read
  /\ NoCall.op = "none" /\ NoCall \notin Read /\ NoCall \notin Write
  /\ \A c \in Write, v \in Value : [c EXCEPT !.val = v] \in Write /\ (v = c.val => [c EXCEPT !.val = v] = c)
BY DEF Read, Write, NoCall, Dev!Read, Dev!Write, Dev!NoCall

Results == {Failed, Done} \cup {Data(v) : v \in Value}

-----------------------------------------------------------------------------
(* The steps of a sector device.                                           *)

Doubt == {w \in {call, cmd, flight, prog} : w.op = "write"}

DevStep == Dev!Next \/ UNCHANGED Dev!vars

LEMMA Stutters ==
  ASSUME UNCHANGED <<cells, call, result>>, Doubt' = Doubt
  PROVE  DevStep
BY DEF DevStep, Dev!vars, Doubt

LEMMA Begins ==
  ASSUME NEW c \in Read \cup Write, call = NoCall, call' = c, UNCHANGED <<cells, result>>,
         Doubt' = IF c \in Write THEN Doubt \cup {c} ELSE Doubt
  PROVE  DevStep
<1>1. Dev!Begin(c)
  BY DEF Dev!Begin, Doubt, Read, Write, NoCall
<1> QED
  BY <1>1 DEF DevStep, Dev!Next, Read, Write

LEMMA Lands ==
  ASSUME NEW d \in Doubt, cells' = [cells EXCEPT ![d.lba] = d.val],
         Doubt' \in {Doubt, Doubt \ {d}}, UNCHANGED <<call, result>>
  PROVE  DevStep
<1>1. Dev!Land(d)
  BY DEF Dev!Land, Doubt
<1>2. d \in {w \in {call, cmd, flight, prog} : w.op = "write"}
  BY DEF Doubt
<1> QED
  BY <1>1, <1>2 DEF DevStep, Dev!Next

LEMMA Forgets ==
  ASSUME Doubt' \subseteq Doubt, call \in Doubt => call \in Doubt',
         UNCHANGED <<cells, call, result>>
  PROVE  DevStep
<1>1. Dev!Forget
  BY DEF Dev!Forget, Doubt
<1> QED
  BY <1>1 DEF DevStep, Dev!Next

LEMMA Succeeds ==
  ASSUME \/ call \in Read /\ result' = Data(cells[call.lba])
         \/ call \in Write /\ cells[call.lba] = call.val /\ result' = Done,
         Doubt' = {}, call' = NoCall, UNCHANGED cells
  PROVE  DevStep
<1>1. Dev!Succeed
  BY DEF Dev!Succeed, Doubt, Read, Write, NoCall, Data, Done
<1> QED
  BY <1>1 DEF DevStep, Dev!Next

LEMMA GivesUp ==
  ASSUME Doubt' \subseteq Doubt, call' = NoCall, result' = Failed, UNCHANGED cells
  PROVE  DevStep
<1>1. Dev!Fail
  BY DEF Dev!Fail, Doubt, NoCall, Failed
<1> QED
  BY <1>1 DEF DevStep, Dev!Next

-----------------------------------------------------------------------------
(* The card on a SPI bus.                                                  *)

SpiType ==
    /\ cells \in [Lba -> Value]
    /\ prog \in Write \cup {NoCall}
    /\ serving \in Call /\ call \in Call
    /\ awake \in BOOLEAN /\ edge \in BOOLEAN
    /\ pc \in {"idle", "command", "r1", "token", "response", "busy",
              "cmd0", "cmd8", "acmd41", "cmd58"}
    /\ line \in {"none", "ready", "idle", "error"}
    /\ result \in Results
    /\ tries \in 0 .. MaxTries + 1
    /\ inits \in 0 .. MaxInit

(* What a step of the call in progress may rely on.  A command the card    *)
(* serves is the call's own, and the card is not busy with another; once   *)
(* it has accepted the data it programs them, or has done so.              *)
SpiStage ==
    /\ call = NoCall <=> pc \in {"idle", "cmd0", "cmd8", "acmd41", "cmd58"}
    /\ pc = "token" => call \in Read
    /\ pc = "response" => call \in Write
    /\ pc \in {"r1", "token", "response"} => serving \in {NoCall, call} /\ (serving # NoCall => prog = NoCall)
    /\ pc = "busy" =>
          /\ call \in Write
          /\ prog = call \/ (prog = NoCall /\ cells[call.lba] = call.val)

SpiInv ==
    /\ SpiType /\ SpiStage
    /\ cmd = NoCall /\ flight = NoCall /\ overlap = {}

LEMMA SpiTypes == SpiType => Spi!TypeOK
BY SpiNames DEF SpiType, Spi!TypeOK, Spi!Call, Call, Results

LEMMA ResultFacts ==
  Failed \in Results /\ Done \in Results /\ \A v \in Value : Data(v) \in Results
BY DEF Results

LEMMA SpiReturns ==
  ASSUME NEW r, Spi!Returns(r)
  PROVE  pc' = "idle" /\ call' = NoCall /\ result' = r /\ serving' = NoCall /\ line' = "none"
BY SpiNames DEF Spi!Returns

(* A call that fails.                                                      *)
LEMMA SpiGivesUp ==
  ASSUME SpiInv, Spi!Returns(Failed),
         UNCHANGED <<cells, prog, awake, tries, inits, edge, cmd, flight, overlap>>
  PROVE  SpiInv' /\ DevStep
<1> USE DEF SpiType
<1>1. pc' = "idle" /\ call' = NoCall /\ result' = Failed /\ serving' = NoCall /\ line' = "none"
  BY SpiReturns
<1>2. SpiType'
  BY <1>1, ResultFacts DEF SpiInv, Call
<1>3. SpiStage'
  BY <1>1 DEF SpiStage
<1>4. Doubt' \subseteq Doubt
  BY <1>1, CallFacts DEF Doubt
<1> QED
  BY <1>1, <1>2, <1>3, <1>4, GivesUp DEF SpiInv

LEMMA SpiBegins ==
  ASSUME SpiInv, NEW c \in Read \cup Write, Spi!Begin(c), UNCHANGED mmcOnly
  PROVE  SpiInv' /\ DevStep
<1> USE DEF SpiType, mmcOnly
<1>1. /\ pc = "idle" /\ pc' = "command" /\ call' = c
      /\ UNCHANGED <<cells, prog, serving, awake, line, tries, result, inits, edge, cmd, flight, overlap>>
  BY DEF Spi!Begin, Spi!card
<1>2. call = NoCall /\ c # NoCall
  BY <1>1, CallFacts DEF SpiInv, SpiStage
<1>3. SpiType'
  BY <1>1 DEF SpiInv, Call
<1>4. SpiStage'
  BY <1>1, <1>2 DEF SpiStage
<1>5. Doubt' = IF c \in Write THEN Doubt \cup {c} ELSE Doubt
  BY <1>1, <1>2, CallFacts DEF Doubt
<1>6. DevStep
  BY <1>1, <1>2, <1>5, Begins
<1> QED
  BY <1>1, <1>3, <1>4, <1>6 DEF SpiInv

LEMMA SpiCommands ==
  ASSUME SpiInv, Spi!SendCommand, UNCHANGED mmcOnly
  PROVE  SpiInv' /\ DevStep
<1> USE DEF SpiType, mmcOnly
<1>1. /\ pc = "command" /\ pc' = "r1"
      /\ UNCHANGED <<cells, prog, awake, call, tries, result, inits, edge, cmd, flight, overlap>>
      /\ serving' \in {NoCall, call} /\ (serving' # NoCall => prog = NoCall)
      /\ line' \in {"none", "ready", "idle", "error"}
  BY SpiNames DEF Spi!SendCommand, Spi!Takes, Spi!Busy
<1>2. SpiType'
  BY <1>1 DEF SpiInv, Call
<1>3. SpiStage'
  BY <1>1 DEF SpiInv, SpiStage
<1>4. Doubt' = Doubt
  BY <1>1 DEF Doubt
<1> QED
  BY <1>1, <1>2, <1>3, <1>4, Stutters DEF SpiInv

LEMMA SpiReads1 ==
  ASSUME SpiInv, Spi!ReadRes1, UNCHANGED mmcOnly
  PROVE  SpiInv' /\ DevStep
<1> USE DEF SpiType, mmcOnly
<1>1. /\ pc = "r1" /\ UNCHANGED <<cells, prog, awake, tries, inits, edge, cmd, flight, overlap>>
      /\ \/ /\ pc' = IF call.op = "read" THEN "token" ELSE "response"
            /\ UNCHANGED <<call, result, serving, line>>
         \/ Spi!Returns(Failed)
  BY SpiNames DEF Spi!ReadRes1
<1>2. CASE Spi!Returns(Failed)
  BY <1>1, <1>2, SpiGivesUp
<1>3. CASE /\ pc' = IF call.op = "read" THEN "token" ELSE "response"
           /\ UNCHANGED <<call, result, serving, line>>
  <2>1. SpiType'
    BY <1>1, <1>3 DEF SpiInv
  <2>2. call \in Read \cup Write
    BY <1>1 DEF SpiInv, SpiStage, Call
  <2>3. SpiStage'
    BY <1>1, <1>3, <2>2, CallFacts DEF SpiInv, SpiStage
  <2>4. Doubt' = Doubt
    BY <1>1, <1>3 DEF Doubt
  <2> QED
    BY <1>1, <1>3, <2>1, <2>3, <2>4, Stutters DEF SpiInv
<1> QED
  BY <1>1, <1>2, <1>3

(* A token that comes is the answer to this call; the coincidence in which *)
(* any byte passes for one is excepted.                                    *)
LEMMA SpiTokens ==
  ASSUME SpiInv, Spi!ReadToken, UNCHANGED mmcOnly
  PROVE  SpiInv' /\ (~edge' => DevStep)
<1> USE DEF SpiType, mmcOnly
<1>1. /\ pc = "token" /\ UNCHANGED <<awake, tries, inits, cmd, flight, overlap>>
      /\ \/ /\ serving.op = "read" /\ Spi!Returns(Data(cells[serving.lba]))
            /\ UNCHANGED <<cells, prog, edge>>
         \/ Spi!Returns(Failed) /\ UNCHANGED <<cells, prog, edge>>
         \/ /\ prog # NoCall
            /\ cells' = [cells EXCEPT ![prog.lba] = prog.val] /\ prog' = NoCall
            /\ edge'
            /\ \E v \in Value : Spi!Returns(Data(v))
  BY SpiNames DEF Spi!ReadToken, Spi!Busy
<1>2. CASE Spi!Returns(Failed) /\ UNCHANGED <<cells, prog, edge>>
  BY <1>1, <1>2, SpiGivesUp
<1>3. ASSUME NEW v \in Value, Spi!Returns(Data(v)), cells' \in [Lba -> Value],
             prog' \in Write \cup {NoCall}, edge' \in BOOLEAN
      PROVE  SpiInv'
  <2>1. /\ pc' = "idle" /\ call' = NoCall /\ result' = Data(v) /\ serving' = NoCall /\ line' = "none"
        /\ result' \in Results
    BY <1>3, SpiReturns, ResultFacts
  <2>2. SpiType'
    BY <1>1, <1>3, <2>1 DEF SpiInv, Call
  <2>3. SpiStage'
    BY <2>1 DEF SpiStage
  <2> QED
    BY <1>1, <2>2, <2>3 DEF SpiInv
<1>4. CASE /\ serving.op = "read" /\ Spi!Returns(Data(cells[serving.lba]))
           /\ UNCHANGED <<cells, prog, edge>>
  <2>1. serving = call /\ call \in Read /\ prog = NoCall
    BY <1>1, <1>4, CallFacts DEF SpiInv, SpiStage
  <2>2. cells[call.lba] \in Value
    BY <2>1, CallFacts DEF SpiInv
  <2>3. SpiInv'
    BY <1>3, <1>4, <2>1, <2>2 DEF SpiInv
  <2>4. call' = NoCall /\ result' = Data(cells[call.lba])
    BY <1>4, <2>1, SpiReturns
  <2>5. Doubt' = {}
    BY <1>1, <1>4, <2>1, <2>4, CallFacts DEF SpiInv, Doubt
  <2> QED
    BY <1>4, <2>1, <2>3, <2>4, <2>5, Succeeds
<1>5. CASE /\ prog # NoCall
           /\ cells' = [cells EXCEPT ![prog.lba] = prog.val] /\ prog' = NoCall
           /\ edge'
           /\ \E v \in Value : Spi!Returns(Data(v))
  <2>1. cells' \in [Lba -> Value]
    BY <1>5, CallFacts DEF SpiInv
  <2>2. edge' \in BOOLEAN
    BY SpiNames, <1>5 DEF Spi!ReadToken, SpiInv
  <2> QED
    BY <1>3, <1>5, <2>1, <2>2
<1> QED
  BY <1>1, <1>2, <1>4, <1>5

LEMMA SpiWrites ==
  ASSUME SpiInv, Spi!WriteData, UNCHANGED mmcOnly
  PROVE  SpiInv' /\ DevStep
<1> USE DEF SpiType, mmcOnly
<1>1. /\ pc = "response" /\ UNCHANGED <<cells, awake, tries, inits, edge, cmd, flight, overlap>>
      /\ \/ /\ serving.op = "write" /\ prog' = serving /\ pc' = "busy"
            /\ UNCHANGED <<call, result, serving, line>>
         \/ Spi!Returns(Failed) /\ UNCHANGED prog
  BY SpiNames DEF Spi!WriteData
<1>2. CASE Spi!Returns(Failed) /\ UNCHANGED prog
  BY <1>1, <1>2, SpiGivesUp
<1>3. CASE /\ serving.op = "write" /\ prog' = serving /\ pc' = "busy"
           /\ UNCHANGED <<call, result, serving, line>>
  <2>1. serving = call /\ call \in Write /\ prog = NoCall
    BY <1>1, <1>3, CallFacts DEF SpiInv, SpiStage
  <2>2. SpiType'
    BY <1>1, <1>3, <2>1 DEF SpiInv
  <2>3. SpiStage'
    BY <1>1, <1>3, <2>1, CallFacts DEF SpiStage
  <2>4. Doubt' = Doubt
    BY <1>1, <1>3, <2>1, CallFacts DEF SpiInv, Doubt
  <2> QED
    BY <1>1, <1>3, <2>2, <2>3, <2>4, Stutters DEF SpiInv
<1> QED
  BY <1>1, <1>2, <1>3

LEMMA SpiWaits ==
  ASSUME SpiInv, Spi!WaitBusy, UNCHANGED mmcOnly
  PROVE  SpiInv' /\ DevStep
<1> USE DEF SpiType, mmcOnly
<1>1. /\ pc = "busy" /\ UNCHANGED <<cells, prog, awake, tries, inits, edge, cmd, flight, overlap>>
      /\ \/ prog = NoCall /\ Spi!Returns(Done)
         \/ Spi!Returns(Failed)
  BY SpiNames DEF Spi!WaitBusy, Spi!Busy
<1>2. CASE Spi!Returns(Failed)
  BY <1>1, <1>2, SpiGivesUp
<1>3. CASE prog = NoCall /\ Spi!Returns(Done)
  <2>1. pc' = "idle" /\ call' = NoCall /\ result' = Done /\ serving' = NoCall /\ line' = "none"
    BY <1>3, SpiReturns
  <2>2. call \in Write /\ cells[call.lba] = call.val
    BY <1>1, <1>3, CallFacts DEF SpiInv, SpiStage
  <2>3. SpiType'
    BY <1>1, <2>1, ResultFacts DEF SpiInv, Call
  <2>4. SpiStage'
    BY <2>1 DEF SpiStage
  <2>5. Doubt' = {}
    BY <1>1, <1>3, <2>1, CallFacts DEF SpiInv, Doubt
  <2>6. DevStep
    BY <1>1, <2>1, <2>2, <2>5, Succeeds
  <2> QED
    BY <1>1, <2>3, <2>4, <2>6 DEF SpiInv
<1> QED
  BY <1>1, <1>2, <1>3

LEMMA SpiPrograms ==
  ASSUME SpiInv, Spi!Program, UNCHANGED mmcOnly
  PROVE  SpiInv' /\ DevStep
<1> USE DEF SpiType, mmcOnly
<1>1. /\ prog # NoCall /\ prog' = NoCall /\ cells' = [cells EXCEPT ![prog.lba] = prog.val]
      /\ UNCHANGED <<serving, awake, pc, call, line, tries, result, inits, edge, cmd, flight, overlap>>
  BY SpiNames DEF Spi!Program, Spi!Busy
<1>2. prog \in Write /\ prog.lba \in Lba /\ prog.val \in Value
  BY <1>1, CallFacts DEF SpiInv
<1>3. SpiType'
  BY <1>1, <1>2 DEF SpiInv
<1>4. pc = "busy" => call = prog /\ cells'[prog.lba] = prog.val
  BY <1>1, <1>2 DEF SpiInv, SpiStage
<1>5. SpiStage'
  BY <1>1, <1>4, CallFacts DEF SpiInv, SpiStage
<1>6. prog \in Doubt /\ Doubt' \in {Doubt, Doubt \ {prog}}
  BY <1>1, <1>2, CallFacts DEF SpiInv, Doubt
<1>7. DevStep
  BY <1>1, <1>6, Lands
<1> QED
  BY <1>1, <1>3, <1>5, <1>7 DEF SpiInv

(* sd_init is not a call of the device.                                    *)
LEMMA SpiInits ==
  ASSUME SpiInv, UNCHANGED mmcOnly,
         Spi!InitBegin \/ Spi!GoIdle \/ Spi!SendIfCond \/ Spi!SendOpCond \/ Spi!ReadOcr
  PROVE  SpiInv' /\ DevStep
<1> USE DEF SpiType, mmcOnly
<1>1. /\ UNCHANGED <<cells, prog, serving, call, line, result, edge, cmd, flight, overlap>>
      /\ {pc, pc'} \subseteq {"idle", "cmd0", "cmd8", "acmd41", "cmd58"}
  BY DEF Spi!InitBegin, Spi!GoIdle, Spi!SendIfCond, Spi!SendOpCond, Spi!ReadOcr, Spi!InitReturns, Spi!card, SpiInv
<1>2. MaxTries \in Nat /\ MaxInit \in Nat
  BY SdCardAssumption DEF Spi!Parameters
<1>3. inits' \in 0 .. MaxInit /\ tries' \in 0 .. MaxTries + 1
  <2>1. inits \in 0 .. MaxInit /\ tries \in 0 .. MaxTries + 1
    BY DEF SpiInv
  <2>2. CASE Spi!InitBegin
    BY <1>2, <2>1, <2>2 DEF Spi!InitBegin
  <2>3. CASE Spi!GoIdle
    <3>1. inits' = inits /\ (tries' = 0 \/ (tries' = tries + 1 /\ ~Spi!LastTry))
      BY <2>3 DEF Spi!GoIdle, Spi!InitReturns
    <3>2. Spi!LastTry <=> tries >= MaxTries
      BY DEF Spi!LastTry
    <3> QED
      BY <1>2, <2>1, <3>1, <3>2
  <2>4. CASE Spi!SendIfCond
    BY <1>2, <2>1, <2>4 DEF Spi!SendIfCond, Spi!InitReturns
  <2>5. CASE Spi!SendOpCond
    <3>1. inits' = inits /\ (tries' = 0 \/ tries' = tries \/ (tries' = tries + 1 /\ tries <= MaxTries))
      BY <2>5 DEF Spi!SendOpCond, Spi!InitReturns
    <3> QED
      BY <1>2, <2>1, <3>1
  <2>6. CASE Spi!ReadOcr
    BY <1>2, <2>1, <2>6 DEF Spi!ReadOcr, Spi!InitReturns
  <2> QED
    BY <2>2, <2>3, <2>4, <2>5, <2>6
<1>4. awake' \in BOOLEAN
  BY DEF Spi!InitBegin, Spi!GoIdle, Spi!SendIfCond, Spi!SendOpCond, Spi!ReadOcr, Spi!card, SpiInv
<1>5. SpiType'
  BY <1>1, <1>3, <1>4 DEF SpiInv
<1>6. SpiStage'
  BY <1>1 DEF SpiInv, SpiStage
<1>7. Doubt' = Doubt
  BY <1>1 DEF Doubt
<1> QED
  BY <1>1, <1>5, <1>6, <1>7, Stutters DEF SpiInv

LEMMA SpiStep ==
  ASSUME SpiInv, Spi!Next, UNCHANGED mmcOnly
  PROVE  SpiInv' /\ (~edge' => DevStep)
BY SpiNames, SpiBegins, SpiCommands, SpiReads1, SpiTokens, SpiWrites, SpiWaits, SpiPrograms, SpiInits
   DEF Spi!Next

-----------------------------------------------------------------------------
(* The card behind the SDMMC controller.                                   *)

Driving == {"wait_idle", "wait_taken", "start", "accept", "poll", "settle"}
Identifying == {"CMD8", "CMD2", "CMD3", "CMD9", "CMD7", "ACMD6"}

MmcType ==
    /\ cells \in [Lba -> Value]
    /\ prog \in Write \cup {NoCall}
    /\ mode \in {"idle", "ready", "ident", "stby", "tran"}
    /\ sdhc \in BOOLEAN /\ wide \in BOOLEAN
    /\ initialized \in BOOLEAN /\ highCapacity \in BOOLEAN
    /\ overlap \subseteq {"bounce", "fifo"}
    /\ cmd \in Call /\ flight \in Call /\ call \in Call
    /\ stage \subseteq {"answer", "dma", "over"}
    /\ carried \in Value /\ bounce \in Value /\ buffer \in Value
    /\ events \subseteq {"dma", "over", "cmd_error", "data_error"}
    /\ pc \in {"idle", "controller", "CMD0", "ACMD41", "clock"} \cup Driving \cup Identifying
    /\ seen \subseteq {"dma", "over"}
    /\ result \in Results
    /\ tries \in 0 .. MaxTries - 1
    /\ inits \in 0 .. MaxInit

(* What sdmmc_init has established when it is where it is.                 *)
MmcReady ==
    /\ initialized =>
          mode = "tran" /\ wide /\ highCapacity = sdhc /\ pc \in {"idle"} \cup Driving
    /\ pc \in {"CMD2", "CMD3", "CMD9", "CMD7", "ACMD6", "clock"} => highCapacity = sdhc
    /\ pc \in {"ACMD6", "clock"} => mode = "tran"
    /\ pc = "clock" => wide

MmcStage ==
    /\ call # NoCall <=> pc \in Driving
    /\ pc \in {"start", "poll", "settle"} => cmd = NoCall
    /\ seen # {} => pc \in {"poll", "settle"}
    /\ flight = NoCall => stage = {}
    /\ "answer" \notin stage => stage = {}

Errs == {"cmd_error", "data_error"}

(* The transfer of the call in progress waits to be taken, or is under     *)
(* way, or is over: with an error the driver has not seen yet, or done.    *)
Waiting == cmd = call /\ flight = NoCall /\ events = {} /\ seen = {}

Moving ==
    /\ cmd = NoCall /\ flight = call
    /\ \A e \in {"dma", "over"} : e \in stage <=> e \in events \cup seen
    /\ ~({"dma", "over"} \subseteq stage)
    /\ call \in Read =>
          /\ "answer" \in stage => prog = NoCall
          /\ "dma" \in stage => bounce = cells[call.lba]
    /\ call \in Write => "over" \notin stage

Stored == prog = call \/ (prog = NoCall /\ cells[call.lba] = call.val)

Landed ==
    /\ {"dma", "over"} \subseteq seen \cup events
    /\ call \in Read => prog = NoCall /\ bounce = cells[call.lba]
    /\ call \in Write => Stored

Finished == cmd = NoCall /\ flight = NoCall /\ (Errs \cap events # {} \/ Landed)

(* As long as no two transfers share the bounce buffer or the FIFO.        *)
MmcOwned ==
    /\ call \in Write => bounce = call.val
    /\ flight \in Write /\ "dma" \in stage => carried = flight.val
    /\ pc \in {"accept", "poll"} => Waiting \/ Moving \/ Finished
    /\ pc = "settle" =>
          /\ cmd = NoCall /\ flight = NoCall
          /\ call \in Read => prog = NoCall /\ buffer = cells[call.lba]
          /\ call \in Write => Stored

MmcInv == MmcType /\ MmcReady /\ MmcStage /\ (overlap = {} => MmcOwned)

LEMMA Bounds == MaxTries \in Nat \ {0} /\ MaxInit \in Nat
BY SdCardAssumption DEF Mmc!Parameters

LEMMA MmcTypes ==
  MmcType => Mmc!TypeOK
<1>1. DOMAIN Mmc!Needs = Identifying
  BY DEF Mmc!Needs, Identifying
<1> QED
  BY <1>1, MmcNames, Bounds DEF MmcType, Mmc!TypeOK, Mmc!Transfer, Call, Results, Driving

(* Hardware changes none of these, and these change nothing of hardware's. *)
Driver == <<initialized, highCapacity, pc, call, seen, buffer, tries, result, inits>>
Hard == <<cells, prog, sdhc, cmd, flight, stage, carried, events, bounce>>

LEMMA HardwareSteps ==
  ASSUME MmcInv, Mmc!Hardware
  PROVE  UNCHANGED <<Driver, mode, wide, sdhc>>
BY DEF Mmc!Hardware, Mmc!TakeCommand, Mmc!Answer, Mmc!Dma, Mmc!Over, Mmc!TransferError, Mmc!Program,
   Mmc!card, Mmc!controller, Mmc!flags, Mmc!history, Driver

LEMMA Ending ==
  ASSUME NEW st, Mmc!Ends(st)
  PROVE  \/ {"dma", "over"} \subseteq st /\ flight' = NoCall /\ stage' = {}
         \/ ~({"dma", "over"} \subseteq st) /\ flight' = flight /\ stage' = st
BY MmcNames DEF Mmc!Ends

LEMMA MmcReturns ==
  ASSUME NEW r, Mmc!Returns(r)
  PROVE  pc' = "idle" /\ call' = NoCall /\ seen' = {} /\ result' = r
BY MmcNames DEF Mmc!Returns

Commands ==
    Mmc!InitBegin \/ Mmc!ResetController \/ Mmc!GoIdle \/ Mmc!SendOpCond \/ Mmc!Identify \/ Mmc!SetClock

LEMMA NeedsFacts ==
  /\ DOMAIN Mmc!Needs = Identifying
  /\ \A p \in Identifying :
        /\ Mmc!Needs[p] \in {"idle", "ready", "ident", "stby", "tran"}
        /\ Mmc!Leads[p] \in {"idle", "ready", "ident", "stby", "tran"}
        /\ Mmc!After[p] \in {"ACMD41", "clock"} \cup Identifying
        /\ p = "ACMD6" => Mmc!Needs[p] = "tran" /\ Mmc!Leads[p] = "tran"
        /\ Mmc!After[p] = "clock" => p = "ACMD6"
        /\ Mmc!After[p] = "ACMD6" => p = "CMD7"
        /\ p = "CMD7" => Mmc!Leads[p] = "tran"
        /\ p = "CMD8" => Mmc!After[p] = "ACMD41"
BY DEF Mmc!Needs, Mmc!Leads, Mmc!After, Identifying

(* sdmmc_init.                                                             *)
LEMMA CommandSteps ==
  ASSUME MmcInv, Commands
  PROVE  MmcType' /\ MmcReady' /\ MmcStage'
<1> USE DEF MmcType, MmcReady, MmcStage, Driving, Identifying
<1>1. CASE Mmc!InitBegin
  <2>1. /\ pc = "idle" /\ pc' = "controller" /\ inits < MaxInit /\ inits' = inits + 1
        /\ initialized' = FALSE /\ highCapacity' = FALSE
        /\ UNCHANGED <<Hard, mode, wide, call, seen, buffer, tries, result, overlap>>
    BY <1>1 DEF Mmc!InitBegin, Mmc!card, Mmc!controller, Hard
  <2>2. inits' \in 0 .. MaxInit
    BY <2>1, Bounds DEF MmcInv
  <2> QED
    BY <2>1, <2>2 DEF MmcInv, Hard
<1>2. CASE Mmc!ResetController
  <2>1. /\ pc = "controller" /\ pc' \in {"CMD0", "idle"} /\ tries' \in {0, tries} /\ events' = {}
        /\ cmd' \in {NoCall, cmd}
        /\ (flight' = NoCall /\ stage' = {}) \/ (flight' = flight /\ stage' = stage)
        /\ UNCHANGED <<cells, prog, mode, sdhc, wide, carried, bounce>>
        /\ UNCHANGED <<initialized, highCapacity, call, seen, buffer, result, inits, overlap>>
    BY <1>2, MmcNames DEF Mmc!ResetController, Mmc!InitFails, Mmc!card, Mmc!flags, Mmc!history
  <2>2. tries' \in 0 .. MaxTries - 1
    BY <2>1, Bounds DEF MmcInv
  <2>3. cmd' \in Call /\ flight' \in Call /\ stage' \subseteq {"answer", "dma", "over"}
    BY <2>1 DEF MmcInv, Call
  <2> QED
    BY <2>1, <2>2, <2>3 DEF MmcInv
<1>3. CASE Mmc!GoIdle
  <2>1. /\ pc = "CMD0" /\ pc' \in {"CMD8", "idle"} /\ tries' = 0
        /\ mode' \in {mode, "idle"} /\ wide' \in BOOLEAN
        /\ UNCHANGED <<Hard, initialized, highCapacity, call, seen, buffer, result, inits, overlap>>
    BY <1>3 DEF Mmc!GoIdle, Mmc!InitFails, Mmc!controller, Mmc!flags, Mmc!history, Hard, MmcInv
  <2>2. tries' \in 0 .. MaxTries - 1
    BY <2>1, Bounds
  <2> QED
    BY <2>1, <2>2 DEF MmcInv, Hard
<1>4. CASE Mmc!SendOpCond
  <2>1. /\ pc = "ACMD41"
        /\ mode' \in {mode, "idle", "ready"}
        /\ UNCHANGED <<Hard, wide, initialized, call, seen, buffer, result, inits, overlap>>
        /\ \/ pc' = "CMD2" /\ highCapacity' = sdhc
           \/ pc' \in {"idle", "ACMD41"} /\ highCapacity' = highCapacity
    BY <1>4 DEF Mmc!SendOpCond, Mmc!InitFails, Mmc!controller, Mmc!history, Hard
  <2>2. tries' = 0 \/ tries' = tries \/ (tries' = tries + 1 /\ tries + 1 # MaxTries)
    BY <1>4 DEF Mmc!SendOpCond, Mmc!InitFails
  <2>3. tries' \in 0 .. MaxTries - 1
    BY <2>2, Bounds DEF MmcInv
  <2> QED
    BY <2>1, <2>3 DEF MmcInv, Hard
<1>5. CASE Mmc!Identify
  <2>1. pc \in Identifying
    BY <1>5, NeedsFacts DEF Mmc!Identify
  <2>2. /\ UNCHANGED <<Hard, initialized, highCapacity, call, seen, buffer, result, inits, overlap>>
        /\ tries' \in {0, tries}
        /\ \/ /\ mode' = Mmc!Leads[pc] /\ pc' = Mmc!After[pc]
              /\ wide' = (wide \/ pc = "ACMD6")
           \/ /\ mode' \in {mode, Mmc!Leads[pc]} /\ wide' = wide
              /\ pc' = "idle" \/ (pc = "CMD9" /\ pc' = Mmc!After[pc])
    BY <1>5 DEF Mmc!Identify, Mmc!InitFails, Mmc!controller, Mmc!flags, Mmc!history, Hard
  <2>3. tries' \in 0 .. MaxTries - 1
    BY <2>2, Bounds DEF MmcInv
  <2>4. mode' \in {"idle", "ready", "ident", "stby", "tran"} /\ pc' \in {"idle", "ACMD41", "clock"} \cup Identifying
    BY <2>1, <2>2, NeedsFacts DEF MmcInv
  <2>5. MmcType'
    BY <2>2, <2>3, <2>4 DEF MmcInv, Hard
  <2>6. MmcReady'
    BY <2>1, <2>2, NeedsFacts DEF MmcInv, Hard
  <2>7. MmcStage'
    BY <2>1, <2>2, <2>4 DEF MmcInv, Hard
  <2> QED
    BY <2>5, <2>6, <2>7
<1>6. CASE Mmc!SetClock
  <2>1. /\ pc = "clock" /\ pc' = "idle" /\ tries' = 0 /\ initialized' \in {TRUE, initialized}
        /\ UNCHANGED <<Hard, mode, wide, highCapacity, call, seen, buffer, result, inits, overlap>>
    BY <1>6 DEF Mmc!SetClock, Mmc!InitFails, Mmc!card, Mmc!controller, Mmc!history, Hard
  <2>2. tries' \in 0 .. MaxTries - 1
    BY <2>1, Bounds
  <2> QED
    BY <2>1, <2>2 DEF MmcInv, Hard
<1> QED
  BY <1>1, <1>2, <1>3, <1>4, <1>5, <1>6 DEF Commands

LEMMA CommandsIdle ==
  ASSUME MmcInv, Commands
  PROVE  MmcInv' /\ DevStep
<1>1. pc \notin Driving /\ pc' \notin Driving /\ overlap' = overlap /\ call' = call
  BY DEF Commands, Mmc!InitBegin, Mmc!ResetController, Mmc!GoIdle, Mmc!SendOpCond, Mmc!Identify, Mmc!SetClock,
     Mmc!InitFails, Mmc!history, Driving, Mmc!Needs, Mmc!After
<1>2. /\ UNCHANGED <<cells, prog, result, carried, bounce>>
      /\ cmd' \in {NoCall, cmd}
      /\ (flight' = NoCall /\ stage' = {}) \/ (flight' = flight /\ stage' = stage)
  BY MmcNames DEF Commands, Mmc!InitBegin, Mmc!ResetController, Mmc!GoIdle, Mmc!SendOpCond, Mmc!Identify, Mmc!SetClock,
     Mmc!card, Mmc!controller
<1>3. call = NoCall
  BY <1>1 DEF MmcInv, MmcStage
<1>4. MmcOwned => MmcOwned'
  BY <1>1, <1>2, <1>3, CallFacts DEF MmcOwned, Driving
<1>5. Doubt' \subseteq Doubt /\ (call \in Doubt => call \in Doubt')
  BY <1>1, <1>2, <1>3, CallFacts DEF Doubt
<1>6. DevStep
  BY <1>1, <1>2, <1>5, Forgets
<1> QED
  BY <1>1, <1>4, <1>6, CommandSteps DEF MmcInv

(* A call that fails leaves what it has begun in the controller.           *)
LEMMA MmcGivesUp ==
  ASSUME MmcInv, Mmc!Returns(Failed), pc \in Driving,
         UNCHANGED <<cells, prog, mode, sdhc, wide, cmd, carried, bounce>>,
         UNCHANGED <<initialized, highCapacity, buffer, tries, inits, overlap>>,
         (flight' = NoCall /\ stage' = {}) \/ (flight' = flight /\ stage' = stage),
         events' \subseteq events
  PROVE  MmcInv' /\ DevStep
<1> USE DEF MmcType
<1>1. pc' = "idle" /\ call' = NoCall /\ seen' = {} /\ result' = Failed
  BY MmcReturns
<1>2. flight' \in Call /\ stage' \subseteq {"answer", "dma", "over"}
  BY DEF MmcInv, Call
<1>3. MmcType'
  BY <1>1, <1>2, ResultFacts DEF MmcInv, Call
<1>4. MmcReady'
  BY <1>1 DEF MmcInv, MmcReady
<1>5. MmcStage'
  BY <1>1 DEF MmcInv, MmcStage, Driving
<1>6. MmcOwned => MmcOwned'
  BY <1>1, CallFacts DEF MmcOwned
<1>7. Doubt' \subseteq Doubt
  BY <1>1, CallFacts DEF Doubt
<1> QED
  BY <1>1, <1>3, <1>4, <1>5, <1>6, <1>7, GivesUp DEF MmcInv

(* A step of the driver that changes nothing but where it is.              *)
LEMMA MmcMoves ==
  ASSUME MmcInv, UNCHANGED <<Hard, mode, wide, initialized, highCapacity, call, seen, buffer, tries, result, inits, overlap>>,
         \/ pc = "wait_idle" /\ pc' = "wait_taken"
         \/ pc = "wait_taken" /\ pc' = "start" /\ cmd = NoCall
         \/ pc = "accept" /\ pc' = "poll" /\ cmd = NoCall
  PROVE  MmcInv' /\ DevStep
<1> USE DEF Hard
<1>1. MmcType'
  BY DEF MmcInv, MmcType, Driving
<1>2. MmcReady'
  BY DEF MmcInv, MmcReady, Driving
<1>3. MmcStage'
  BY DEF MmcInv, MmcStage, Driving
<1>4. MmcOwned => MmcOwned'
  <2> SUFFICES ASSUME MmcOwned PROVE MmcOwned'
    OBVIOUS
  <2>1. pc' = "poll" => pc = "accept"
    OBVIOUS
  <2>2. Waiting \/ Moving \/ Finished => Waiting' \/ Moving' \/ Finished'
    BY DEF Waiting, Moving, Finished, Landed, Stored
  <2> QED
    BY <2>1, <2>2 DEF MmcOwned
<1>5. Doubt' = Doubt
  BY DEF Doubt
<1> QED
  BY <1>1, <1>2, <1>3, <1>4, <1>5, Stutters DEF MmcInv

LEMMA MmcNotReady ==
  ASSUME MmcInv, Mmc!NotReady
  PROVE  MmcInv' /\ DevStep
<1>1. /\ pc = "idle" /\ result' = Failed
      /\ UNCHANGED <<Hard, mode, wide, initialized, highCapacity, pc, call, seen, buffer, tries, inits, overlap>>
  BY MmcNames DEF Mmc!NotReady, Mmc!card, Mmc!controller, Mmc!flags, Mmc!history, Hard
<1>2. call' = NoCall
  BY <1>1 DEF MmcInv, MmcStage, Driving
<1>3. MmcType'
  BY <1>1, ResultFacts DEF MmcInv, MmcType, Hard
<1>4. MmcReady' /\ MmcStage' /\ Doubt' = Doubt
  BY <1>1 DEF MmcInv, MmcReady, MmcStage, Hard, Doubt
<1>5. MmcOwned => MmcOwned'
  BY <1>1 DEF MmcOwned, Hard
<1> QED
  BY <1>1, <1>2, <1>3, <1>4, <1>5, GivesUp DEF MmcInv, Hard

LEMMA MmcBegins ==
  ASSUME MmcInv, NEW c \in Read \cup Write, Mmc!Begin(c)
  PROVE  MmcInv' /\ DevStep
<1>1. /\ pc = "idle" /\ initialized /\ pc' = "wait_idle" /\ call' = c
      /\ bounce' = IF c.op = "write" THEN c.val ELSE bounce
      /\ UNCHANGED <<cells, prog, mode, sdhc, wide, cmd, flight, stage, carried, events>>
      /\ UNCHANGED <<initialized, highCapacity, seen, buffer, tries, result, inits, overlap>>
  BY DEF Mmc!Begin, Mmc!card, Mmc!flags, Mmc!history
<1>2. call = NoCall /\ c # NoCall
  BY <1>1, CallFacts DEF MmcInv, MmcStage, Driving
<1>3. bounce' \in Value /\ c \in Call
  BY <1>1, CallFacts DEF MmcInv, MmcType, Call
<1>4. MmcType'
  BY <1>1, <1>3 DEF MmcInv, MmcType, Driving
<1>5. MmcReady' /\ MmcStage'
  BY <1>1, <1>2 DEF MmcInv, MmcReady, MmcStage, Driving
<1>6. MmcOwned => MmcOwned'
  BY <1>1, CallFacts DEF MmcOwned
<1>7. Doubt' = IF c \in Write THEN Doubt \cup {c} ELSE Doubt
  BY <1>1, <1>2, CallFacts DEF Doubt
<1> QED
  BY <1>1, <1>2, <1>4, <1>5, <1>6, <1>7, Begins DEF MmcInv

LEMMA MmcWaits ==
  ASSUME MmcInv, Mmc!WaitIdle \/ Mmc!WaitTaken \/ Mmc!Accept
  PROVE  MmcInv' /\ DevStep
<1>1. /\ UNCHANGED <<Hard, mode, wide, initialized, highCapacity, buffer, tries, inits, overlap>>
      /\ \/ /\ UNCHANGED <<call, seen, result>>
            /\ \/ pc = "wait_idle" /\ pc' = "wait_taken"
               \/ pc = "wait_taken" /\ pc' = "start" /\ cmd = NoCall
               \/ pc = "accept" /\ pc' = "poll" /\ cmd = NoCall
         \/ pc \in Driving /\ Mmc!Returns(Failed)
  BY MmcNames DEF Mmc!WaitIdle, Mmc!WaitTaken, Mmc!Accept, Mmc!card, Mmc!controller, Mmc!flags, Mmc!history, Hard, Driving
<1>2. CASE pc \in Driving /\ Mmc!Returns(Failed)
  BY <1>1, <1>2, MmcGivesUp DEF Hard
<1>3. CASE /\ UNCHANGED <<call, seen, result>>
           /\ \/ pc = "wait_idle" /\ pc' = "wait_taken"
              \/ pc = "wait_taken" /\ pc' = "start" /\ cmd = NoCall
              \/ pc = "accept" /\ pc' = "poll" /\ cmd = NoCall
  BY <1>1, <1>3, MmcMoves
<1> QED
  BY <1>1, <1>2, <1>3

LEMMA MmcStarts ==
  ASSUME MmcInv, Mmc!Start
  PROVE  MmcInv' /\ (overlap' = {} => DevStep)
<1>1. /\ pc = "start"
      /\ UNCHANGED <<cells, prog, mode, sdhc, wide, carried, bounce, initialized, highCapacity, buffer, tries, inits>>
      /\ \/ /\ flight' = NoCall /\ stage' = {} /\ overlap' = overlap
            /\ events' = {} /\ cmd' = call /\ pc' = "accept" /\ UNCHANGED <<call, seen, result>>
         \/ /\ UNCHANGED <<flight, stage>>
            /\ overlap' = IF cmd = NoCall /\ flight = NoCall THEN overlap ELSE overlap \cup {"fifo"}
            /\ events' = {} /\ cmd' = call /\ pc' = "accept" /\ UNCHANGED <<call, seen, result>>
         \/ /\ flight' = NoCall /\ stage' = {} /\ Mmc!Returns(Failed)
            /\ UNCHANGED <<events, cmd, overlap>>
  BY MmcNames DEF Mmc!Start, Mmc!Quiet, Mmc!card, Mmc!flags
<1>2. cmd = NoCall /\ call # NoCall /\ seen = {}
  BY <1>1 DEF MmcInv, MmcStage, Driving
<1>3. CASE /\ flight' = NoCall /\ stage' = {} /\ Mmc!Returns(Failed)
           /\ UNCHANGED <<events, cmd, overlap>>
  BY <1>1, <1>3, MmcGivesUp DEF Driving
<1>4. CASE /\ \/ flight' = NoCall /\ stage' = {} /\ overlap' = overlap
              \/ /\ UNCHANGED <<flight, stage>>
                 /\ overlap' = IF cmd = NoCall /\ flight = NoCall THEN overlap ELSE overlap \cup {"fifo"}
           /\ events' = {} /\ cmd' = call /\ pc' = "accept" /\ UNCHANGED <<call, seen, result>>
  <2>1. /\ flight' \in Call /\ stage' \subseteq {"answer", "dma", "over"}
        /\ overlap' \subseteq {"bounce", "fifo"}
        /\ flight' = NoCall => stage' = {}
        /\ "answer" \notin stage' => stage' = {}
    BY <1>4 DEF MmcInv, MmcType, MmcStage, Call
  <2>2. MmcType'
    BY <1>1, <1>4, <2>1 DEF MmcInv, MmcType, Driving
  <2>3. MmcReady'
    BY <1>1, <1>4 DEF MmcInv, MmcReady, Driving
  <2>4. MmcStage'
    BY <1>1, <1>2, <1>4, <2>1 DEF MmcInv, MmcStage, Driving
  <2>5. overlap' = {} => overlap = {} /\ flight' = NoCall
    BY <1>2, <1>4
  <2>6. overlap' = {} => MmcOwned'
    BY <1>1, <1>2, <1>4, <2>1, <2>5, CallFacts DEF MmcInv, MmcOwned, Waiting
  <2>7. overlap' = {} => Doubt' \subseteq Doubt /\ (call \in Doubt => call \in Doubt')
    BY <1>1, <1>2, <1>4, <2>5, CallFacts DEF Doubt
  <2> QED
    BY <1>1, <1>4, <2>2, <2>3, <2>4, <2>6, <2>7, Forgets DEF MmcInv
<1> QED
  BY <1>1, <1>3, <1>4

LEMMA MmcPolls ==
  ASSUME MmcInv, Mmc!Poll
  PROVE  MmcInv' /\ DevStep
<1>1. /\ pc = "poll" /\ events' = {}
      /\ UNCHANGED <<cells, prog, mode, sdhc, wide, cmd, flight, stage, carried, bounce>>
      /\ UNCHANGED <<initialized, highCapacity, tries, inits, overlap>>
      /\ \/ Mmc!Returns(Failed) /\ UNCHANGED buffer
         \/ /\ Errs \cap events = {} /\ seen' = seen \cup events
            /\ UNCHANGED <<call, result>>
            /\ \/ /\ ~({"dma", "over"} \subseteq seen \cup events)
                  /\ pc' = pc /\ buffer' = buffer
               \/ /\ {"dma", "over"} \subseteq seen \cup events
                  /\ pc' = "settle" /\ buffer' = IF call.op = "read" THEN bounce ELSE buffer
  BY MmcNames DEF Mmc!Poll, Mmc!Erring, Mmc!Finished, Mmc!card, Mmc!flags, Mmc!history, Errs
<1>2. CASE Mmc!Returns(Failed) /\ UNCHANGED buffer
  BY <1>1, <1>2, MmcGivesUp DEF Driving
<1>3. CASE /\ Errs \cap events = {} /\ seen' = seen \cup events
           /\ UNCHANGED <<call, result>>
           /\ \/ /\ ~({"dma", "over"} \subseteq seen \cup events)
                 /\ pc' = pc /\ buffer' = buffer
              \/ /\ {"dma", "over"} \subseteq seen \cup events
                 /\ pc' = "settle" /\ buffer' = IF call.op = "read" THEN bounce ELSE buffer
  <2>1. buffer' \in Value /\ seen' \subseteq {"dma", "over"}
    BY <1>1, <1>3 DEF MmcInv, MmcType, Errs
  <2>2. MmcType'
    BY <1>1, <1>3, <2>1 DEF MmcInv, MmcType, Driving
  <2>3. MmcReady'
    BY <1>1, <1>3 DEF MmcInv, MmcReady, Driving
  <2>4. MmcStage'
    BY <1>1, <1>3 DEF MmcInv, MmcStage, Driving
  <2>5. Doubt' = Doubt
    BY <1>1, <1>3 DEF Doubt
  <2>6. ASSUME MmcOwned PROVE MmcOwned'
    <3>1. cmd = NoCall /\ call # NoCall
      BY <1>1 DEF MmcInv, MmcStage, Driving
    <3>2. Moving \/ Finished
      BY <1>1, <2>6, <3>1 DEF MmcOwned, Waiting
    <3>3. CASE pc' = pc /\ ~({"dma", "over"} \subseteq seen \cup events)
      <4>1. Moving
        BY <1>3, <3>2, <3>3 DEF Finished, Landed
      <4>2. Moving'
        BY <1>1, <1>3, <4>1 DEF Moving
      <4> QED
        BY <1>1, <1>3, <2>6, <3>3, <4>2 DEF MmcOwned
    <3>4. CASE /\ {"dma", "over"} \subseteq seen \cup events
               /\ pc' = "settle" /\ buffer' = IF call.op = "read" THEN bounce ELSE buffer
      <4>1. Finished /\ Landed
        BY <1>3, <3>2, <3>4 DEF Finished, Moving
      <4>2. /\ cmd' = NoCall /\ flight' = NoCall
            /\ call' \in Read => prog' = NoCall /\ buffer' = cells'[call'.lba]
            /\ call' \in Write => Stored'
        BY <1>1, <1>3, <3>4, <4>1, CallFacts DEF Finished, Landed, Stored
      <4> QED
        BY <1>1, <1>3, <2>6, <3>4, <4>2 DEF MmcOwned
    <3> QED
      BY <1>3, <3>3, <3>4
  <2> QED
    BY <1>1, <1>3, <2>2, <2>3, <2>4, <2>5, <2>6, Stutters DEF MmcInv
<1> QED
  BY <1>1, <1>2, <1>3

LEMMA MmcSettles ==
  ASSUME MmcInv, Mmc!Settle
  PROVE  MmcInv' /\ (overlap' = {} => DevStep)
<1>1. /\ pc = "settle"
      /\ UNCHANGED <<Hard, mode, wide, initialized, highCapacity, buffer, tries, inits, overlap>>
      /\ \/ Mmc!Returns(Failed)
         \/ prog = NoCall /\ Mmc!Returns(IF call.op = "read" THEN Data(buffer) ELSE Done)
  BY MmcNames DEF Mmc!Settle, Mmc!Busy, Mmc!card, Mmc!controller, Mmc!flags, Mmc!history, Hard
<1>2. CASE Mmc!Returns(Failed)
  BY <1>1, <1>2, MmcGivesUp DEF Hard, Driving
<1>3. CASE prog = NoCall /\ Mmc!Returns(IF call.op = "read" THEN Data(buffer) ELSE Done)
  <2>1. /\ pc' = "idle" /\ call' = NoCall /\ seen' = {}
        /\ result' = IF call.op = "read" THEN Data(buffer) ELSE Done
    BY <1>3, MmcReturns
  <2>2. MmcType'
    BY <1>1, <2>1, ResultFacts DEF MmcInv, MmcType, Hard, Call
  <2>3. MmcReady' /\ MmcStage'
    BY <1>1, <2>1 DEF MmcInv, MmcReady, MmcStage, Hard, Driving
  <2>4. MmcOwned => MmcOwned'
    BY <1>1, <2>1, CallFacts DEF MmcOwned, Hard
  <2>5. ASSUME overlap' = {} PROVE DevStep
    <3>1. MmcOwned /\ call \in Read \cup Write
      BY <1>1, <2>5 DEF MmcInv, MmcStage, MmcType, Driving, Call
    <3>2. \/ call \in Read /\ result' = Data(cells[call.lba])
          \/ call \in Write /\ cells[call.lba] = call.val /\ result' = Done
      BY <1>1, <1>3, <2>1, <3>1, CallFacts DEF MmcOwned, Stored
    <3>3. Doubt' = {}
      BY <1>1, <1>3, <2>1, <3>1, CallFacts DEF MmcOwned, Doubt, Hard
    <3> QED
      BY <1>1, <2>1, <3>2, <3>3, Succeeds DEF Hard
  <2> QED
    BY <1>1, <2>2, <2>3, <2>4, <2>5 DEF MmcInv
<1> QED
  BY <1>1, <1>2, <1>3

-----------------------------------------------------------------------------
(* The controller and the card.                                            *)

LEMMA MmcTakesCommand ==
  ASSUME MmcInv, Mmc!TakeCommand
  PROVE  MmcInv' /\ DevStep
<1>1. /\ cmd # NoCall /\ flight = NoCall /\ flight' = cmd /\ stage' = {} /\ cmd' = NoCall
      /\ UNCHANGED <<Driver, cells, prog, mode, sdhc, wide, carried, events, bounce, overlap>>
  BY MmcNames DEF Mmc!TakeCommand, Mmc!card, Mmc!flags, Mmc!history, Driver
<1>2. MmcType' /\ MmcReady' /\ MmcStage'
  BY <1>1 DEF MmcInv, MmcType, MmcReady, MmcStage, Driver, Call
<1>3. ASSUME MmcOwned PROVE MmcOwned'
  <2>1. CASE pc \in {"accept", "poll"}
    <3>1. Waiting
      BY <1>1, <1>3, <2>1 DEF MmcOwned, Moving, Finished
    <3>2. Moving'
      BY <1>1, <3>1 DEF Waiting, Moving, Driver
    <3> QED
      BY <1>1, <1>3, <2>1, <3>2 DEF MmcOwned, Driver
  <2>2. CASE pc \notin {"accept", "poll"}
    BY <1>1, <1>3, <2>2 DEF MmcOwned, Driver
  <2> QED
    BY <2>1, <2>2
<1>4. Doubt' = Doubt
  BY <1>1, CallFacts DEF Doubt, Driver
<1> QED
  BY <1>1, <1>2, <1>3, <1>4, Stutters DEF MmcInv, Driver

(* A transfer that ends in an error.                                       *)
LEMMA MmcErrs ==
  ASSUME MmcInv, flight # NoCall, flight' = NoCall, stage' = {},
         NEW e \in Errs, events' = events \cup {e},
         UNCHANGED <<Driver, cells, prog, mode, sdhc, wide, cmd, carried, bounce, overlap>>
  PROVE  MmcInv' /\ DevStep
<1> USE DEF Driver
<1>1. MmcType'
  BY DEF MmcInv, MmcType, Call, Errs
<1>2. MmcReady' /\ MmcStage'
  BY DEF MmcInv, MmcReady, MmcStage
<1>3. ASSUME MmcOwned PROVE MmcOwned'
  <2>1. ASSUME pc \in {"accept", "poll"} PROVE Finished'
    <3>1. Moving
      BY <1>3, <2>1 DEF MmcOwned, Waiting, Finished
    <3> QED
      BY <3>1 DEF Moving, Finished
  <2> QED
    BY <1>3, <2>1, CallFacts DEF MmcOwned, Stored
<1>4. Doubt' \subseteq Doubt /\ (call \in Doubt => call \in Doubt')
  BY CallFacts DEF Doubt
<1> QED
  BY <1>1, <1>2, <1>3, <1>4, Forgets DEF MmcInv

LEMMA MmcAnswers ==
  ASSUME MmcInv, Mmc!Answer \/ Mmc!TransferError
  PROVE  MmcInv' /\ DevStep
<1>1. /\ flight # NoCall
      /\ UNCHANGED <<Driver, cells, prog, mode, sdhc, wide, cmd, carried, bounce, overlap>>
      /\ \/ prog = NoCall /\ stage = {} /\ stage' = {"answer"} /\ UNCHANGED <<flight, events>>
         \/ flight' = NoCall /\ stage' = {} /\ \E e \in Errs : events' = events \cup {e}
  BY MmcNames DEF Mmc!Answer, Mmc!TransferError, Mmc!Busy, Mmc!card, Mmc!flags, Mmc!history, Driver, Errs,
     MmcInv, MmcStage
<1>2. CASE flight' = NoCall /\ stage' = {} /\ \E e \in Errs : events' = events \cup {e}
  BY <1>1, <1>2, MmcErrs
<1>3. CASE prog = NoCall /\ stage = {} /\ stage' = {"answer"} /\ UNCHANGED <<flight, events>>
  <2>1. MmcType'
    BY <1>1, <1>3 DEF MmcInv, MmcType, Driver
  <2>2. MmcReady' /\ MmcStage'
    BY <1>1, <1>3 DEF MmcInv, MmcReady, MmcStage, Driver
  <2>3. ASSUME MmcOwned PROVE MmcOwned'
    <3>1. ASSUME pc \in {"accept", "poll"} PROVE Moving'
      <4>1. Moving
        BY <1>1, <2>3, <3>1 DEF MmcOwned, Waiting, Finished
      <4> QED
        BY <1>1, <1>3, <4>1 DEF Moving, Driver
    <3> QED
      BY <1>1, <1>3, <2>3, <3>1 DEF MmcOwned, Stored, Driver
  <2>4. Doubt' = Doubt
    BY <1>1, <1>3 DEF Doubt, Driver
  <2> QED
    BY <1>1, <1>3, <2>1, <2>2, <2>3, <2>4, Stutters DEF MmcInv, Driver
<1> QED
  BY <1>1, <1>2, <1>3

LEMMA MmcMovesData ==
  ASSUME MmcInv, Mmc!Dma
  PROVE  MmcInv' /\ (overlap' = {} => DevStep)
<1>1. /\ "answer" \in stage /\ "dma" \notin stage /\ events' = events \cup {"dma"}
      /\ UNCHANGED <<Driver, cells, prog, mode, sdhc, wide, cmd>>
      /\ IF flight.op = "read"
         THEN bounce' = cells[flight.lba] /\ carried' = carried
         ELSE carried' = bounce /\ bounce' = bounce
      /\ overlap' \in {overlap, overlap \cup {"bounce"}}
      /\ overlap' = {} => IF flight.op = "read" THEN call.op # "write" ELSE bounce = flight.val
  BY DEF Mmc!Dma, Mmc!Crosses, Mmc!card, Mmc!flags, Driver
<1>2. \/ "over" \in stage /\ flight' = NoCall /\ stage' = {}
      \/ "over" \notin stage /\ flight' = flight /\ stage' = stage \cup {"dma"}
  <2>1. Mmc!Ends(stage \cup {"dma"})
    BY DEF Mmc!Dma
  <2> QED
    BY <2>1, Ending
<1>3. flight \in Read \cup Write /\ flight # NoCall
  BY <1>1, CallFacts DEF MmcInv, MmcStage, MmcType, Call
<1>4. MmcType'
  <2>1. bounce' \in Value /\ carried' \in Value
    BY <1>1, <1>3, CallFacts DEF MmcInv, MmcType
  <2>2. flight' \in Call /\ stage' \subseteq {"answer", "dma", "over"}
    BY <1>2 DEF MmcInv, MmcType, Call
  <2>3. overlap' \subseteq {"bounce", "fifo"} /\ events' \subseteq {"dma", "over", "cmd_error", "data_error"}
    BY <1>1 DEF MmcInv, MmcType
  <2> QED
    BY <1>1, <2>1, <2>2, <2>3 DEF MmcInv, MmcType, Driver
<1>5. MmcReady' /\ MmcStage'
  BY <1>1, <1>2, <1>3 DEF MmcInv, MmcReady, MmcStage, Driver
<1>6. overlap' = {} => overlap = {}
  BY <1>1
<1>7. ASSUME overlap' = {} PROVE MmcOwned'
  <2>1. MmcOwned
    BY <1>6, <1>7 DEF MmcInv
  <2>2. call \in Write => bounce' = call.val
    BY <1>1, <1>3, <1>7, <2>1, CallFacts DEF MmcOwned
  <2>3. flight \in Write => carried' = flight.val
    BY <1>1, <1>7, CallFacts
  <2>4. ASSUME pc \in {"accept", "poll"} PROVE Moving' \/ Finished'
    <3>1. Moving
      BY <1>3, <2>1, <2>4 DEF MmcOwned, Waiting, Finished
    <3>2. call \in Read => prog' = NoCall /\ bounce' = cells'[call.lba]
      BY <1>1, <3>1, CallFacts DEF Moving
    <3>3. CASE "over" \in stage /\ flight' = NoCall /\ stage' = {}
      <4>1. call \notin Write /\ {"dma", "over"} \subseteq seen' \cup events'
        BY <1>1, <3>1, <3>3 DEF Moving, Driver
      <4> QED
        BY <1>1, <3>1, <3>2, <3>3, <4>1 DEF Moving, Finished, Landed, Driver
    <3>4. CASE "over" \notin stage /\ flight' = flight /\ stage' = stage \cup {"dma"}
      BY <1>1, <3>1, <3>2, <3>4 DEF Moving, Driver
    <3> QED
      BY <1>2, <3>3, <3>4
  <2>5. pc # "settle"
    BY <1>3, <2>1 DEF MmcOwned
  <2> QED
    BY <1>1, <1>2, <1>3, <2>2, <2>3, <2>4, <2>5, CallFacts DEF MmcOwned, Driver
<1>8. Doubt' \subseteq Doubt /\ (call \in Doubt => call \in Doubt')
  BY <1>1, <1>2, CallFacts DEF Doubt, Driver
<1> QED
  BY <1>1, <1>4, <1>5, <1>7, <1>8, Forgets DEF MmcInv, Driver

LEMMA MmcIsOver ==
  ASSUME MmcInv, Mmc!Over
  PROVE  MmcInv' /\ (overlap' = {} => DevStep)
<1>1. /\ "answer" \in stage /\ "over" \notin stage /\ events' = events \cup {"over"}
      /\ UNCHANGED <<Driver, cells, mode, sdhc, wide, cmd, carried, bounce, overlap>>
      /\ IF flight.op = "read"
         THEN prog' = prog
         ELSE "dma" \in stage /\ prog' = [flight EXCEPT !.val = carried]
  BY DEF Mmc!Over, Mmc!flags, Mmc!history, Driver
<1>2. \/ "dma" \in stage /\ flight' = NoCall /\ stage' = {}
      \/ "dma" \notin stage /\ flight' = flight /\ stage' = stage \cup {"over"}
  <2>1. Mmc!Ends(stage \cup {"over"})
    BY DEF Mmc!Over
  <2> QED
    BY <2>1, Ending
<1>3. flight \in Read \cup Write /\ flight # NoCall
  BY <1>1, CallFacts DEF MmcInv, MmcStage, MmcType, Call
<1>4. MmcType'
  <2>1. prog' \in Write \cup {NoCall}
    BY <1>1, <1>3, CallFacts DEF MmcInv, MmcType
  <2>2. flight' \in Call /\ stage' \subseteq {"answer", "dma", "over"}
    BY <1>2 DEF MmcInv, MmcType, Call
  <2>3. events' \subseteq {"dma", "over", "cmd_error", "data_error"}
    BY <1>1 DEF MmcInv, MmcType
  <2> QED
    BY <1>1, <2>1, <2>2, <2>3 DEF MmcInv, MmcType, Driver
<1>5. MmcReady' /\ MmcStage'
  BY <1>1, <1>2, <1>3 DEF MmcInv, MmcReady, MmcStage, Driver
<1>6. ASSUME MmcOwned, flight \in Write PROVE prog' = flight /\ "dma" \in stage
  BY <1>1, <1>6, CallFacts DEF MmcOwned
<1>7. ASSUME MmcOwned PROVE MmcOwned'
  <2>1. ASSUME pc \in {"accept", "poll"} PROVE Moving' \/ Finished'
    <3>1. Moving
      BY <1>3, <1>7, <2>1 DEF MmcOwned, Waiting, Finished
    <3>2. call \in Read => prog' = NoCall
      BY <1>1, <3>1, CallFacts DEF Moving
    <3>3. CASE "dma" \in stage /\ flight' = NoCall /\ stage' = {}
      <4>1. {"dma", "over"} \subseteq seen' \cup events'
        BY <1>1, <3>1, <3>3 DEF Moving, Driver
      <4>2. call \in Read => bounce' = cells'[call.lba]
        BY <1>1, <3>1, <3>3 DEF Moving
      <4>3. call \in Write => prog' = call
        BY <1>6, <1>7, <3>1 DEF Moving
      <4> QED
        BY <1>1, <3>1, <3>2, <3>3, <4>1, <4>2, <4>3 DEF Moving, Finished, Landed, Stored, Driver
    <3>4. CASE "dma" \notin stage /\ flight' = flight /\ stage' = stage \cup {"over"}
      <4>1. call \notin Write
        BY <1>6, <1>7, <3>1, <3>4 DEF Moving
      <4> QED
        BY <1>1, <3>1, <3>2, <3>4, <4>1 DEF Moving, Driver
    <3> QED
      BY <1>2, <3>3, <3>4
  <2>2. pc # "settle"
    BY <1>3, <1>7 DEF MmcOwned
  <2> QED
    BY <1>1, <1>2, <1>3, <1>7, <2>1, <2>2, CallFacts DEF MmcOwned, Driver
<1>8. ASSUME MmcOwned PROVE Doubt' \subseteq Doubt /\ (call \in Doubt => call \in Doubt')
  BY <1>1, <1>2, <1>3, <1>6, <1>8, CallFacts DEF Doubt, Driver
<1> QED
  BY <1>1, <1>4, <1>5, <1>7, <1>8, Forgets DEF MmcInv, Driver

LEMMA MmcPrograms ==
  ASSUME MmcInv, Mmc!Program
  PROVE  MmcInv' /\ DevStep
<1>1. /\ prog # NoCall /\ prog' = NoCall /\ cells' = [cells EXCEPT ![prog.lba] = prog.val]
      /\ UNCHANGED <<Driver, mode, sdhc, wide, cmd, flight, stage, carried, events, bounce, overlap>>
  BY MmcNames DEF Mmc!Program, Mmc!Busy, Mmc!controller, Mmc!flags, Mmc!history, Driver
<1>2. prog \in Write /\ prog.lba \in Lba /\ prog.val \in Value
  BY <1>1, CallFacts DEF MmcInv, MmcType
<1>3. cells' \in [Lba -> Value]
  BY <1>1, <1>2 DEF MmcInv, MmcType
<1>4. MmcType'
  BY <1>1, <1>3 DEF MmcInv, MmcType, Driver
<1>5. MmcReady' /\ MmcStage'
  BY <1>1 DEF MmcInv, MmcReady, MmcStage, Driver
<1>6. Stored => Stored'
  BY <1>1, <1>2 DEF MmcInv, MmcType, Stored, Driver
<1>7. ASSUME MmcOwned PROVE MmcOwned'
  <2>1. Waiting => Waiting'
    BY <1>1 DEF Waiting, Driver
  <2>2. Moving => Moving'
    BY <1>1 DEF MmcInv, MmcStage, Moving, Driver
  <2>3. Finished => Finished'
    BY <1>1, <1>6 DEF Finished, Landed, Driver
  <2> QED
    BY <1>1, <1>6, <1>7, <2>1, <2>2, <2>3 DEF MmcOwned, Driver
<1>8. prog \in Doubt /\ Doubt' \in {Doubt, Doubt \ {prog}}
  BY <1>1, <1>2, CallFacts DEF Doubt, Driver
<1>9. DevStep
  BY <1>1, <1>8, Lands DEF Driver
<1> QED
  BY <1>1, <1>4, <1>5, <1>7, <1>9 DEF MmcInv

LEMMA MmcStep ==
  ASSUME MmcInv, Mmc!Next
  PROVE  MmcInv' /\ (overlap' = {} => DevStep)
BY MmcNames, MmcNotReady, MmcBegins, MmcWaits, MmcStarts, MmcPolls, MmcSettles, CommandsIdle,
   MmcTakesCommand, MmcAnswers, MmcMovesData, MmcIsOver, MmcPrograms
   DEF Mmc!Next, Mmc!Hardware, Commands

-----------------------------------------------------------------------------
(* Both drivers.                                                           *)

CardInv ==
    /\ board \in {"spi", "sdmmc"}
    /\ board = "spi" => SpiInv /\ ~initialized
    /\ board = "sdmmc" => MmcInv

LEMMA CardInit == Init => CardInv /\ Dev!Init
<1> SUFFICES ASSUME Init PROVE CardInv /\ Dev!Init
  OBVIOUS
<1>1. board \in {"spi", "sdmmc"}
  BY SdCardAssumption DEF Init
<1>2. /\ cells \in [Lba -> Value] /\ prog = NoCall /\ serving = NoCall /\ awake = FALSE
      /\ pc = "idle" /\ call = NoCall /\ line = "none" /\ tries = 0
      /\ result = Failed /\ inits = 0 /\ edge = FALSE
  BY SpiNames DEF Init, Spi!Init
<1>3. /\ mode = "idle" /\ sdhc \in BOOLEAN /\ wide = FALSE
      /\ cmd = NoCall /\ flight = NoCall /\ stage = {} /\ events = {}
      /\ carried \in Value /\ bounce = carried
      /\ initialized = FALSE /\ highCapacity = FALSE
      /\ seen = {} /\ buffer = carried /\ overlap = {}
  BY MmcNames DEF Init, Mmc!Init
<1>4. 0 \in 0 .. MaxTries - 1 /\ 0 \in 0 .. MaxTries + 1 /\ 0 \in 0 .. MaxInit
  BY Bounds
<1>5. SpiInv /\ ~initialized
  BY <1>2, <1>3, <1>4, ResultFacts DEF SpiInv, SpiType, SpiStage, Call
<1>6. MmcType
  BY <1>2, <1>3, <1>4, ResultFacts DEF MmcType, Call
<1>7. MmcReady /\ MmcStage /\ MmcOwned
  BY <1>2, <1>3, CallFacts DEF MmcReady, MmcStage, MmcOwned, Driving
<1>8. Doubt = {}
  BY <1>2, <1>3, CallFacts DEF Doubt
<1>9. Dev!Init
  BY <1>2, <1>8 DEF Dev!Init, Doubt, NoCall, Failed
<1> QED
  BY <1>1, <1>5, <1>6, <1>7, <1>9 DEF CardInv, MmcInv

LEMMA CardStep ==
  ASSUME CardInv, [Next]_vars
  PROVE  CardInv' /\ (~edge' /\ overlap' = {} => DevStep)
<1>1. CASE board = "spi" /\ Spi!Next /\ UNCHANGED <<board, mmcOnly>>
  BY <1>1, SpiStep DEF CardInv, mmcOnly
<1>2. CASE board = "sdmmc" /\ Mmc!Next /\ UNCHANGED <<board, spiOnly>>
  BY <1>2, MmcStep DEF CardInv
<1>3. CASE UNCHANGED vars
  <2>1. SpiInv => SpiInv'
    BY <1>3 DEF vars, mmcOnly, spiOnly, SpiInv, SpiType, SpiStage
  <2>2. MmcType => MmcType'
    BY <1>3 DEF vars, mmcOnly, spiOnly, MmcType
  <2>3. (MmcReady => MmcReady') /\ (MmcStage => MmcStage')
    BY <1>3 DEF vars, mmcOnly, spiOnly, MmcReady, MmcStage
  <2>4. MmcOwned => MmcOwned'
    BY <1>3 DEF vars, mmcOnly, spiOnly, MmcOwned, Waiting, Moving, Finished, Landed, Stored
  <2>5. UNCHANGED <<board, initialized, overlap, cells, call, result>> /\ Doubt' = Doubt
    BY <1>3 DEF vars, mmcOnly, spiOnly, Doubt
  <2> QED
    BY <2>1, <2>2, <2>3, <2>4, <2>5, Stutters DEF CardInv, MmcInv
<1> QED
  BY <1>1, <1>2, <1>3 DEF Next

LEMMA CardAlways == Spec => []CardInv
<1>1. Init => CardInv
  BY CardInit
<1>2. CardInv /\ [Next]_vars => CardInv'
  BY CardStep
<1> QED
  BY <1>1, <1>2, PTL DEF Spec

(* The state of the driver in use has its types: a pc is one of its calls, *)
(* a sector holds a sector, and no count passes its limit.                 *)
THEOREM SdCardTypeOK == Spec => []TypeOK
<1>1. CardInv => TypeOK
  BY SpiTypes, MmcTypes DEF CardInv, SpiInv, MmcInv, TypeOK
<1> QED
  BY <1>1, CardAlways, PTL

(* Whatever failed in earlier attempts of sdmmc_init, a driver that takes  *)
(* calls has a card that is selected, four lines wide, and counts as it    *)
(* does.                                                                   *)
THEOREM SdCardReadyMeansReady == Spec => []ReadyMeansReady
<1>1. CardInv => ReadyMeansReady
  BY DEF CardInv, MmcInv, MmcReady, ReadyMeansReady, Mmc!ReadyMeansReady
<1> QED
  BY <1>1, CardAlways, PTL

(* Whatever fails in sd_read_sector, sd_write_sector and their SDMMC       *)
(* counterparts, and however late the card is, either driver is a sector   *)
(* device: every step of it is one, or none, of SectorDevice's.            *)
THEOREM SdCardRefinesDevice == Spec => RefinesDevice
<1>1. Init => Dev!Init
  BY CardInit
<1>2. CardInv /\ [Next]_vars => [~edge' /\ overlap' = {} => Dev!Next]_(<<Dev!vars>>)
  BY CardStep DEF DevStep
<1> QED
  BY <1>1, <1>2, CardAlways, PTL DEF Spec, RefinesDevice
=============================================================================
