# A TLA+ model of the bare-metal ESP32 SDK

The repository is a bare-metal SDK for ESP32 RISC-V chips: start-up code, a
machine timer and an interrupt table under `src/core`, peripheral drivers under
`src/drivers`, and a FAT32 file system and a LED library under `src/libraries`.
There is no operating system. A program is a *superloop* that polls its drivers
for ever, plus interrupt handlers and DMA channels that run beside it.

Most of the SDK writes registers in a fixed order. Its own logic, the part that
keeps state between calls and shares it between actors, is in eight places: the
receive queue, the SDIO transport and the control channel of the ESP-Hosted
driver (Wi-Fi and Bluetooth through a co-processor), the NimBLE porting layer,
the I2S streaming queue, the file system, and the two SD card drivers under it.
All eight are modelled here; section 6 says what of them is left out.

All paths below are relative to `src/`.

## 1. Inventory

### ESP-Hosted receive queue and dispatch — `drivers/esp_hosted/esp_hosted.c`

* State: `s_initialized`, the transport (`poll`, `tx`), a ring of eight packets
  (`head`, `tail`, `count`, `dropped`), the transmit sequence number, five
  callback slots.
* Operations: `esp_hosted_init`, `_deinit`, `_set_transport`, the callback
  setters, the senders (all through `esp_hosted_tx_common`), `_rx_submit`,
  `_rx_pop`, `_poll`, `_dispatch_rx`.
* Interactions: the SDIO transport calls `_rx_submit` inside `_poll`; dispatch
  calls the control channel, lwIP, the HCI glue or the application.
* Hard: a callback may call the API again, so dispatch nests and the stack can
  be restarted or taken down under a running loop.
* Correct when: the ring is a bounded FIFO; frames come out in order and once, at
  every nesting level; a stack that is down is empty; nothing accepted is stuck.

### ESP-Hosted SDIO transport — `drivers/esp_hosted/esp_hosted_sdio.c`

* State: `s_ctx` with the attached and throttled flags, the count of bytes read
  (modulo 2^20), the count of slave buffers used (modulo 2^12), `frame_buf`.
* Operations: attach, detach, `transport_poll` (read interrupts, clear them,
  read the length, read or drain the data, parse), `transport_tx` (read the
  token, write).
* Interactions: the co-processor's registers; `esp_hosted_rx_submit`.
* Hard: the slave moves between any two register accesses; every transfer can
  fail, before or after the slave took it; both counters wrap; the slave can
  restart by itself, and is reset by an attach only if there is a reset pin.
* Correct when: both sides agree on bytes and buffers, or do so again after the
  next attach that resets the slave; no buffer is overrun, no interrupt is cleared
  unseen, frames stay in order, and frames are lost only where the code throws them
  away.

### ESP-Hosted control channel — `drivers/esp_hosted/esp_hosted_ctrl.c`

* State: `s_ctrl`: one wait state (flag, request number, kind), one response
  slot, the number generator, station and link information, the event callback.
* Operations: nine kinds of request and the two feature requests, all through `request_common`,
  the receive callback, the link events, init and deinit.
* Interactions: a request calls `esp_hosted_poll` and `_dispatch_rx` in its wait
  loop; the event callback runs inside it and may make a request of its own.
* Hard: nested requests over one wait state, late and lost answers, a wrapping
  request number, link events and resets of the co-processor between all of these.
* Correct when: a request returns its own answer or a failure, always returns,
  and the link state is that of the last link event.

### NimBLE porting layer — `drivers/ble_nimble/ble_npl_baremetal.c`, `nimble_port_baremetal.c`

* State: events linked into queues, a sorted list of active callouts, a clock
  modulo 2^32, semaphores and mutexes, the flags of the port.
* Operations: put, remove, get; callout set, stop, expire; pend and release (the
  last two are not modelled, section 6).
* Interactions: every wait serves the hosted transport and the callouts.
* Hard: lists through the objects themselves, removal from the middle, a clock
  that wraps, callouts that expire and are stopped at once.
* Correct when: the lists are well formed and NimBLE sees FIFO queues and timers
  that are never early, never lost, and in order when late.

### I2S streaming — `drivers/i2s_drv/i2s_drv.c`

* State: DMA descriptors with an owner, a link and an end mark; `stream_head`,
  `_tail`, `_queued`, `_started`, `_error`; the interrupt's owner.
* Operations: `i2s_stream_begin`, `_write`, `_drain`, `_poll`, `_stop`, the
  interrupt handler; the DMA channel follows the links by itself.
* Hard: three actors on one ring; a channel that parks while its next buffer is
  being linked; sleeping until an interrupt that may be over.
* Correct when: the channel takes every chunk once and in order, the counts are true,
  after a successful drain it has taken all of them, and calls return.

### FAT32 — `libraries/sdFat32/sdFat32.c`

* State: on the card, the FAT, FSInfo and directory sectors; in memory, one
  sector buffer, the position `fileRead` keeps in static variables, and handles.
* Operations: open, read, write and append, create, delete, make directory.
* Interactions: sectors are read and written through `SDFAT32_SD_READ_SECTOR` and
  `SDFAT32_SD_WRITE_SECTOR`, which are one of the two drivers below.
* Hard: several sector writes per operation, each of which can fail or be the
  last one before the power goes; state shared between open files.
* Correct when: no cluster belongs to two files, every entry has its cluster,
  success means that the data is on the card, and a read returns the file's bytes.

### SD card behind the SDMMC controller — `drivers/sdmmc/sdmmc.c`

* State: `s_initialized`, `s_high_capacity`, the address of the card, one DMA
  descriptor and one bounce buffer; in the controller, the command that waits, the
  transfer under way and the event bits; in the card, its state, and the sector it
  programs.
* Operations: `sdmmc_init`, `sdmmc_read_sector`, `sdmmc_write_sector`.
* Hard: the controller goes on with a transfer the driver has given up; its events
  and its data meet those of the next one; an initialisation stops half way.
* Correct when: a success is true, a write that was given up does not surface after
  a later success, and a driver that takes calls has a card that does.

### SD card on a SPI bus — `drivers/sd_spi/sd_spi.c`, `sd_platform.c`

* State: in the card, whether it has left the idle state, the command it serves and
  the sector it programs; the driver remembers nothing from call to call.
* Operations: `sd_init`, `sd_read_sector`, `sd_write_sector`.
* Hard: the wait for the end of programming runs out and is forgotten; a busy card
  reads 0x00, which is also the answer "ready".
* Correct when: as above.

### The rest

| Component | Source | Why it is not modelled |
|---|---|---|
| lwIP binding | `drivers/lwip_hosted` | translates link events into calls of lwIP, a submodule that is not in the tree; what its state follows, the reported link, is in HostedCtrl |
| NimBLE glue | `drivers/ble_nimble/ble_hci_hosted.c`, `ble_nimble.c` | packet framing; NimBLE is not in the tree |
| I2C | `drivers/i2c_drv` | one blocking transaction after the other, no state between them (section 6) |
| Machine timer, interrupts | `core/mtimer`, `core/interrupts` | a few register accesses each; what goes wrong in them is in section 6 |
| SPI, UART, USB serial, GPIO, ES8311, WS2812 | `drivers/...`, `libraries/ws2812` | register sequences and polled loops without state of their own |
| Start-up, syscalls, delay | `core/...` | straight-line code |
| Register, ROM and HAL headers | `core/...` | vendored or generated |
| Examples | `examples/...` | read for the order of calls the fairness rests on |

The hazards of these parts, each with its line and with the properties that
guard against it, are listed in `PROJECT.json` (the forty most telling ones).

## 2. The modules

```
   HostedFifo  (abstract: a bounded FIFO with restarts)
     ^   ^--------------------------.
     | refined by                   | used as the queue above
   HostedQueue                    HostedSdio <---> the slave (external)
     HostedQueueProofs              HostedSdioProofs

   HostedCtrl  <---> the co-processor (external)
     HostedCtrlProofs

   NplService  (abstract: FIFO queues and timers)
     ^ refined by
   BleNpl
     BleNplProofs

   I2sStream: program, interrupt handler, DMA channel (external)
     I2sStreamProofs

   FileStore  (abstract: files that come, grow and go at one instant)
     ^ refined by
   SdFat            SdFatRead: reading, with the state all files share
     SdFatProofs      SdFatReadProofs

   SectorDevice  (abstract: what the file system expects of a card)
     ^ refined by
   SdCard = SdmmcHost or SdSpi, chosen when the program is built
     SdCardProofs                   the card, the controller (external)
```

`MC<Module>` gives each module its instances for TLC. A definition whose
comment begins with "Mutant:" is a plausible bug of the definition it stands
next to. It is not part of the specification; it is there to show that the
properties notice that bug.

### HostedFifo and HostedQueue

`HostedFifo` is what clients may rely on: packets are accepted or refused, handed
out in order, thrown away by a restart. `HostedQueue` is the code: the ring with
its two indices and its count, the callback slots, and a stack of activations of
`esp_hosted_dispatch_rx`, each with its local packet. One iteration of the
dispatch loop is two steps, `DispatchTake` (pop, find the client) and
`CallbackReturn`; between them the application may take any action. Contents are
reduced to what routing and the length check look at. The refinement mapping
reads the ring from `tail` on, `count` slots.

### HostedSdio

One action per register access: `PollRaw`, `PollClear`, `PollLen`, `PollDrain` or
`PollData`, `PollParse` (one frame per step); `TxBegin`, `TxToken`, `TxWrite`.
`Attach` and `Detach` are one step each. Each access named in `Faults` may fail,
with the return path the code has for it. Reads and writes of several chunks may
also fail *late* (`data_late`, `drain_late`, `write_late`): the slave gave or took
some or all of it, and the host is told of a failure and counts nothing. The slave
sends frames, frees buffers, throttles and releases the host, and restarts, at any
time. The queue above is `HostedFifo`, which `HostedQueue` is proved to implement.

Three things put the two sides apart without the host noticing: a late failure, a
restart of the slave, and an attach without a reset pin (`SlavePulsed`), which starts
the host at zero beside a slave that goes on. The history `apart` records in which
direction; what the host reads from then on is unpredictable, and not modelled up to
the next attach that resets the slave, which brings the sides together again (the
properties say so). Two more consequences are in the model: a
slave that restarts while it throttles leaves the host throttled until the next
attach, and when the read of the length fails *after* the interrupt was cleared
the frames wait until the next packet announces itself. Where the code throws frames
away (a drain, a read that failed late, what is behind a wrong header, what a reset
takes along) the model counts them in `lost`, `dropped` is the receive queue's own
counter, and `NothingVanishes` is an exact balance: every frame the slave made is in
one place or in one of these numbers. The code itself counts only the refused ones.

Assumed of the slave: a register is read in one transfer; the slave does not
throttle *and* release between the host's read of the interrupt register and its
clear; it has fewer than 2^20 bytes waiting. A START that is the later one of two
pending bits is in the model: the code takes STOP for the later, so the host is not
throttled and only the credit stops it.

### HostedCtrl

`stack` holds the superloop and the requests inside it. A request numbers itself,
sets the wait state and sends (`RequestBegin`); then each round of its loop polls
(`Poll`), dispatches frame by frame (`DispatchOne`, with `CallbackReturn` where
the application's callback runs), and looks at the wait state (`Look`). A request
whose arguments cannot be encoded takes a number and returns (`RequestUnencoded`). The
co-processor answers rightly, wrongly, late or never, changes the link by itself,
and goes back to its start, with no station, when it restarts (`SlaveRestarts`) or when
the transport is attached again with a reset pin (`Reattach`). Its INIT event then leaves
`sta_connected` as it was. `known` says that the host has dispatched the event of the
*last* change of the link; an association that ends in a restart has no such event, so
nothing is claimed of what the host reports from then until the next link event. `Me` is a history value: it identifies a request by its place in the
history, so that properties can say *whose* answer was returned.

### NplService and BleNpl

`BleNpl` keeps the `next` pointers, flags and tails of the C structures;
`NplService` keeps a sequence per queue and the ticks left per callout. Time
passes between rounds, not within one; a round of `ble_npl_service_background` fires due
callouts one by one. `left` is a history variable, the true time to expiry, which
the wrapping clock is compared with.

### I2sStream

The program's steps are cut where another actor could matter: between the tests
and the sleep, between two descriptor writes. The handler runs as one step as
soon as its interrupt is pending and not locked out: on a single core nothing of
the program comes between. The DMA channel loads a descriptor *with its link*, so
a link written later is not seen, and hands the descriptor back when done. A chunk
counts as *moved* from then on; the FIFO between the channel and the pins, in which its
last samples still are, is not in the model. The properties speak of streams that own their interrupt. After `i2s_stream_stop`,
`stream_mode` stays set and a write without a new begin takes a polled path in
which a restart can meet a finished buffer; the model contains this path, the
properties exclude it.

### FileStore and SdFat

On the card are the FAT, the hint in FSInfo, the slots of the root directory and
the bytes of the clusters; in memory are the application's file structures and
the call in progress. One step is one sector write, with the reads and decisions
before it, so that the power can go, and writes can fail, exactly where they
can: creating a file is `Allocate` (FSInfo), `Mark` (FAT), `Pad` (the rest of a full
directory sector) and `Entry`; writing is `Write`, for an append behind the first
cluster `Allocate`, `Link` and `Mark`, then `SectorStep` for each sector and `Update`
for the entry; deleting is `Delete` and one `Unlink` per cluster. A write that fails leaves the sector as it was. Where the code looks at the result it
gives the call up (`GiveUp`); where it does not, it goes on as if nothing had happened:
`fatSetNextClus` in `Mark`, `Link` and `Unlink` (`SetNext`), and the filling of a directory
sector in `Pad`. The bound `MaxLosses` limits these failures and the losses of power
together. A cluster that a file has been given without its mark in the FAT is in
the history `lost`: it is free in the FAT and will be given away again, so of its files
nothing is promised, but of all others everything. A
byte carries the call it comes from and its place there, so that a mixture of
two calls shows. `Contents` reads a file as the code's own `filePrintContents` does:
along the chain, up to the size in the entry.

The code has four ways to go astray, which the model contains: entries can be put
behind the end of the directory, those of a long name by the search and any others by a
filling that failed unnoticed (`hidden`); an append behind the first cluster walks one link
too far (`beyond`); a full card or directory, or the deletion of a file whose mark was
lost, makes it go on with a number that is none of a cluster (`outside`); and a read whose result is not looked at, which is most
of them, may fail, after which `sdBuffer` holds another sector, that is decided by and
often written back (`misread`). The model ends with the last two. The history variable
`defects` records all four, and the properties speak of behaviours without them.

Assumed of the application: a file is opened at most once at a time and not
deleted while it is open; the code does not see to either, and a second structure of a
file, or one of a deleted file, is written back as stale as it is. Of the card: the root directory is one cluster, its
first slot is the volume label, names have at most 13 characters (one entry).

### SdFatRead

`fileRead` alone, on files that do not change. A file structure has the position
in bytes; the cluster and the sector index are static variables of `fileRead`, the
sector is in `sdBuffer`, and all three are shared by all open files. One step is one
byte (`ReadByte`), with the step to the next cluster or sector that comes before it
and either of whose reads may fail (`Misplaced`, `ReadFails`), or the end of the
chain (`ReadEnds`). A call begins with `fileIsValid`, which for a long name reads a
directory sector into `sdBuffer`. The history `astray` records what has disturbed the
reading of each file; the properties speak of the others, and so say exactly what an
application must not do.

### SectorDevice, SdmmcHost, SdSpi and SdCard

`SectorDevice` is the promise: a call begins; a write in doubt may land at any time,
up to the next success; a success is true at the instant it is returned.
`SdmmcHost` and `SdSpi` are the drivers, wait by wait, each beside its
external hardware. In `SdmmcHost` a command waits (`cmd`), is taken, becomes the
transfer under way (`flight`), is answered, moves its sector by DMA and ends;
the driver waits for each with a bounded loop, and giving up leaves `cmd` and `flight`
to go on. `sdmmc_init` is walked through command by command, in as many attempts as
the application makes. In `SdSpi` the card programs after the driver has
returned (`prog`) and answers 0x00 meanwhile. `SdCard` holds both, with the board as a
constant of the build; the file system's models write sectors in one step, with a
failure that leaves the sector as it was, which is stronger than `SectorDevice`, where a
failed write may still land (section 6).

The histories `edge` (SPI) and `overlap` (SDMMC) mark two coincidences in which the
promise is broken, described in section 5; `RefinesDevice` is about all other
behaviours.

Assumed of the hardware: a command starts when the transfer before it is over;
resetting FIFO and DMA ends the transfer; a card that programs takes no other data
command; a card that has not sent its data token in time never does.

## 3. What the runs check

All numbers are distinct states.

| Run | Instance | What it shows |
|---|---|---|
| `queue` (93 k) | 2 slots, 4 frames, 2 inits, nesting 2 | the ring keeps its shape, a stack that is down is empty, frames leave in order at every level, HostedFifo is refined, every frame leaves |
| `sdio` (4.3 M) | 3 frames of 4 kinds, 2 sends of 2 kinds, all faults, 2 attaches with a reset pin or without, 1 restart of the slave | byte counts agree, the credit is the slave's free buffers, no overrun, frames stay in order, every frame is accounted for; what a late failure, a restart or an attach without a pin sets apart an attach with one repairs |
| `sdio_live` (327 k) | 2 frames, 1 send, 2 throttles, 2 attaches with a reset pin, all faults but those of the reads and the late ones | every announced frame is read or drained, a released host sends again |
| `ctrl` (1.0 M) | 2 requests of 2 kinds, nesting 2, 2 link events or restarts of the co-processor, 1 restart of the host or attach, numbers modulo 3 | answers belong to their requests, time-outs are true, nothing waits for a request that returned, the reported link is the real one once its last change was dispatched, every request returns |
| `npl` (57 k) | 1 queue, 1 event, 2 callouts, clock modulo 8 | lists well formed, NplService refined, events leave, callouts expire |
| `i2s` (25 k) | 3 buffers, writes of up to 3 chunks, drain, stop | queue true, chunks moved once in order, drain means moved, calls return |
| `sdfat` (1.3 M) | 2 files, one with a long name; 3 clusters of 2 sectors of 2 bytes, 4 slots a sector; 2 writes, 1 loss of power or unnoticed failure, every noticed failure | chains sound, files found, open files current, FileStore refined |
| `sd_card` (2.3 M) | both boards, 2 sectors, 2 contents, 2 attempts of each loop, 2 initialisations, every failure | a driver that takes calls has a card that does; SectorDevice refined |
| `sd_read` (686 k) | 2 files of up to 2 clusters of 2 sectors of 2 bytes, one with a long name; reads of 1, 2 and 5 bytes, sector index modulo 4 | an undisturbed file's cluster, sector and buffer are its own, and the bytes read are the file's |
| `i2s_poll`, `sdfat_lost`, `sdmmc_reset` | small | the disagreements of section 5 |

### Why the bounds are enough

* *queue*: the ring must fill, wrap and be refused with a nested dispatch active:
  two slots and four frames do all of it, two inits put a restart between, and
  two levels are the first at which two local packets coexist.
* *sdio*: sizes are thirds of `frame_buf`. Full frames are 2, so one fits and two
  do not; the frame of size 4 is really too large. The length counter wraps at 6
  with three frames, the token counter at 4 with two
  sends of one or two buffers. In `sdio_live` the buffer holds 2, so two frames that
  arrive together are drained, and the length counter wraps at 4; two throttles put
  a release next to a new throttle.
  Budget 2 leaves the poll with work undone. Two attaches put frames of before a
  reset next to frames of after it, and one restart of the slave before the second
  is the least that shows the repair; an attach without a pin can be the first or the
  second. What the safety properties say is proved
  without these bounds (section 4).
* *ctrl*: two requests, one inside the other or one after the other, and a deinit,
  after which numbers begin at 1 again: a late answer meets a request of its number
  and of another one. The generator wraps and leaves out zero; that a number comes
  back by the wrap itself needs a third request, and is in the proof. Nesting 2 is an outer request and one made
  in its callback. A round of waiting before the time-out allows an answer in it and
  after it. One of the two kinds shares its message id with others, as in the code.
  More requests, nesting and longer time-outs are in the proofs too.
* *npl*: delays of 0 to 2 and a lateness of 1 on a clock of 8 keep the condition
  the signed comparison needs (twice the span is less than the clock) and wrap at
  every offset. Three events in one queue are the least at which one is removed
  from the middle. With one queue an event cannot be put on two; the code's flag is
  per event and not per queue, so a second queue adds no new path.
* *i2s*: three buffers with a prefill of two: the channel can be ahead of, at and
  behind the program. The other runs use two. One and two were also tried by hand.

* *sdfat*: writes of 3 and 5 bytes on clusters of 4: within the cluster, longer
  than the cluster, and together longer; 3 bytes end inside a sector. The file
  found on the card has 5 bytes in two clusters. With a label and two files the
  four slots of a sector fill up, and slots are reused in runs of one and of two. One
  unnoticed failure of a FAT write gives a cluster away twice when the other
  file is created next. More of them, mixed with losses of power, are in the proofs.
* *sd_card*: a coincidence needs a call that was given up and one after it, of the
  same or another sector, with the same or another content. Two attempts of a loop
  are one that goes on and one that gives up; two initialisations are one that fails
  half way and one after it. The proofs are without these bounds.
* *sd_read*: two sectors a cluster and two bytes a sector: every combination of
  inside, at the end of a sector and at the end of a cluster. 5 bytes cross a cluster
  in one call. The index wraps at 4 so that one more than the sectors fits, as with
  256 in the code.

`CHECK_DEADLOCK FALSE` is used where the bounds on history (frames, requests)
let a behaviour stop, and in SdFat where the model ends; it never hides a stop of the code itself, which the
liveness properties cover.

### Fairness

The fairness is that of the superloop of `examples/esp_hosted/source/main.c`:

```
while (1) { lwip_hosted_poll() or esp_hosted_poll() and esp_hosted_dispatch_rx();
            ble_nimble_poll(); ...; delay_ms(1); }
```

* `HostedQueue.FairSpec`: the loop dispatches at level 0, the dispatch loop goes
  on, and callbacks return. No fairness for the application's other calls.
* `HostedSdio.FairSpec`: a driver function that began goes on (weak); polling and
  dispatching happen again and again (strong, because a send occupies the driver
  in between). Nothing is assumed of the slave. In the run `sdio_live` the reads of
  interrupt bits, length and data do not fail: if all of them did, frames could of
  course wait for ever.
* `HostedCtrl.FairSpec`: the host's own steps go on. Nothing is assumed of the
  co-processor, so `EveryRequestReturns` rests on the time-out alone.
* `BleNpl.FairSpec`: `nimble_port_run_once` is called again and again for the
  queue, and a round that began ends.
* `I2sStream.FairSpec`: processor, handler and channel run. `OtherIrq = TRUE` says
  that the application has a periodic interrupt; without one the calls need not
  return (section 5).

The runs of the file system and of the card check safety only: their calls are
bounded loops that end by themselves.

## 4. What is proved

TLC checks the instances above; the theorems hold for every value of the constants
that the named assumptions of the modules allow (counters of any width, any number of
frames, requests, files, restarts, failures and losses of power), and rest on nothing
else. Every safety property of the passing runs has a theorem. Each inductive invariant
was checked by TLC before it was proved.

| Module | Theorem | States |
|---|---|---|
| `HostedQueueProofs` | `TypeCorrect` | `Spec => []TypeOK` |
| | `RingKeepsShape` | `Spec => []RingShape`: head, tail and count agree; a stack that is down is empty |
| | `FramesLeaveInOrder` | `Spec => InOrder`: what leaves is later than all that left |
| | `NestedCallbacksInOrder` | `Spec => []NestedAreLater` |
| | `RingRefinesFifo` | `Spec => RefinesFifo`, which is `Fifo!Spec` |
| `HostedSdioProofs` | `SdioTypeOK` | `Spec => []TypeOK` |
| | `SdioReadsInStep` | `Spec => []ReadsInStep`: the byte counts of both sides |
| | `SdioCreditInStep` | `Spec => []CreditInStep`: the credit is the slave's free buffers |
| | `SdioNeverOverrun` | `Spec => []NeverOverrun` |
| | `SdioPathInOrder` | `Spec => []PathInOrder` |
| | `SdioNothingVanishes` | `Spec => []NothingVanishes`: made = with the slave + in hand + queued + handed out + refused + thrown away |
| `HostedCtrlProofs` | `CtrlTypeOK` | `Spec => []TypeOK` |
| | `CtrlWaitingIsInnermost` | `Spec => []WaitingIsInnermost` |
| | `CtrlAnswerOwned` | `Spec => []AnswerOwned` |
| | `CtrlTimeoutMeansNoAnswer` | `Spec => []TimeoutMeansNoAnswer` |
| | `CtrlLinkKnown` | `Spec => []LinkKnown`: of a host that has dispatched the event of the last change of the link |
| `BleNplProofs` | `NplTypes` | `Spec => []TypeOK` |
| | `NplQueuesLinked` | `Spec => []QueuesLinked` |
| | `NplRefinesService` | `Spec => RefinesService` |
| `SdCardProofs` | `SdCardTypeOK` | `Spec => []TypeOK` |
| | `SdCardReadyMeansReady` | `Spec => []ReadyMeansReady` |
| | `SdCardRefinesDevice` | `Spec => RefinesDevice` |
| `I2sStreamProofs` | `I2sTypeOK` | `Spec => []TypeOK` |
| | `I2sQueueTrue` | `Spec => []QueueTrue`, if `"poll" \notin Calls` |
| | `I2sDrainTrueMeansMoved` | `Spec => []DrainTrueMeansMoved`, if `"poll" \notin Calls` |
| | `I2sMovedInOrder` | `Spec => MovedInOrder`, if `"poll" \notin Calls` |
| `SdFatProofs` | `SdFatTypes` | `Spec => []TypeOK` |
| | `SdFatChains` | `Spec => []ChainsSound`: chains end, are long enough, are apart; nothing leaks |
| | `SdFatDirectory` | `Spec => []DirectoryWhole` |
| | `SdFatHandles` | `Spec => []HandlesCurrent` |
| | `SdFatRefinesStore` | `Spec => RefinesStore`, through failures and losses of power |
| `SdFatReadProofs` | `SdReadCursorTrue` | `Spec => []CursorTrue` |
| | `SdReadTrue` | `Spec => []ReadTrue`: the bytes read are the file's |

### The receive queue

*First invariant, `Shape`.* Type correctness, the ring shape and emptiness when
down are proved together. `head` and `tail` keep their types by themselves, but
that `head` stays `count` slots behind `tail` needs the type of all three, and
that a pop happens only on a stack that is up (so that dispatch, which does not
test `s_initialized` again, cannot break emptiness) needs emptiness.

*Second invariant, `Ordered`.* `InOrder` is not inductive: that the packet popped
next is later than the last one needs that the *queued* packets are sorted, all of
them later than `out` and none later than the number of submissions. `Ordered`
says so, and says the same of the local packets of the active callbacks. The ring
lemmas carry it: the slots of different positions are different (`SlotInjective`),
a push writes only the free slot, a pop shifts positions by one.

*Refinement.* Under `Shape` a push appends to the sequence the mapping reads off
the ring (`PushAppends`), a pop takes its head (`PopTakesHead`), a reset empties it,
and all else leaves it alone; `StepRefines` assembles this action by action.

### The SDIO transport

*`IInv`* is `TypeOK /\ Bounds /\ Stage /\ Credit /\ NeverOverrun /\ Stream /\
InStep /\ Wanted`. `ReadsInStep` compares counters modulo 2^20, which says nothing
about the frames unless the slave's buffer is known to be one stretch of its
stream: `Stream` says that the frames that wait lie end to end from `consumed` to
`produced`. Between the read of the length and the read of the data the number in
hand must still be that of a whole number of frames at the head of the stream
(`Wanted`), although more have been appended since. `Credit` relates
the token register, the host's count and the slave's buffers over both wraps;
`NeverOverrun` then survives because the slave only ever frees buffers between the
read of the token and the write.

*`Order`*: the frames in the slave, in `frame_buf`, in the queue and the one handed out
last are ascending within and across the four places. `NothingVanishes` is inductive
beside it. Both follow from one list of what a step can do to these places
(`PathStep`: `Sent`, `Taken`, `Accepted`, `Refused`, `Skipped`, `Spoiled`, `Restarted`,
`Handed`), which `PathSteps` goes through action by action.

### The control channel

*`WaitInv`* is `TypeInv /\ Shape /\ Uninitialized /\ Waits`: the stack of contexts has
ascending serials and the superloop at its bottom, and what waits is its top, except
between the instant an inner request clears the wait state and its return.

*`NumInv`* adds where numbers come from: every message on the way carries the number
of the request it names (`Messages`), and a wait state that is waited for carries that of
its request (`WaitsByNumber`), both modulo the wrap that leaves out zero. From equal
numbers it follows that two requests are the same, or a whole period apart, or of
different epochs, which is what `AnswerInv` carries from the response slot to the
result. `TimeoutInv` adds that an answer that was dispatched for the request that
waits has been seen by it.

*`LinkInv`* orders the link events on the way: the one of the last change, if that has one
and it was not lost, tells the link as it is, and the host that has dispatched it
reports that. A restart is a change without an event, so that no event on the way
tells of it.

### The SD card

*`CardInv`* is one invariant per board. On the SPI board (`SpiType /\ SpiStage`) what
the card serves is the call in progress. On the SDMMC board (`MmcType /\
MmcReady /\ MmcStage`, and `MmcOwned` as long as `overlap` is empty) the events the driver
has seen belong to the call's own transfer, which is waiting, moving or finished:
this is what a reset of FIFO and DMA that is really waited for gives. Each action of
the two drivers and their hardware is then shown to be one of `SectorDevice`'s
(`Begins`, `Lands`, `Forgets`, `Succeeds`, `GivesUp`) or none.

### I2S streaming

Chunk `c` lies in slot `(c - 1) % Count`, so every index of the ring is a statement
about chunks; the arithmetic (`SlotPlus`, `SlotApart`, `SlotFound`, ...) is proved once. *`Inv`* is
`TypeInv /\ LockTrue /\ Stream`, where `Stream` holds of a stream that owns its interrupt:
`Ring` (the handle, the chunks, the links, the free slots, and the slot being appended),
`Channel` (what the channel has loaded is the chunk after the last one moved, and its link is
the chunk after that or an end mark) and `Drained`. `QueueTrue` alone is not
inductive: it says nothing inside the lock, where the channel may already follow the
new link and move the chunk before the program has counted it; `Reach` is how far it can come.
That nothing which has been moved is left unreclaimed when no interrupt is pending
(`Channel`) is what lets the program restart a parked channel at `stream_tail`. The three theorems
assume that the application does not call `i2s_stream_poll` itself: with it the counts do not
stay true, as `i2s_poll` shows.

### The NimBLE porting layer

*`NplInv`* is `Linked /\ Ticking` with the type of `serving`. `Linked` describes each queue by
the sequence it stands for (`IsList`): its elements are the events flagged as queued in it, none
twice, each `next` names the following one and the last is the tail. `Ticking` says that
of the active callouts and orders them by the *true* time to expiry (`left`), which agrees with the
wrapping clock as long as twice the longest delay and lateness are less than its range
(`NplAssumption`). Removal from the middle is the hard case: what the search finds has to be
the predecessor in the list (`WalkFinds`: `Walk` reads a list off as it is). `RefinesService`
then says, action by action, that put, get and remove are those of the abstract sequence, and
that a round fires exactly the callouts that are due, in order.

`Walk` is a recursive function, and an induction over it cannot be written with the
library's theorems, which take a predicate as a parameter. The induction here goes another
way: `AllNumbers` derives from the pigeonhole principle for finite sets that a set of
numbers with 0 and all successors is `Nat`, `LeastNumber` follows, and a set is something the
provers can instantiate. For this, `NplAssumption` says that there are finitely many events.

### The file system

*`FatInv`* is `Types /\ (Sound => Claims)`: the types hold always, the claims as long as
the code has done nothing after which nothing is promised (`hidden`, `beyond`, `outside`,
`misread`). A chain
is a *path*: a sequence of different clusters that the FAT links and that ends with the end mark
(`Path`, `Good`). A walk of `n` steps is the `n`-th element of the path (`WalkOnPath`), and
a path stays one when the FAT changes elsewhere (`ChainKept`). `ChainsSound`, `DirectoryWhole`
and `HandlesCurrent` are not inductive without what a call in progress has in hand:

* `ChainsOK`: no chain of a file whose mark was written meets `lost`, and in the FAT a
  cluster of `lost` is free or the end of a chain, so a file that begins there
  has no other cluster, and nothing done to it reaches the others;
* `MakingOK`: the cluster that `fileCreate` has taken is free before it is marked, and then
  no file's; the slots it will write are no file's and not behind an end mark;
* `UnlinkOK`: what `fileDelete` still has to free is a chain that no file has;
* `LeaksOK`: without a failure these two are the only clusters without a file;
* `WritingOK`: `fileWrite` is in the file's first cluster, and sector, offset and
  bytes sent add up to the position, so that a write that ends stays in the cluster.

`getFreeEntry` searches by a backward recursion over the slots; `FreeEntrySuits` says what
its result is good for (free or an end mark, for one or two slots), again by the least
slot for which it would fail.

*`StoreInv`* adds `Written`, what is in the clusters: the bytes of the call so far (`SentOK`,
`UpdateOK`), and for a file that is appended to, that the size in the structure may be ahead
of the size in the entry, by bytes of whole calls in the first cluster (`AppendOK`). It is
ahead after an update of the entry that failed, and the next append makes both visible at once: `FileStore`
has to allow that and says so by `Whole`. `EveryStep` maps each step: `Entry` is `Create`, the first
entry write of `fileDelete` is `Delete`, `Update` is `Grow` or `Replace`, the sectors of a
replacement are `Scramble`, and every other sector write, with every failure, noticed or not, and loss of
power in an append, a creation or a deletion, changes no file. The files of clusters in
`lost` are not in the mapping: they vanish from it when their mark is lost
before they appear in the directory, so what is done to them is a stutter.

Two assumptions were added to what the runs need, `OldAssumption` (the file that is on
the card at first fits on it) and `HandleAssumption` (NULL points to no structure).

*`ReadInv`* is `TypeInv /\ InFile /\ InCall /\ CursorTrue /\ ReadTrue`. That the bytes read
so far are the file's, and that cluster, sector and buffer are those of the position, need each
other, and both need `InFile`: a file that has been read to its last cluster and not
beyond is one that nothing has disturbed. Positions are decomposed into cluster,
sector and byte by `DivMod` alone.

### Only model-checked

All liveness (`EveryFrameLeaves` and its like), which needs fairness and `ENABLED`, which
the prover does not handle; and, by their nature, the three runs of section 5.

## 5. Disagreements found

The first three have a run each.

* **`i2s_poll`** — `i2s_stream_poll` reclaims without the lock; a handler between its
  two reads makes `stream_queued` wrap from 0 to 255.
* **`sdfat_lost`** — `getFreeEntry`, when a run of free slots is too short, goes on
  behind the slot that ended it, even if that is the end of the directory. Create
  a file with a short name, delete it, create one with a long name: the new file is
  behind the end mark, and no later call finds it.

* **`sdmmc_reset`** — `sdmmc.c:432` waits for the reset of FIFO and DMA with
  `while (wait_loops-- > 0U)` and then tests `wait_loops == 0U`. A wait that runs out
  leaves the counter at its maximum, so the time-out is taken for success, and the
  next transfer starts over one that is still under way: `sdmmc_read_sector` returns
  `SDMMC_OK` with another sector. The same loop is at line 670.

The others are in the models as the code has them, and the properties either say or
except what follows from them.

*ESP-Hosted.* `esp_hosted_sdio.c:1560` compares the bytes of *all* waiting frames with
the buffer, and drains them all, as "rx frame too large": two frames of ordinary size
that arrive between two polls are lost (`NothingVanishes` counts them). Not modelled: a
fragment with a valid header is submitted like a complete frame, against the contract
of `esp_hosted_rx_submit` (`esp_hosted.h:129`). `NothingVanishes` gives the balance, but
of all the frames that are thrown away the code itself counts only those the full queue
refuses. A co-processor that restarts, or is reset by an attach, while it is
associated leaves `sta_connected` TRUE (`esp_hosted_ctrl.c:1442-1452` sets only `ready`):
the host reports a link that is gone until the next link event.

*I2S.* `i2s_stream_write` and `_drain` test, then execute `wfi` with interrupts enabled in
between: the interrupt they sleep for may have been handled. Without another interrupt
(`OtherIrq = FALSE`) `EveryCallReturns` fails. `i2s_stream_reclaim_completed` stops the
transmitter as soon as the channel is idle (1069), without the wait for the end of
transmission that the blocking path has (908-915): what the peripheral's FIFO then still
holds may not be played, although the drain succeeds.

*SD cards.* The bounce buffer is filled with the data of a write before FIFO and DMA
are reset (`sdmmc.c:413`): a read that was given up may still land there, and be
written to the card (`overlap`). On the SPI bus, `sd_read_start` takes the last byte of
a wait that ran out for the token; when the card stops being busy in exactly that byte
a sector of something else is read with success (`edge`, `sd_spi.c:422`).
`SD_WRITE_TIMEOUT` is 100 ms where the comment says 250. Neither driver asks the card
for its status after a write, so a write that fails while being programmed would be a
success; the model's card does not fail there. The SPI driver never looks at the bit
for the card's capacity (`sd_spi.c:585-592`) and always counts in sectors: with a
standard-capacity card, which counts in bytes, it would be wrong; the model's card counts
in sectors.

*File system.* `fileWrite` returns true when the data does not fit into the rest of the
cluster, and drops what does not fit (`sdFat32.c:1970`). An append to a file whose size
has reached a whole cluster walks one link past the end of its chain (1912), links a
new cluster to the wrong place and writes to an address computed from the end mark.
Two files read in turn get each other's clusters (1077); a file with a long name that
is read in parts of a sector gets bytes of the directory, because `fileIsValid` looks up
the name through the same buffer; a read that is tried again after a failure skips a
sector or a cluster; `fileRead` reads to the end of the last cluster whatever the size
of the file, and begins at the start again after that. Most reads and several writes
are made without a look at the result: those of the FAT (367-375, also in the freeing of
a deleted file's chain, 2019-2029, after which `fileDelete` returns true with the clusters
leaked), of the filling of a directory sector (1236), of the sector that gets a new
entry (1607, 1653) and of the sector an append begins in (1926). A mark that is lost gives
its cluster away again, and two files share it.

*Found while reading, in parts without a model.* On the H2, C6 and P4 the 64-bit machine
time is read as two words, and a carry between the reads gives a time off by 2^32 ticks
(`mtimer.h`); a delay then ends early. `SET_MTIMECMP` evaluates its argument twice, so the two
words of the next alarm may come from two times. `MTIMER_MS_TO_TICKS` multiplies in 32
bits, which cuts delays of more than about 12 s (P4) or 45 s (H2) short. The C3 reads
a snapshot and is right. `nimble_port_stop` only sets a flag, which a
`nimble_port_run` that waits sees after the next event; `nimble_port_deinit` empties the
queue and leaves the events in it marked as queued.

## 6. Not modelled, and what is left

Of the modelled parts:

* *ESP-Hosted*: the bring-up of the SDIO controller and card (one step that succeeds or
  fails: a sequence of commands without state left over from a failed one, because each
  attach starts at the beginning), the byte-wise fallback for registers, the encoding
  of the control messages, the statistics and the getters.
* *NimBLE porting layer*: semaphores and mutexes. A wait on one runs the rounds
  `BleNpl` models until a count changes or time is up; there is one task, so a mutex never
  blocks, and a wait inside a round would multiply the states of every step by those of
  the wait. Starting and stopping the port depends on what NimBLE does with its
  queue, and NimBLE is not in the tree. Initialising an object that is in use is
  left out too, and so is `ble_npl_event_reset` on an event that is queued. The clock
  stands still within a round.
* *I2S*: the blocking `i2s_write`, one DMA transfer with a polled end, the FIFO of the
  peripheral, and the set-up of clocks and pins.
* *File system*: subdirectories, names of several entries, listing and dates, which
  multiply the directory without adding a step between two sector writes; what happens
  after a read that failed unnoticed; and a write that fails but lands later, as
  `SectorDevice` allows.
* *SD cards*: pins, clocks, decoding of the card's registers.

Of the others: the machine timer, the interrupt table, I2C, SPI, UART, USB serial, GPIO,
ES8311 and WS2812 are register accesses in a fixed order with bounded waits, done by one
caller, and keep nothing between calls but the registers of the peripheral; a model
would repeat the code. (An I2C transaction that times out is abandoned as it is; what
the next one then meets is up to a peripheral whose reaction is not in the repository.) The lwIP binding and the NimBLE glue are defined by what lwIP and
NimBLE do, which are submodules that are not in the tree. The register, ROM and HAL
headers, nearly all of the lines of the repository, are vendored or generated.

What would come next: the file system on top of `SectorDevice` instead of on sectors
written in one step, so that the proofs of the two compose; and a proof of what the I2S
stream still promises when the application polls.
