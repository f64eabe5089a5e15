# Verification of the LPC1778 boot loader and streamer

The repository holds two bare-metal programs for an LPC1778 board, both built on
lwIP with `NO_SYS = 1` (one main loop, no threads):

* **`WEB_bare_loader`**, an Ethernet boot loader. With a boot pin shorted at power-up
  it erases the user flash, serves a web page, takes a firmware image as a
  multipart POST, programs it block by block and jumps to it. With the pin open it
  jumps to whatever the user flash holds.
* **`WEB_UDP_bare_server`**, the streamer. A timer interrupt paces the main loop,
  which packs (imitated) ADC samples and sends them by UDP; it also has a web server.

They share the LPCOpen chip and board libraries (`lpc_chip_177x_8x`,
`lpc_board_ea_devkit_1788`). The Ethernet driver, the PHY poll, the system tick and
lwIP exist in both programs; the two copies are the same code, and so are the parts of
`httpd.c` that answer a GET.

The project holds TLA+ modules translated from that source, TLC configurations that
check them on small instances, and proofs, checked by TLAPS, of the properties that
matter most. `PROJECT.json` maps every definition to the lines it models.


## 1. Inventory

| component | state | operations | modelled |
|---|---|---|---|
| flash writer, loader `main.c` | `flash_buf`, `byte_ctr`, `flash_address`, `result_table`, the flash | `write_flash`, `find_erase_prepare_sector`, IAP calls | `FlashWriter` |
| upload, loader `post_example.c` | `fwupdate`, `curlen`, `flash_cnt`, `flash_pos`, `dataArr`, `reboot`, `current_connection` | `httpd_post_begin`, `httpd_post_receive_data`, the multipart state machine, `httpd_post_finished` | `FwUpload` |
| loader `main.c` and the connections of its web server | boot pin, user flash, one `struct http_state` per connection | power-up, erase, jump; `http_accept`, `http_recv` with POST, `http_poll`, `http_sent`, `http_err`, `http_close_conn` | `Bootloader` |
| answer to a GET, `httpd.c` of both programs | `hdr_index`, `hdr_pos`, `left`, `handle`, `retries` of one connection | `http_recv`, `http_send_data`, `http_write`, `http_sent`, `http_poll`, `http_close_conn` | `HttpSend` |
| Ethernet driver, transmit | TX ring, `txb[]`, `lpc_last_tx_idx` | `lpc_low_level_output`, `lpc_tx_reclaim`, DMA engine | `EmacTx` |
| Ethernet driver, receive | RX ring, `rxb[]`, `rx_fill_desc_index`, `rx_free_descs` | `lpc_rx_setup`, `lpc_rx_queue`, `lpc_low_level_input`, overrun recovery, `lpc_enetif_input`, DMA engine | `EmacRx` |
| PHY poll, `lpc_phy_smsc87x0.c` | poll state, status and old status, changed flag | `lpcPHYStsPoll`, reaction of the main loop, PHY, MII bus | `PhyLink` |
| streamer `main.c` | `freq_flag`, `sample_id`, `send_buffer`, `send_cnt` | timer interrupt, loop over the samples, sending | `Streamer` |
| clock, `lpc17xx_40xx_systick_arch.c` and lwIP's `timeouts.c` | `systick_timems`, list of timeouts, `tcpip_tcp_timer_active`, `polltmr` | `SysTick_Handler`, `msDelay`, `sys_check_timeouts`, cyclic timers, TCP timer, polls | `Timeouts` |
| rest of lwIP, LPCOpen, ring buffers, tick loop, EEPROM, start-up code, `Debug/` | | | not modelled (section 8) |

**Interactions.** In every turn, the main loop of either program calls
`lpc_enetif_input` and `lpc_tx_reclaim` (`EmacRx`, `EmacTx`), `sys_check_timeouts`
(`Timeouts`) and `lpcPHYStsPoll` (`PhyLink`). lwIP calls the callbacks of `httpd.c`;
in the loader these call the three POST functions of `post_example.c` through `httpd.h`; the
multipart state machine calls `write_flash`, which calls the boot ROM. lwIP's TCP timer
polls the connections, which is what the web server counts on to shed idle clients:
`Timeouts` shows that the poll comes, `Bootloader` and `HttpSend` what it does. In the
streamer the same loop serves the timer interrupt's flag before it turns.

All driver and server code runs in the main loop, one callback at a time. What
happens concurrently is the environment: clients, the network, the link, the power, the
two interrupts, the DMA engine, the MII bus, the boot ROM's answers. `httpd.c` and
`post_example.c` each keep their own account of an upload (`post_content_len_left`
against `content_length`, `file_length`, `curlen`), and the owner of an upload is an
*address* (`current_connection`).

**What is hard to get right.**

* An upload reaches the flash through four counters that are moved by different
  callbacks (`curlen`, `flash_cnt`, `flash_pos`, `byte_ctr`), with pbuf boundaries
  anywhere. Uploads that end early (close, reset, eight-second pause, another client
  that takes over) leave these counters behind for the next one.
* Each block takes three IAP calls, every one of which may fail. The block then stays in
  `flash_buf`, and the next ones are copied behind it and reported as written. The power may
  fail between any two steps; only the flash survives.
* The DMA engine and the driver share two rings whose state is a few indexes. The
  receive ring also lives on a heap that may be empty: a pbuf for which there is no
  successor goes back, and an overrun frees the whole ring in the middle of reception.
* A reading of the PHY is spread over three calls and two registers while the link
  comes and goes; the status register latches, the changed flag lives for one turn.
* The streamer's inner loop is left only when the interrupt's flag is clear, and a packet
  for which there is no memory grows on in a buffer that is not checked. What `udp_sendto`
  answers is ignored: a packet may be lost in the stack, in the driver or on its way.
* TCP may take a part of what the web server writes, or nothing, at any call.
* The clock wraps, and the main loop may look at it late.

**What makes each component correct.**

| component | properties |
|---|---|
| flash writer | it programs only erased cells (`NoDoubleProgram`) and without a gap (`NoHoles`), and leaves no byte above the end of what is stored (`NothingAbove`) |
| upload | the bytes in `dataArr` and in the flash are those of the file, in order (`StreamIntact`) |
| loader | it jumps to complete images only (`BootComplete`); an upload whose client goes on sending ends in the jump (`UploadBoots`); it implements `FirmwareUpdate` |
| web server | an answer is given to TCP in order and once (`InOrderOnce`), completely before the server closes (`ClosedComplete`); no connection lives forever (`ConnectionEnds`, of `Bootloader` and of `HttpSend`) |
| transmit driver | in order and once (`InOrder`), no pbuf freed early (`KeptUnlessCrowded`) or never (`AllFreed`), no endless wait (`OutputReturns`) |
| receive driver | every pbuf has one owner (`OwnedOnce`), the DMA engine writes to queued pbufs only (`DmaInRing`), frames reach lwIP in order (`InOrder`) and whole (`BuffersWhole`), a NULL pbuf is met only without any memory (`CrashOnlyEmpty`), and the ring is emptied (`RingDrains`) |
| PHY poll | interface, EMAC and poll agree (`LinkAgrees`), a short loss of the link is reported (`FlapReported`), a link that stays is followed (`LinkSettles`) |
| streamer | the receiver can account for every sample, whichever packets are lost (`Accounted`), the buffer overflows only after so many failed allocations (`BufferFits`), a tick is not forgotten (`TickPending`), packets flow (`PacketsFlow`) |
| clock | the list stays sorted across the wrap (`ListSorted`), no timer is lost or doubled (`OneTimeoutEach`), a late loop causes no burst (`NoBurst`) and no early poll (`PollsSpaced`), polls go on (`PollsGoOn`), a delay is never longer than asked (`DelayHonest`) |

The list of hazards, each at its line and with the properties that cover it, is in
`PROJECT.json`.


## 2. Modules

```
FlashWriter <- FwUpload <- Bootloader <- MCBootloader                          (TLC)
                               |      <- Bootloader_proofs <- BootComplete_proofs <- Update_proofs
                               '-- INSTANCE FirmwareUpdate                     (abstract)
EmacTx      <- EmacTx_proofs
EmacRx      <- EmacRx_proofs
PhyLink     <- Streamer <- Streamer_proofs
HttpSend    <- MCHttpSend                                                      (TLC)
            <- HttpSend_proofs
Timeouts    <- MCTimeouts                                                      (TLC)
            <- Timeouts_proofs
```

(`<-`: is extended by.)

* **`FlashWriter`**: `write_flash` as an operator on the flash, `byte_ctr`,
  `flash_address` and `result_table`. A flash cell is `Blank`, a byte of an upload, a
  byte of zero-initialised RAM, or `Mixed` when it was programmed twice with different
  data. The outcome of the IAP calls is chosen by `IapOutcome`. The code erases a
  sector when a block starts at its first address; that, and the fact that the result
  of the erase is overwritten by the next prepare, are modelled. A call that finds `flash_buf`
  full copies its block behind it, programs nothing and reports success (`WriteBehind`).
* **`FwUpload`**: the POST handler. `pc` is the position of the main loop:
  `"idle"` (no callback is running), `"stream"` (in the loop over a pbuf; one step
  per pass, up to the end of the block or of the pbuf), `"tail"` (the test
  for the end of the file), `"return"` (back in `http_post_rxpbuf`) and
  `"corrupt"`. The steps matter because the power may fail between them. After a first block
  was copied behind `flash_buf` the callback goes on (`Overrun`): `flash_pos` moves over the lost
  block, and the variables that lie there (`curlen`, `current_connection`, `result_table`) may
  have any value (`Clobber`). `"corrupt"` follows when a second block goes behind it, over the
  upload's other counters and the heap, or when that callback returns to lwIP, whose interface
  (`lpc_netif`) was overwritten (`After`).
* **`Bootloader`**: `main()` and `httpd.c` around it. `conn[c]` is the `http_state` at
  the address `c` together with the client at the other end; `malloc` may give a freed
  address to the next connection. Handlers start only at `pc = "idle"`. The
  properties of the loader are at the end of this module, followed by the parts of
  its inductive invariant.
* **`FirmwareUpdate`**: what the loader promises, in five actions: it stores an image
  from its first byte on and hands over when all of it is stored. `Bootloader`
  instantiates it as `Update`, with `stored` mapped to the longest prefix of an
  upload that the flash begins with (`MostStored`).
* **`HttpSend`**: one connection of the web server and its answer. `at` tells whether a
  call of `http_send_data` is under way; each header string, or the part of the file, is a step
  of it. What TCP takes of an offer (`Taken`) is chosen: everything, nothing, or what the
  halving of `http_write` arrives at.
* **`EmacTx`**: transmission, the driver and the DMA engine as concurrent processes.
  `put`, `sent` and `crowded` are history variables; a descriptor carries its
  number so that order can be stated.
* **`EmacRx`**: reception, likewise. `pc` is where the driver is: setting up the ring, in
  its loop, in `lpc_rx_queue` with a frame in `hand`, about to move CONSUMEINDEX, or in
  `lpc_enetif_input`. The heap is the set `Pbufs`; `held` are those that are the driver's.
  A descriptor keeps its address after its pbuf was taken out, as in the code. `mem`,
  `filled` and `last` number the frames.
* **`PhyLink`**: the poll in its three states, what `main()` does with the answer, and
  the PHY and the MII bus as processes of their own.
* **`Streamer`** composes `PhyLink` with the timer interrupt and the rest of the loop.
  A sample is its id; `next` and `missing` are what a receiver can reckon from the ids
  it got. Whether a packet arrives is chosen (`Receiver`): it never does without a link, and with
  one it may be lost for want of an ARP entry or of memory in the driver, or on its way.
* **`Timeouts`**: start-up (`pc = "init"`: `sys_timeouts_init` puts one cyclic timer after the
  other into the list, in any order), tick, delay, list of timeouts and TCP timer.
  `next_timeout` is the list, as a sequence. `lag`, `ran`, `age`, `polled` and `delayed` are history variables.
* **`MC*`**: symmetry and values of constants for TLC.
* **`*_proofs`**: the theorems.

Definitions that begin with the comment `Mutant:` are plausible mistakes, one for each
property; they are used only to show that the property would notice them.


## 3. Abstractions

* **Units.** Addresses, lengths and offsets are counted in units, the smallest run of
  bytes that the model tells apart. `FLASH_BUF_SIZE` is `BlockSize` units. The sectors
  of the chip are `SectorStart`; `USER_FLASH_START` and `USER_FLASH_END` are
  `UserStart` and `UserEnd`. The streamer's buffer is counted in samples: a packet is
  `Packet` of them, `send_buffer` has room for `Room`.
* **Bytes.** A byte of an upload is the pair of the upload's number and its offset in
  the body, so that bytes of different uploads, or at different offsets, always differ. A unit
  of an answer is its number in the answer.
* **The body** is `Preamble` units, the last of which holds the line
  `application/octet-stream`, the file, and `Trailer` units of closing boundary. The
  search for the tag is modelled by whether the buffer contains that unit, since
  the code looks for it in one buffer only.
* **Responses** are, in `Bootloader`, none, a page, or the headers of a 404 page; `HttpSend`
  models how they are sent.
* **Requests.** In `Bootloader` a client sends one request; the server closes the
  connection after the response. Body data that follows a refused POST is
  parsed as a request and closes the connection (`RecvAfterRefusal`). In `HttpSend` pbufs
  arrive at any time, up to `MaxRequests` of them.
* **The environment's disturbances** of an upload are switched on by the constant `Faults`:

  | kind | meaning |
  |---|---|
  | `iap` | any IAP call of `write_flash` may fail |
  | `erase` | any IAP call of the erase at power-up may fail |
  | `disturb` | an upload may end early, or be taken over, after bytes of its file were taken |
  | `chain` | a received pbuf may be a chain, of which only the first is taken |
  | `oversize` | a file need not fit the user flash |
  | `tag` | `strstr` may find a tag in stale memory behind the pbuf |

  Power failures, other connections, uploads that end before the first file byte,
  resets, stalls and refused POSTs are always possible.

  Without `disturb` the *guard* `MayLeave` (`TakeOver` in a POST) keeps connections
  from closing, being reset, timing out or being taken over in the middle of a
  file. It is an assumption about the clients, not a guard of the code. It is
  needed for `BootComplete`: the run `retry` shows what the code does without it.
* **`Fits`**: without `oversize`, a file and its trailer leave at least a block of the
  user flash free, so that the last, partly filled block fits.
* **Memory.** In `EmacRx`, `Streamer` and `HttpSend` every allocation may fail: the heap is
  shared with lwIP and the other users. Nothing is assumed about how often.
* **The link** (`PhyLink`) may be lost at any time, may come back in another mode, and
  its control register may hold a code that stands for no mode until it does.
* **Integers** whose wrap matters have their width: the clock (`TimeMod`), sample ids
  (`IdMod`), the size field of a descriptor (`SizeMod`), the length of a pbuf (`LenMod`).
  The others are unbounded. The code's addresses and lengths are 32 bits wide and the user
  flash has 448 KiB, so no counter of an upload that fits comes near its bound.
  `file_length` may be negative in the model (a stale tag), as it may in the code.
* **`MaxLag`** bounds the ticks between two calls of `sys_check_timeouts`. The longest thing
  the loop waits for is a sector erase or a delay, seconds at most; `TimeoutsAssumption` only
  needs that an interval and twice this lag stay within half the range of the clock, 24 days.


## 4. Runs

The loader runs use two connection addresses, a user flash of three blocks of
three units in two sectors (so that one block starts a sector and its erase, one ends in
the middle), a preamble of two units and a trailer of one.

| run | checks | instance and what it shows |
|---|---|---|
| `upload` | `TypeOK BootComplete NoDoubleProgram StreamIntact ImplementsUpdate` | no faults; files of 3 and 4 units (ending at and inside a block), all segmentations up to 4 units, 3 connections, 2 power-ups: the loader implements `FirmwareUpdate` |
| `upload_iap` | `NoHoles NothingAbove ConnectionEnds` | faults `iap disturb chain tag`; a file of 4 units, 2 connections, one power-up: whichever calls fail and whichever uploads are abandoned or taken over, the flash is written up to `StoredEnd` and erased from there on, and no connection lives forever. `StoredEnd` is `flash_pos`, and once a block was lost behind `flash_buf` the address of the block that could not be programmed |
| `upload_live` | `UploadBoots` | no faults: an upload whose client keeps sending ends in the jump |
| `emac_tx` | `TypeOK InOrder KeptUnlessCrowded OutputReturns AllFreed` | ring of four descriptors as in the code, frames of one to three pbufs, five frames: more than two rounds of the ring |
| `emac_rx` | `TypeOK OwnedOnce DmaInRing InOrder BuffersWhole CrashOnlyEmpty RingDrains` | ring of three descriptors, a heap with one pbuf more than that, four fills: bad frames, failing allocations, overruns at any time |
| `streamer` | `TypeOK LinkAgrees Accounted BufferFits TickPending FlapReported LinkSettles PacketsFlow` | packets of two samples, a buffer for three, ids modulo 4, two modes: the state space has no other bound |
| `http_send` | `HttpTypeOK InOrderOnce ClosedComplete ConnectionEnds` | headers of 3, 1 and 2 units, a page of 9, a send buffer of 5, segments of 2, four polls, three pbufs from the client |
| `timeouts` | `TimesTypeOK ListSorted OneTimeoutEach NoBurst DelayHonest PollsSpaced PollsGoOn` | one connection, the TCP timer every tick and a cyclic timer every other, a clock modulo 32, up to 5 ticks of lateness, delays of 2 |

*Why the bounds are enough.* `MaxSeg` is larger than a block in `upload`, so a segment may
fill more than one; two files whose length differs by one reach the end of a file on each
side of a block boundary; three connections on two addresses allow one to upload, one to
interfere and one to reuse an address; two power-ups give a crash and a restart.
`upload_iap` has fewer of each, since IAP outcomes multiply the states, and no symmetry, since it
also checks liveness; two connections are enough for an upload and the one that takes it over.
Five transmitted frames of up to three pbufs fill fifteen descriptors of a ring of four. Four
fills go round the receive ring of three, and a heap of four is exhausted by a full ring
and a frame in the driver's hand. In `streamer` ids wrap after two packets, and the buffer
overflows after two failed allocations. In `http_send` the send buffer is larger than a
header string and smaller than the page, and two segments are smaller than the buffer, so
that each of the three limits cuts some part, and a part of 4 units may be halved. In `timeouts` the clock wraps freely and the lag exceeds two periods of the slowest timer.
Most of the safety properties are also proved without bounds (section 6).

*Deadlock* is not checked. `MaxBoots`, `MaxAccepts`, `MaxFrames`, `MaxFills` and
`MaxRequests` end behaviours; in the loader the power may also fail in every state, and in the
streamer the timer always ticks, so absence of deadlock would say nothing. The properties
that a standstill would violate are stated as liveness.

*Symmetry* (exchange of connection addresses) is used in `upload`, which checks safety and the
refinement, in which no property names an address; it is not used for liveness.

*Conditions in properties.* Some properties except a case, which is then what the code
really does: `InOrder` and `BuffersWhole` of `EmacRx` a ring whose setup found too little memory
(`starved`) or a pbuf that was put back (`requeued`); `DmaInRing` a ring of which more than one
descriptor has no pbuf (`Supplied`): the DMA engine keeps one descriptor back, so it may then
store a frame in a pbuf that was freed; `InOrderOnce` and `ClosedComplete` a request that comes
while a 404 is being sent (`again`): `http_recv` holds requests back only while a file is open, so the
header strings begin anew; `BufferFits` says how many failed allocations it takes
(in a row) before `send_buffer` overflows. `NoHoles` and `NothingAbove` speak of `StoredEnd` since
`flash_pos` runs ahead of the flash after the overrun that `iap_fails` shows.

### Runs that find a disagreement

Each of these checks one property that a comment or interface of the repository states
and that the code violates.

| run | property | what happens |
|---|---|---|
| `chained` | `EveryPbufTaken` | only the first pbuf of a chain reaches the state machine, the length of all is counted |
| `retry` | `DoneAfterAllBytes` | the second upload after an abandoned one inherits its counters, and is declared done before its file was sent |
| `iap_fails` | `FlashBufBounded` | after a failed IAP call `byte_ctr` stays at `FLASH_BUF_SIZE`; the next block is copied behind `flash_buf`, and reported as written: `flash_pos` moves on and leaves a hole, and the device may even jump to that image |
| `rx_shrink` | `WholeFrames` | a pbuf that goes back to the receive ring for want of memory goes back with the length of the frame it held; a longer frame is split over two descriptors, and each part given to lwIP as a frame |

Four more disagreements are visible in the models and stated here only:

* The jump comes from `httpd_post_finished` (`post_example.c:159-179`), before any
  response is sent and before the close that `post_example.c:141` announces.
* `http_err` (`httpd.c:1909`) frees a connection without calling `httpd_post_finished`, which
  `httpd.h:213` promises; `current_connection` dangles until another upload replaces it.
* The comment at `httpd.c:110-112` gives an idle connection `4*500ms = 2s`. A poll comes every
  `HTTPD_POLL_INTERVAL` (4) slow ticks of 500 ms, so four polls take 8 seconds, as the comment of
  `http_poll` says (`httpd.c:1939`). That the last portion of a file has 2 seconds (`httpd.c:1940`)
  is nowhere in the code: the connection is closed when TCP has taken it.
* Frames queued between two reclaims may wrap the transmit ring past `lpc_last_tx_idx`
  (`lpc17xx_40xx_emac.c:484-509`); a pbuf is then freed before it was sent. `KeptUnlessCrowded` and
  `AllFreed` state the condition under which this cannot happen: every frame finds room
  in the ring without waiting for descriptors to be reclaimed.


## 5. Fairness

* `Bootloader`. `WF(Handler)`: the main loop runs a callback to its end; nothing in it waits.
  `WF(http_poll(c))`: lwIP's slow timer polls each connection, which `PollsGoOn` of
  `Timeouts` shows. `http_close_conn` is modelled as succeeding: when `tcp_close` has no
  memory the code registers the poll again and the next one tries again, which `HttpSend`
  models. `WF(Receive(c))`, in `upload_live` only: the client sends what it still
  has to send. The property is about such clients.
* `HttpSend`. `WF(HttpPoll)` as above; it implies that `tcp_close` does not fail forever.
  `WF(HttpSendData)`: a call of it returns. The client need not do anything.
* `EmacTx`. The DMA engine keeps sending (weak fairness), a call of
  `lpc_low_level_output` runs on (weak), and the main loop reclaims. The last is *strong*
  fairness: an output may begin before every reclaim, so `Reclaim` is not enabled
  continuously, but every turn of the main loop calls `lpc_tx_reclaim`.
* `EmacRx`. `WF(Driver)`: every turn calls `lpc_enetif_input`, which runs to its end.
  Nothing is assumed of the DMA engine. `RingDrains` is about the time when overruns have ended:
  an overrun empties the ring by freeing it.
* `Streamer`. The processor runs the loop, the timer ticks, a read on the MII bus
  ends (all weak). Nothing in the code bounds the time of a sample, so ticks may keep the loop
  inside `while (freq_flag)`; the three liveness properties have the premise `LoopTurns`, that
  it gets out again and again. `LinkSettles` is about a link that stays, `PacketsFlow` about one that
  stays up while there is memory.
* `Timeouts`. `sys_timeouts_init` runs to its end (weak fairness). The interrupt ticks, and the loop comes round to `sys_check_timeouts` (strong
  fairness for both: the first is disabled while the loop is late by `MaxLag`, the second while a delay
  or a handler runs); delays, checks and handlers end (weak).


## 6. Proofs

All theorems hold for every value of the constants that the named assumptions
(`FlashAssumption`, `CellAssumption`, `UploadAssumption`, `LoaderAssumption`,
`TxAssumption`, `RxAssumption`, `PhyAssumption`, `StreamAssumption`, `HttpAssumption`,
`TimeoutsAssumption`) admit: any flash, block, segment and file size, any number of
connections and power-ups, any rings and heap, any packet, buffer and page.

| theorem | statement |
|---|---|
| `Bootloader_proofs!TypeCorrect` | `Spec => []TypeOK`, under every fault |
| `Bootloader_proofs!NoHolesBelow` | `Spec => []NoHoles`, under every fault |
| `Bootloader_proofs!NothingIsAbove` | `Spec => []NothingAbove`, under every fault but `erase` |
| `BootComplete_proofs!BootIsComplete` | `Faults = {} => (Spec => []BootComplete)` |
| `BootComplete_proofs!StreamIsIntact` | `Faults = {} => (Spec => []StreamIntact)` |
| `BootComplete_proofs!NoByteTwice` | `Faults = {} => (Spec => []NoDoubleProgram)` |
| `BootComplete_proofs!DoneMeansSent`, `NoOverrun` | `Faults = {} => (Spec => []DoneAfterAllBytes)`, `[]FlashBufBounded` |
| `Update_proofs!ImplementsFirmwareUpdate` | `Faults = {} => (Spec => ImplementsUpdate)`, the refinement |
| `EmacTx_proofs!TypeCorrect`, `SentInOrder`, `PbufsAreKept` | `Spec => []TypeOK`, `[]InOrder`, `[]KeptUnlessCrowded` |
| `EmacRx_proofs!TypeCorrect`, `PbufsOwnedOnce`, `NullOnlyWithoutMemory`, `DmaStaysInRing` | `Spec => []TypeOK`, `[]OwnedOnce`, `[]CrashOnlyEmpty`, `[]DmaInRing` |
| `EmacRx_proofs!FramesInOrder`, `FramesAreWhole` | `Spec => []InOrder`, `[]BuffersWhole` |
| `Streamer_proofs!TypeCorrect`, `LinkIsKnown`, `BufferIsSafe`, `SamplesAccounted`, `TickIsPending` | `Spec => []TypeOK`, `[]LinkAgrees`, `[]BufferFits`, `[]Accounted`, `[]TickPending` |
| `HttpSend_proofs!TypeCorrect`, `AnswerInOrder`, `ClosesWhenDone` | `HttpSpec => []HttpTypeOK`, `[]InOrderOnce`, `[]ClosedComplete` |
| `Timeouts_proofs!TypeCorrect`, `OneEach`, `ListIsSorted`, `NoBursts`, `DelayIsHonest` | `TimesSpec => []TimesTypeOK`, `[]OneTimeoutEach`, `[]ListSorted`, `[]NoBurst`, `[]DelayHonest` |
| `Timeouts_proofs!PollsAreSpaced` | `TimesSpec => PollsSpaced`, an action property |

**Types** of the loader need that `rx.next < rx.end` in the loop, or a pass could take
nothing or a negative count.

**No holes** is inductive together with `DataFilled`: a block that waits in `flash_buf` belongs
at `flash_pos`, and without one `flash_address` is 0, so that a successful `write_flash` writes
at `flash_pos` and nowhere else; and what `dataArr` holds below `flash_cnt` is not
blank. Once a block was lost behind `flash_buf`, `byte_ctr` never comes back to `BlockSize`:
nothing is programmed any more and `flash_address` stays, so `StoredEnd` does (`LostBlock`), while
`flash_pos` moves. **Nothing above** follows from the same invariant; the step that needs care is
the sector erase, which may only blank cells from `flash_pos` on.

**Complete images.** `BootComplete` speaks of the moment of the jump; its
invariant has to follow the upload from the first byte. `IndInv` is the conjunction of

* `NothingPending`: without IAP faults `flash_buf` is empty between calls;
* `OffInv`: a reset restores the initial RAM;
* `DownInv`, `OwnerInv`: a freed address expects no data, and for the connection
  whose body is being received the counters of `httpd.c` and of `post_example.c` agree;
* `RxInv`: the pbuf being processed is the next part of that connection's body;
* `Position`: `flash_pos` and `flash_cnt` together account for every file byte taken;
* `Progress`: from the first file byte on, the upload has an owner that goes on to the
  end, which comes exactly when `curlen` reaches `file_length`;
* `Stored`: flash and `dataArr` hold the beginning of the file, the rest is blank.

`Position` and `Stored` carry the data; the others exist because data is attributed to
the owner of the upload, and the proof has to know that no close, reset, poll, second
POST or reused address exchanges that owner in the middle. Every action of
`Next` has its lemma, split by the conjuncts it can disturb. **No cell twice** adds
`NoMixed` (no cell of the flash or of `dataArr` is `Mixed`): by `Stored`, and by
`NothingAbove` before the first block, a block always meets blank cells, whether or not its
sector is erased first. `DoneMeansSent` and `NoOverrun` follow from `IndInv` too. They are the
other side of the runs `retry` and `iap_fails`: what those runs refute needs an upload that is
disturbed, or a call that fails.

**The refinement.** Every step of `Bootloader` is a step of `FirmwareUpdate` or a stutter. The
mapped `stored` is read off the flash, by two `CHOOSE`s: the longest prefix of each upload
(`StoredPrefix`) and the upload that has the most (`MostStored`). Both exist for every content of the flash: a
prefix ends at the first cell that differs (a least number, from the library's
theorem on well-founded relations), and, as no two uploads share a byte, the first cell
belongs to one upload at most, so that all others have nothing stored. `StoredInv` then says what
`MostStored` is in the loader: `flash_pos - UserStart` until the update is done, and then between
`curlen` and the end of the last block. It follows from `Position`, `Stored` and `NothingAbove`, with
`IdInv` (a living connection has a number among those accepted, and only a jump leaves an
image). A pass of the loop therefore stores a block or nothing, the tail stores
`1 .. BlockSize` units or nothing, the jump hands over no more than `curlen` units, and every
handler of the web server stutters.

**The transmit ring.** `OrderInv` counts: `put - sent` is the distance from `consume` to
`produce`, and the descriptors between them are numbered consecutively; the driver fills
only as many as it has waited for. `KeptInv` holds as long as the ring is not `crowded`:
the three indexes lie in the order last, consume, produce, and the pbuf of a frame
hangs on the last descriptor of that frame, so that a reclaim up to `consume` frees only
frames of which every descriptor was sent.

**The receive ring.** `RingInv` says that the descriptors with a pbuf are an arc of the ring: it
begins where the driver takes the next one out, has `N - free` descriptors and ends at
`rx_fill_desc_index`. The lemmas `ArcRemove` and `ArcAdd` move its two ends; everything that
the driver does to the ring is one of them, or both. `OwnedOnce` and `CrashOnlyEmpty` are
inductive with it and with `HandInv` (when there is a frame in the driver's hand). The DMA
engine stays inside the arc when at most one descriptor lies outside. For the order of frames,
`OrderInv` numbers what the arc holds: fills ascend along the received part of it, all are later
than `last`, and the frame in the hand lies between. `SupplyInv` keeps the arc long enough, and
`WholeInv` keeps every size at its maximum as long as no pbuf was put back, so that no frame is split.

**The streamer.** `LinkAgrees` is inductive with `BusInv` (which register the MII bus was
asked for). `BufferInv` counts: without a failed allocation the buffer is shorter than a packet,
and each failure adds one sample. `Accounted` follows by arithmetic modulo `IdMod`, for which there
are four lemmas: a lost packet and the samples that were cut off advance `missing` by as many
ids, whether or not the packets around it arrive.

**The web server.** `SentInv` says that what TCP was given is as long as `hdr_index`, `hdr_pos` and
`left` say (`Given`), and consists of the numbers from 1 on; `TakenBound` that TCP never takes more
than it was offered. `CallInv` relates the answer begun, the open file and the polls.

**The clock and the timeouts.** A time is seen from the present: `Signed(s, t)` tells how far `t` lies
ahead of `s`. `TIME_LESS_THAN` orders times as these numbers are ordered only while they lie within half the
clock's range of each other, so sortedness is not inductive alone. `Window` gives the range: no timeout
is further ahead than its period, nor further behind than the loop may be late, before the
present call of `sys_check_timeouts` and in it. This is where `TimeoutsAssumption` (an interval and
twice `MaxLag` within half the range) is used. The lemmas on `Added` say what `sys_timeout_abs` makes of a
list: its elements are the old ones and the new one, and it keeps the order. `OneInv` states
`OneTimeoutEach` about the set of elements, which does not depend on positions. `CallInv` follows a
call of `sys_check_timeouts`: a timer that has run is due again no sooner than the start of the
call, after a second time later than that, hence `NoBurst`. `PollInv` relates a connection's age to the
slow ticks it has counted and to when the TCP timer is due next (`Enough`): at that time the connection will be
old enough for the tick.

**Delays.** `DelayInv`: what is left of a delay is the difference of its end and the clock, or the
end has wrapped and lies behind the clock from the start.

**Ticks.** `TickPending` is inductive as it stands.


## 7. Model-checked only

* The liveness properties `ConnectionEnds` (twice), `UploadBoots`, `OutputReturns`, `AllFreed`,
  `RingDrains`, `FlapReported`, `LinkSettles`, `PacketsFlow`, `PollsGoOn`: liveness under
  fairness is outside what the installed prover handles.
* The disagreements of section 4: each is a counterexample of a small instance.


## 8. Not modelled

* **lwIP** but for its timeouts, the TCP timer and the polls: third-party; seen from outside as
  calling one callback at a time, taking a part of what it is offered, and running out
  of memory. `sys_untimeout` is called only by modules that are compiled out.
* **LPCOpen chip and board library**: register access, third-party. The operations on
  the Ethernet rings and on the MII bus are modelled with the driver. `user_code_present` and
  `compare_mem` of the loader are never called.
* **Ring buffers** (`ringbuffer.c` of the streamer, `ring_buffer.c` of the chip library),
  **`tickloop.c`** and the **EEPROM driver**: the running programs do not use them. The streamer
  initialises its ring buffer, and every put and get is commented out; the loader reads one EEPROM
  page and ignores it.
* **State HEADER on a body that itself begins with `POST /upload`**, and the flags
  `close` and `valid_connection` of `post_example.c`.
* **What the program does after `send_buffer` overflowed or a NULL pbuf was used**, and after a
  second block went behind `flash_buf` or a callback that overran it returned to lwIP: the
  states `"overflow"`, `"crash"` and `"corrupt"` are final (but for the power). The linker map tells
  which variables lie behind a buffer; what they are overwritten with depends on the image.
* **The streamer's UDP command port**: it answers with a text and keeps no state. **The ADC**: samples
  are imitated in the code.
* **Text**: pages, headers, file names, the parsing of requests but for its outcomes; SSI, CGI
  and manual windows of `httpd.c` are compiled out. HTTP/0.9 is compiled in
  (`LWIP_HTTPD_SUPPORT_V09`, `httpd.c:150`, is not overridden): such a request gets the page from
  behind its header on (`httpd.c:1866-1877`), an answer like that to any other request, only shorter,
  and is not told apart. The page is in the ROM file
  system; all other names miss.
* **Start-up code and `Debug/`**: generated.


## 9. Plan

All parts of the two programs that keep state of their own and run are modelled, and every safety
and action property of the passing runs is proved. What may follow:

1. **An abstract specification of the Ethernet rings** (two queues, of frames to send and of
   frames received) which `EmacTx` and `EmacRx` implement; `OrderInv` of each contains the
   mapping's invariant.
2. **An abstract specification of the clients' view of the web server** (an answer that grows and is then
   closed), which `HttpSend` implements.
