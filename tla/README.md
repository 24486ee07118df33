# Verification of fpga_pcie_usplus

TLA+ models, TLC runs and TLAPS proofs for the PCIe DMA endpoint and its Linux
driver: an FPGA card (`rtl/`) that moves data to and from host memory under
control of registers in its BAR, and a driver (`fpga_driver/linux/fpdev_driver/`)
that writes those registers from ioctls, sleeps until an MSI, and copies the
data to or from the user. Paths below are relative to the repository.

## 1. The system

Two build-time choices decide which engines exist (`rtl/fpga_core.v:966-1353`):
`DMA_MODE` is `Block_DMA` (one contiguous buffer, start-register driven) or
`Scatter_Gather` (a list of host pages), and the card side is AXI4-Stream or
memory-mapped AXI.

| Component | Files | State | Operations | Talks to |
|---|---|---|---|---|
| Block-DMA driver path | `block_dma.c` | one bounce buffer, wait queue and completion flag per direction | `block_c2h`, `block_h2c` | BAR registers (write_reg/read_reg), MSI handler (flag, wake_up), user memory |
| MSI handler, ioctl dispatch | `fpdev_mod.c` | the completion flags | `fpga_irq_handler`, `process_irq`, `fpga_ioctl` | BAR status registers, wait queues |
| Device lifecycle | `fpdev_mod.c` | `fpga_devices[]`, `used_fpgas[]`, BAR maps, vectors, buffers | `fpga_probe`, `fpga_remove` | PCI core |
| SG-DMA driver path | `sgdma.c` | pinned pages, list buffer, flags and queues of the two SG directions | `sg_c2h`, `sg_h2c`, `get_sg_list`, `free_sg_buf` | SG registers, MSI handler |
| BAR registers | `pcie_bar_register.v` | slv_reg0..., start pulses, sticky status registers | AXI4-Lite read and write, status latch | driver, engines |
| Completion counters | `dma_tx_wr_irq.v`, `dma_rx_rd_irq.v` | idle/busy, length, bytes seen | start edge, count, completion pulse | RQ and RC streams, BAR status, interrupt queue |
| Interrupt queue and MSI | `dma_intr_queue.v`, `pcie_us_msi.v`, `arbiter.v` | request latch, active vector | edge, grant, sent / fail | hard IP |
| H2C read engine | `dma_if_pcie_axis_rd_v1.v` | MRd FSM, tag FIFO, one data FIFO per tag, output FSM | start, request, completion, output beat | RQ, RC, user stream |
| C2H write engine | `dma_if_pcie_axis_wr_v1.v` | MWr FSM, output FIFO | start, packet, beat | user stream, RQ |
| SG list engines | `sgdma_if_pcie_axis_{rd,wr}.v`, `sgdma_if_pcie_ctrl.v` | list FIFO, entry walk, status | list fetch, entry transfer, completion routing | read and write engines, BAR |
| TLP plumbing | `pcie_tlp_*.v`, `pcie_c[cq]_if.v`, `pcie_axil_*.v` | FIFOs, arbitration, one register access at a time | route, store, convert | hard IP, BAR registers |
| FIFOs | `gen_native_fifo.v`, `xpm_sync_fifo.v`, `axis_dma_channel_fifo.v` | pointers, memory | push, pop | everything |

Hard behaviours, and what correct means for each part:

- **Driver, handler and device interleave without a lock.** Correct: no thread
  sleeps through its wake-up, no completion is lost between the engine and the
  flag, a call that succeeds moved its own data, every call returns.
- **A call gives up (timeout, signal) while the engine goes on.** Correct: the
  late completion is nobody's.
- **Completions return out of order by tag, and the output may stall.** Correct:
  the stream out is the data asked for, once, in order; no tag is reused while
  it is outstanding; a request is issued for every part of the transfer.
- **Pulses.** Start, completion, MSI sent are one-cycle events observed by
  state machines that may be busy. Correct: none is lost.
- **Ten-bit counters, ceil divisions, last beats.** Correct: the parts add up to
  the transfer.
- **Probe fails half way, remove races a call.** Correct: what was acquired is
  released once, and nothing used after.
- **A list of pages has many ways to fail and a buffer of fixed size.** Correct:
  every return puts back what was taken, the entries name the user's bytes and
  no others, and they fit.

## 2. Plan

The modules in the order of their writing; each names its abstract
specification or what it is composed with.

1. `BlockDma`: driver threads, handler, registers, engine, MSI; the core
   protocol. Proofs in `BlockDmaProofs`.
2. `ReadEngine`: reads, tags, per-tag FIFOs, output; implements the in-order
   transfer of `OrderedStream`. Proofs in `ReadEngineProofs`.
3. `SgDma`: the two-phase list handshake of `sg_c2h` and `sg_h2c` with the list
   engines, the completion router and the counters. First proofs in
   `SgDmaProofs`.
4. `Msi`: counters, interrupt queue, MSI block, arbiter and handler; implements
   `Doorbell`, the interrupt that 1 and 3 rely on. Proofs in `MsiProofs`.
5. `Lifecycle`: probe, its error labels, remove, ids, handler; implements
   `IdTable`.
6. `SgList`: how a user buffer becomes the list that 3 hands to the card.
7. `WriteEngine`: packets, output FIFO and user stream of the C2H engine, started
   by the entry walk of the list engine; implements `OrderedStream`.

Proofs of 3, 5, 6 and 7 beyond the types are in `SgDmaOwnership`,
`LifecycleProofs`, `SgListProofs` and `WriteEngineProofs`.

Left in the plan, the most useful first: the byte counters (`dma_rx_rd_irq.v`,
ten-bit lengths) and the split of a read into requests by byte, as operators
against a reference definition; the arbitration between ports (`pcie_tlp_mux.v`);
an AXI-Lite master with the BAR registers.

## 3. What is modelled

### BlockDma

The path of one block transfer from ioctl to ioctl. A call is named by thread
and serial number, and every place that can hold a value of a call (the SDRAM
address register, the length register, the running engine, the bounce buffer,
the user buffer) holds the name of the call it came from: overlap and staleness
show as names that differ.

| Model | Code |
|---|---|
| `Enter`, `CopyIn` | `fpga_ioctl` 318-360; `block_h2c` 192-203 |
| `WriteSdram`, `WriteLength`, `Start` | the `write_reg` calls, `block_dma.c` 105-127, 219-230 |
| `WaitTest`, `WaitEnds`, `GiveUp` | `wait_event_interruptible_timeout` and its two early returns |
| `Check`, `ReadStatus`, `ClearStatus`, `AckFlag`, `CopyOut` | `block_dma.c` 152-178, 253-270 |
| `EngineOnStart` | start pulse, and an engine that takes it only when idle |
| `Complete`, `LatchStatus` | completion pulse, sticky status (taken when 0), OR into the MSI |
| `CompleteDuringClear` | the same in the cycle of the driver's clear, which has priority |
| `IsrEnter`, `IsrRead`, `IsrStore`, `IsrWake` | `fpga_irq_handler`, `process_irq`, access by access |

Assumptions: a register access is one atomic step at the device (a posted write
is not delayed past the read that follows it); the data of a transfer moves in
the step that completes it; the transfer FSM and its completion counter are one
idle/busy engine; the host DMA address is constant per device and is left out;
the SG status registers are 0 in a Block_DMA build, so the handler's SG reads,
stores and wakes are left out; an MSI is a count of
handler runs that are due, and a completion makes it one more or is covered by one
that is due already (`RaiseMsi`), which is what `Msi` is shown to do; Linux never runs
one interrupt's handler twice at once. `STREAM_DMA` builds add mapping calls around the
same steps; the one that is tested for failure, that of `block_h2c`, is in `CopyIn`.

The history variable `clean[c]` says that calls on direction `c` have never
overlapped and none has given up. Three properties hold only under it. A call
that gave up leaves the engine running, so that the next one meets its completion
(`block_dma_stale` shows it); two calls at once overwrite each other's registers
and buffer, and nothing in the code keeps them apart.

Properties: `NoLostWakeup` (no proviso), `CompletionReported`, `Ownership` (the
inductive invariant), `SuccessIsOwn`, `EveryCallReturns`; and what the
code breaks, below. Where calls of one direction overlap only `NoLostWakeup` speaks;
where one gave up, that and `block_dma_stale`. That a `copy_to_user` fault is logged and the full size
returned is modelled (`CopyOut`) and left at that.

Runs. `block_dma` has one thread per direction with two calls each: a give-up
followed by a call that meets the stale state needs two calls on one direction,
and two directions are all there are. It checks liveness too, under weak
fairness of each runnable thread and of the handler (the kernel schedules them)
and of the engine (it finishes what it started), and without any fairness of the
timer. That of the engine is needed: with a stale flag and a status register that
reads 0 the wait at `block_dma.c:131` returns at once and spends none of its
timeout, so that only a completion ends it. Callers that share a direction are
covered by the theorems, which hold for any set of threads. Calls are bounded by
`MaxCalls`, so the system may stop when every call has been made: deadlock is not
checked.

### ReadEngine

`dma_if_pcie_axis_rd_v1.v` clock by clock: one step of the model is one rising
edge, in which every always block moves together from the registers as they
were. Its four inputs are the arguments of `Clock`: a start pulse with a length,
the ready of the request bus, the tag of a completion word, the ready of the
user. Data are words named by transfer and index, so reordering, loss and
duplication show.

| Model | Code |
|---|---|
| `Idle`, `Issue`, `Offer`, `Prepare` | request machine, 267-445: idle, accepted, put on the bus, neither |
| `AllocateTag` | `op_tag_fifo` write side, `op_tag_fifo_wr_tag`, `tag_table_info`, 436-469 |
| `ReleaseTag` | `op_tag_fifo_rd`, `op_tag_fifo_rdptr`, 472-488 |
| `Receive`, `TagFifos` | completion machine 542-643 and the FIFO of each tag |
| `Drain`, `OutputFifo` | output machine 665-729, output FIFO and register 731-778 |
| `Environment` | the host (any order of tags, in order within a tag) and the user |

`OrderedStream` is what the engine promises: `Ask` adds the words of a transfer,
`Deliver` hands over the next one. `InOrder` says the engine implements it, with
the words taken by the user as the words delivered.

Assumptions: the bus is 512 bits and the read size 512 bytes, addresses are
aligned to words and completions come in whole words, so lengths count words;
a word written to an XPM FIFO can be read in the next cycle, and its count and
full flag are exact; a start is a pulse of one cycle, is never of length 0 (the
request machine would then issue reads without end: `block_h2c` refuses it) and
comes after the previous transfer has left the engine. The list fetch of the SG
engine waits for the last word; in `Block_DMA` the driver is told when the words
have arrived, so a start can overtake a stalled user: a hazard no property
covers yet. `tkeep` and the engine's own completion pulse, which `fpga_core.v`
does not connect, are left out.

Runs. `read_engine` has reads of two words, four tags and transfers of 1, 3 and
9 words: less than a read, a short last read, and five reads, so that a tag has
to come round again; two transfers, so that the second meets the tags and
pointers the first left; an output FIFO of four words that fills as soon as the
user stalls. Its fairness: a host answers every
read it has (`Environment` gives the word of that tag), and the user is ready
again and again; the clock, which is part of both, always ticks.
`read_engine_stall` lets the request bus be busy.

### SgDma

The scatter-gather path end to end, one caller per direction. A call and its
pages are named, page 0 being the list itself; a list or a page is one bus word,
which stands for the completion (or, for C2H, the write) that ends it. The list
buffer, the registers, the FIFO entries and the reads on the wire all hold names.

| Model | Code |
|---|---|
| `Enter`, `Pin`, `Free` | `fpga_ioctl` 370-410; `get_sg_list`; `free_sg_buf` |
| `WriteList`, `StartList`, `WriteLength` | the first `write_reg` calls, `sgdma.c` 491-498, 587-594 |
| `WaitTest`, `WaitEnds`, `GiveUp`, `Check`, `ReadStatus` | the wait loop and its two early returns |
| `AckList`, `ClearList`, `StartMove` | status 1: flag, register, START=2 |
| `AckDone`, `Free`, `ClearDone` | status 2; `sg_c2h` clears the register first, `sg_h2c` last |
| `StartTaken`, `WritePage`, `AskPage`, `Drain` | the state machines of `sgdma_if_pcie_axis_{wr,rd}.v` |
| `Takers`, `Receive`, `ListIn` | the router `sgdma_if_pcie_ctrl.v` 144-158 and what each engine does with a word |
| `Counted`, `LastWord`, `Report` | the two completion counters, the sticky status registers, the OR into the MSI |
| `IsrEnter`, `IsrRead`, `IsrStore`, `IsrWake` | the SG half of `fpga_irq_handler` and `process_irq` |

Assumptions: the 512-bit build; one caller per direction (two callers overlap as
in `BlockDma`, and nothing in `sgdma.c` is there to stop them); the block status
registers are 0 in a Scatter_Gather build; completions are below 1024 bytes (see
the hazards); a request that the bus multiplexer withdraws is `read_engine_stall`
and is not repeated here; a C2H engine is idle again before its caller can
start it anew, since the two cycles of `SGDMA_WREND` are shorter than an
interrupt; the SDRAM address registers are written with the length and read with
it, so they are left out; a pulse in the cycle of a status clear is lost, as is
one just before it, when the register is not 0 yet. `get_sg_list` returning NULL
is used at once by both callers: the fault ends the calling thread, and the model
lets another one call.

Properties. `NoLostWakeup`, `PinsBalance` and `ListWaitsForStart` have no proviso.
`StatusReported`, `PinnedWhileInUse`, `SuccessIsOwn` and `Ownership` speak of a
direction on which no call has given up and, card-wide, of executions in which no
completion went to the other port and none of the C2H list was counted as H2C
data. Each of the three is needed. After a give-up the register still says 1, and
the next call takes the report, and the list, of the old one for its own. The
router hands a completion to every engine that is receiving
(`sgdma_if_pcie_ctrl.v:144`), so with both directions in their list phase one
engine takes the other's list. `sg_dma_early` shows the third.
`StartedCallReturns` allows those exits too, and asks that START=1 was taken: an
H2C call is done when its bytes were counted, its engine when the card's user took
them, and a START=1 in between is not seen.

Run. `sg_dma` takes two bounds on the calls in one run: one call each way at the
same time, and three calls on one direction with none on the other, all of two
pages each, so that a list has a middle and an end and the engine a state between
two pages. Three are enough for a call after a call that gave up after a call that
gave up, and for an H2C call that finds the user behind. Liveness is checked with
fairness of the callers and the handler (the kernel schedules them), of the
engines, of the host's answers and of the card's user, and none of the timer. Two
calls on one direction beside a call on the other were run too (four million
states, no violation of the invariants) and are not kept. The callers may be done
or have died, so deadlock is not checked.

### Msi

From the end of a transfer to the handler's reads, clock by clock on the card and
access by access in the host.

| Model | Code |
|---|---|
| `Start`, `Count` | start registers, `pcie_bar_register.v` 1083-1119; idle/busy machine and pulse of `dma_rx_rd_irq.v` and `dma_tx_wr_irq.v` |
| `Clock` | the OR of `dma_intr_queue.v` and everything below in one edge |
| `Edge`, `Request`, `Clears`, `Wanted`, `Unmasked` | `pcie_us_msi.v` 114-157 |
| `Arbitrate` | `arbiter.v` with one port and block-until-acknowledge |
| `HardIp`, `Configure` | the hard IP's `sent` and `fail`; the host's enable and mask bit |
| `IsrEnter`, `IsrRead` | `fpga_irq_handler`: entered once at a time, reads each status register |

`Doorbell` is what the driver models assume: a completion makes one more handler
run due or is covered by a run that is due and has not started; a run reads every
register. `Rings` says that `Msi` implements it, the runs that are due being the
edge still to come, the latch and the message on its way. `Handshake` is the
protocol of request, grant and answer; `NoneForgotten` says where a completion
nobody has looked at still is; `EveryPulseRead` is the liveness of it.

Why a completion whose edge meets the `sent` of the one before (`pcie_us_msi.v:131`)
is not lost: the message that was just sent has not been handled, so its handler
reads the new completion too. This needs the assumption that the handler is entered
after the hard IP reported the message sent (its way to the processor and back takes
hundreds of cycles), and at most two lines that pulse independently
(`LineAssumption`): pulses of three lines in consecutive cycles make one long
level on the OR and could outlast the message. A Scatter_Gather build has four
lines, two per direction, and the two of a direction are stages of one call.

Run. `msi` has two lines, unbounded in time. Fairness: the clock ticks, a request
that is made again and again is answered by `sent` in the end (strong: it may fail
any number of times before), the kernel runs the handler; and `EveryPulseRead`
asks that the host leaves the vector enabled from some point on. The system never
stops, so deadlock is checked.

### Lifecycle

`fpga_probe` call by call, each with its failures; the error labels and
`fpga_remove` as lists of what they release in order; the interrupt handler in
between; and the driver's globals.

| Model | Code |
|---|---|
| `PciEnable` ... `SetDrvdata` | the calls of probe, `fpdev_mod.c` 704-1098, with the label each failure goes to and the variable its result is in |
| `Claim`, `EnterTable` | the search of a free id, `used_fpgas`, `fpga_devices`, 1096-1110 |
| `FailReleases`, `RemoveReleases` | the labels 1129-1207, the body of remove 1222-1303 |
| `ReleaseId`, `FreeIrq`, `ReleaseLocal`, `ReleaseChr`, `Return` | one release each; `free_irq` waits for a running handler |
| `IsrEnter`, `IsrReturn` | `fpga_irq_handler` from its registration to its release |

Assumptions: the PCI core runs probe and remove of one device one after the other
and those of two devices at the same time; `class_create` refuses a name that
exists; a device whose probe returned 0 counts as bound, whatever it holds;
`device_destroy` with an error pointer for a class faults, so that the remove of a
device whose class a refused probe overwrote gets no further; no interrupt comes on a
vector that was given back, so that a handler left registered by a failed probe is
forgotten when the device is probed again, and `HandlerSafe` is about handlers of the
present life only (`Released` is about what stays behind).

Properties: `Unwound` (each label releases what was acquired until then, but for
what `Released` shows), `HandlerSafe` (while probe has not failed the handler finds
what it uses), `EntriesLive`, `BoundIsListed`, and `TableImplemented`: the ids and
the table, which have no lock, implement the table of owned ids of `IdTable`. Two
probes never search the ids at once, and none takes an id that remove has freed before
its entry is cleared: the name of the class is taken all the while, and the properties
hold because of that. `Unwound` speaks of the character device only
when no other device was probed: numbers, cdev and class are one for all devices,
and a second probe overwrites them.

Run. `lifecycle` has two devices, two ids, and a device that comes back once. Two
are enough for one device's remove against the other's probe; a third probe
reuses an id that was given back. Nothing in this code waits, so there is no
liveness to check; devices may be bound for ever, so deadlock is not checked.

### SgList

`get_sg_list` and `free_sg_buf`, step by step, call after call over one list buffer
that keeps what was written to it.

| Model | Code |
|---|---|
| `Call`, `AllocMap`, `CountPages`, `TooManyPages`, `AllocPages` | `sgdma.c` 24-123 |
| `Pin`, `Unpin` | `get_user_pages` and its short results, 125-196 |
| `AllocSgl`, `CheckOffset`, `NotAligned`, `FillSgl` | the scatterlist, 198-283 |
| `Map`, `MapFails`, `WriteEntry` | `dma_map_sg`, which may merge neighbours (`Split`), and the entries of the list buffer, 285-372 |
| `FreeSgBuf` | `free_sg_buf` |

Assumptions: the pages of a buffer have neighbouring bus addresses, the case in
which everything can merge, and `dma_map_sg` merges as much or as little as it likes
up to the maximum segment size; a failed call of `get_sg_list` ends the caller (both
use the null pointer).

Properties: `NothingLeft` (every return puts back what was taken) and `ListCovers`
(what the card will read is the user's buffer, in order, on pinned pages).
`TypeOK` bounds the references of a page from below: none is put twice.

Run. `sg_list`: pages of 2 bytes, at most four pages, lists of up to three
entries that fit, segments of up to two pages, lengths up to 9 (past the limit),
a start on a page and off a page; two calls, so that a short list stands in front
of an old longer one.

### WriteEngine

`dma_if_pcie_axis_wr_v1.v` clock by clock, and what starts it: in a
`Scatter_Gather` build the walk over the entries of a list
(`sgdma_if_pcie_axis_wr.v`), in a `Block_DMA` build the driver.

| Model | Code |
|---|---|
| `Idle`, `Move` | request machine, 143-357: start edge, one word of the stream |
| `Sop`, `Eop`, `Field`, `OutWord` | packet boundaries and header, 203-223 (the other payload sizes repeat them) and 299-317 |
| `CountMoved`, `Done` | the count of bytes moved, 434-461 |
| `Gives` | ready as the user sees it, `sgdma_if_pcie_axis_wr.v:155` |
| `Output` | output FIFO and register, 400-431 |
| `Fetch`, `Await`, `Rest` | `SGDMA_WRMEM`, `SGDMA_WREND`, the other states |
| `Environment`, `Place` | the user, the request bus, the driver; where the host puts a word by its header |

Assumptions: 512-bit bus; lengths and addresses are whole words, and no transfer is of
length 0 (an all-zero entry starts none); the list is in the
list FIFO before the walk begins; a driver of a `Block_DMA` build starts a transfer
when the one before has been counted (after a give-up it may not: then `BlockDma`
says what the engine does with the start); byte enables, strobes, sequence numbers
and the user's `tlast`, which the engine ignores, are left out.

Properties. `WritesInOrder`: the words the host stores, each at the place its packet's
header gives it, implement `OrderedStream`, whose next transfer is asked for only
when the last was delivered; so it also says that the walk's count of words agrees
with the engine. `NothingLost`: the words on their way and stored are those the user
gave, in order, each once. In a `Block_DMA` build the engine's ready is the user's,
and stays up one cycle after the last word: a word offered then is taken and dropped
(`spilled`), and the property leaves those words out; the scatter-gather engine
takes ready back in time. `AllWritten`: transfers are written and the walk ends.

Run. `write_engine`: both builds, payloads of 128 and 256 bytes, two transfers of 1,
4 and 11 words with and without zero entries between them: less than a packet, an
exact one, several with a short last one and more than the output FIFO of four
words holds. Four is also the least that holds what comes after half full (two): with
three, `NothingLost` fails. A maximum payload of 1024 bytes is in the model and not in
the run: its length field is 0 for every full packet (`dma_if_pcie_axis_wr_v1.v:287`),
which PCIe reads as 4096 bytes, and `WritesInOrder` does not hold. The boards
offer 1024 (`example/*/ip/*.tcl:14`); the host picks the value. Fairness: the user has
words and the bus takes them again and again. The clock never stops, so deadlock
is checked.

### Divergences found

- `block_dma_stale` (`SuccessIsAlwaysOwn`): a call that gives up leaves the
  engine running and the status register set; the next call copies out the
  abandoned transfer's data as its own.
- `read_engine_stall` (`TagsCountUp`): a request stays on the bus for one cycle;
  if the bus is busy in it, the request is withdrawn, its tag stays allocated, and
  the request is offered again under the next tag. The testbench checks that
  tags count up without a gap, and drives a bus that is always ready.
- `sg_dma_early` (`DoneMeansRead`): the H2C byte counter counts the completions of
  the C2H list too, so an H2C call that overlaps a C2H call is done too early and
  frees pages that are still being read.
- `lifecycle_released` (`Released`): the comments of probe and remove say that
  everything probe allocated is released. A failure behind `request_irq` frees the
  vectors, the BAR maps and `fpdev`, and leaves the handler registered on it; the DMA
  buffers are freed by nothing. As most of these failures leave their result in `ret`
  and probe returns `error`, which is 0, the device counts as bound, without driver
  data, and its remove releases nothing.
- `sg_list_overflow` (`ListFits`): the tools give 512 pages as the limit of a call, as
  many as the list buffer has entries; the limit that is compared is 512 * 4096, and
  a longer list is written past the end of the buffer.

## 4. What is proved

`BlockDmaProofs` proves, for any set of threads, any use of the directions and
any number of calls: `TypeOK`, `NoLostWakeup`, `Ownership`, `SuccessIsOwn` and
`CompletionReported`. The assumptions are those named in `BlockDma` (the
constants have their types and `None` is not a call or a transfer).

- `NoLostWakeup` is inductive with `TypeOK`: only the store sets a flag, and the
  stages after it lead to the wake with the same value in hand.
- `SuccessIsOwn` is not inductive: it follows from `Ownership`, which says for
  every place of the call what the device must look like; the step lemma
  separates the direction of the acting thread from the other one.
- `CompletionReported` is inductive with `TypeOK` and `Ownership`: that a
  completion can be latched only when status was 0 comes from ownership.

`ReadEngineProofs` proves everything the run checks of `ReadEngine` but liveness, for
any number of tags, read size, depths and lengths, from the assumptions named there:
`TypeOK`, `OutFifoHasRoom`, `TagFifoHasRoom`, `TagExclusive`, `NothingDropped` and
the refinement `InOrder`.

- `ReadEngineTypes`: `TypeOK`, with one lemma per always block. It is inductive
  with `Margins`: a tag is written only into a FIFO that has room (the write is
  decided one cycle ahead of it), and the output machine runs only while words
  are left.
- `OutFifoNeverOverflows`: `OutFifoHasRoom`. The half-full flag is a cycle late
  and a word comes a cycle after its read enable, hence `Room`: at most half the
  FIFO while the flag is down, one word more while a read is enabled, two in all.
- For the others the words under a tag, in its FIFO, in the write register and at the
  host, are one queue (`Item`, `Size`). `TagFlows` says what a clock does to it: a word
  out, the words of a read in, the others in order, wherever each of them is.
- The tags in use are a stretch of the ring (`RingOK`, with `Pos` counted from the tag
  being emptied). A tag in use has the words its table entry says, less those taken
  from the one being emptied (`TagOK`), so the entry reserves room (`TagFifoHasRoom`)
  and a tag is released with its last word; the tag of the request on the bus has none
  (`MrdOK`, which gives `TagExclusive`).
- In ring order the words under the tags are the words asked for and not passed on,
  each once (`RangeOK`, `OrderOK`, `CoverOK`). Hence the first word of the tag being
  emptied is the one the user waits for (`FirstWord`), and two places never hold the
  same word (`OneWord`).
- A request that no tag took is offered again under the next one, and leaves a tag with
  no words in the ring. Nothing would ever release it if it were the last: `GapOK` says
  that it is not, once every read is accepted. (Such a tag in front of the ring holds
  the output up for good: `AllDelivered` is checked with a bus that is always ready.
  The theorems are safety and hold with `Stalls` too.)
- The completion machine counts words and not reads: `ReceiveOK` ties its counter to
  the number of words returned, which is the length only when every read was accepted
  and every word returned. So it is at rest only when nothing is owed
  (`NothingDropped`), and a start finds the whole engine at rest (`AtRest`).
- `InOrder` then maps a start to `Ask` and a word taken to `Deliver` (`StreamStep`);
  `AskedOK` knows the transfer's words at the end of the history, `StreamOK` that the
  words in the output FIFO are the next of them.

`SgDmaProofs` proves the four properties of `SgDma` that need no proviso, for
lists of any length and any bound on the calls: `TypeOK`, `NoLostWakeup`,
`PinsBalance` and `ListWaitsForStart`. The last is not inductive: completions
are broadcast, so a word meant for the other engine might move a waiting one on.
The proof adds that an engine that has its list has no read out, hence takes no
word (`AskedWhileBusy`), and that a report the caller has cleared cannot return
before START=2 (`ReportCleared`).

`MsiProofs` proves, for any set of lines `LineAssumption` allows: `TypeOK`,
`Handshake`, `NoneForgotten` and the refinement `Rings`.

- `Handshake` is inductive with `TypeOK`.
- `NoneForgotten` needs that pulses are spaced (`Spaced`): a line that pulsed is idle
  for a cycle, so that with two lines an or-ed level falls, and a new edge comes,
  before the message of the last one can be used up.
- `MsiImplementsDoorbell`: one lemma for the number of runs due before and after an
  edge of the clock, and the host's steps map one to one.

`SgDmaOwnership` proves the four properties of `SgDma` that speak of an
undisturbed direction: `Ownership`, `SuccessIsOwn`, `PinnedWhileInUse` and
`StatusReported`, for lists of any length and any bound on the calls.

- `Ownership` is not inductive. It holds with: the buffer and the register hold the
  list of the call that wrote them (`PlaceOK`); a START=1 not yet sent has not been
  served (`ServedOK`); until two engines have crossed, every read on the wire is the
  one its engine waits for (`WireOK`). The engine's walk is followed by the number of
  words counted (`MovingAt`): the entries left are the list without its first n.
- `SuccessIsOwn` and `PinnedWhileInUse` follow from it, the second with
  `PinsBalance`; `StatusReported` is inductive with it, as `CompletionReported` is in
  `BlockDma`.

`LifecycleProofs` proves everything the run checks of `Lifecycle`, for any set of
devices, any number of ids (at least one) and any bound on the probes: `TypeOK`,
`HandlerSafe`, `EntriesLive`, `BoundIsListed`, `Unwound` and the refinement
`TableImplemented`.

- What a device holds is known from where it is (`HoldsOK`): before a call of probe
  what the calls before it took, while unwinding what the rest of the label's
  sequence releases. The labels are the ends of one sequence, so the rest is known by
  its length.
- The ids and the table are written without a lock. What keeps them apart is the name
  of the class: `class_create` fails for a second device, so at most one device is
  past it (`ClassOK`), at most one has an id, and that id is 0 (`IdsOK`). The other ids
  are never used, whatever `NumFpgas` is; a driver that made its class once, in its
  module init, would lose this protection.
- `Unwound` speaks of the character device only when no other device was probed
  (`ChrOK`), as the property itself does.

`SgListProofs` proves everything the run checks of `SgList`, for any page size,
limits, addresses and lengths: `TypeOK`, `NothingLeft` and `ListCovers`.

- The invariant says at each place of the code what is allocated (`HeapOK`) and
  pinned (`PinOK`), how far the scatterlist is filled (`FillOK`, `FilledOK`), that the
  mapped segments name the buffer's bytes without a gap (`SegOK`), and that the list
  has them so far (`WrittenOK`).
- It needs the arithmetic of pages (a buffer of n bytes at a reaches so many pages)
  and what the recursive function `Bytes` computes. That is an induction over the
  naturals, done as a least counterexample (`Least`, `BytesIs`): the library's
  well-foundedness of < on the naturals has no operator parameter.

`WriteEngineProofs` proves, for any lists, any lengths and any FIFO two words deeper
than its half: `TypeOK`, `NothingLost`, and the refinement `WritesInOrder`, the last
for maximum payloads below 1024 bytes (with 1024 it does not hold, see above).

- The words in the engine, in the FIFO and the register behind it, are one queue
  (`Flight`). `FlyStep` says what a clock does to it: a word out, a word in, the
  others in order; nothing is dropped as `RoomOK` leaves two words of room while ready
  is up. The numbers of the words stored and in flight are then the user's (`WayOK`).
- For the refinement, every word asked for is not yet taken, in the engine, or out
  (`CountOK`); the x-th word of a transfer carries the boundaries and the header of
  its packet (`FlightOK`), by the arithmetic of packets (`PacketsFacts`, `OffFacts`);
  the host has the packet's address and length and has seen the words before
  (`PacketOK`); so it lands where it was asked for (`LandedOK`).
- A start finds everything out: for the driver by what it waits for, for the walk by
  its count of words (`WalkOK`), which is the part of the walk the engine relies on.

Only model-checked: liveness (the prover does not handle fairness) and the
violation runs. `AllWritten`, `AllDelivered`, `EveryCallReturns`,
`StartedCallReturns` and `EveryPulseRead` are such liveness properties. No module
that is proved about uses a recursive operator, and induction is needed only in
`SgListProofs`.

## 5. What is not modelled

- User library and tools: each function is one ioctl; the models take the ioctl as
  their input.
- The BAR register cases of `fpga_ioctl`, `open`, `release`, `mmap`: one access each,
  no state. That `fpga_ioctl` uses a device that remove may free meanwhile has no
  property: nothing in the code would make one hold.
- Byte arithmetic: completion bytes in ten bits, read lengths in double words, byte
  enables. The models count bus words. It is arithmetic over wide ranges with little
  state, better met by a unit test or by the operators named in the plan.
- FIFOs: the XPM primitive and `axis_dma_channel_fifo.v` are taken as bounded queues.
- TLP plumbing and AXI-Lite masters: between the driver and the registers they are
  taken as one atomic access, between the engines and the bus as one that may be busy
  in any cycle. The arbitration between ports is in the plan.
- The memory-mapped variants: the same registers and interrupts, with third-party AXI
  engines behind them (`axi_dma*.v`, `axi_ram.v`), instantiated unchanged like the
  `pcie_us_*` adapters.
- Top level, testbenches, boards and scripts: wiring, stimuli and vendor scripts.
