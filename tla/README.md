# TLA+ models of the LicheeRV Nano drivers and firmware

The repository builds a bootable system for the Sipeed LicheeRV Nano (SG2002):
FSBL, OpenSBI, U-Boot, a mainline Linux with patches, out-of-tree drivers and a
Makefile that ties them together.  Most of the tree is third-party firmware.
This project models the parts that carry concurrency of their own: the TPU driver
`soph_tpu` (`src/cvitek-tpu-vendor`), where user processes, a kernel thread, an
interrupt handler and suspend callbacks share one device; the core of the
AIC8800 Wi-Fi driver (`src/aic8800-vendor/aic8800_fdrv`): command manager,
receive reordering and the SDIO transmit and receive threads; and the remote
fences of OpenSBI (`src/opensbi/lib/sbi`).

Paths below are relative to the repository root.  `I` stands for
`src/cvitek-tpu-vendor/common/cvi_tpu_interface.c`, `P` for
`src/cvitek-tpu-vendor/hal/mars/tpu_platform.c`, `M` for
`src/cvitek-tpu-vendor/hal/mars/tpu_pmu.c`.  They are modelled as they are in
the tree, before `patches/cvitek-tpu-vendor/0001-...` adapts them to the kernel
API at build time; the patch replaces the way a dma-buf is mapped and leaves the
control flow that is modelled here.

## Inventory

| Part | State | Operations | What is hard | What makes it correct |
|---|---|---|---|---|
| TPU job queue (`I`) | `task_list`, `done_list`, two wait queues, `dev_lock`, nodes from vmalloc, dma-buf references, clock count | submit (dmabuf, TEE, PIO), wait (dmabuf, PIO), TEE load/unload, open, close, probe, remove; the work thread | check and insertion in two lock sections; nodes used after the lock is dropped; results matched by pid and number; wake-ups; early returns with a lock held | nothing freed in use, nothing lost or leaked, jobs in order, the right result to the right waiter, everybody returns |
| TPU HAL (`P`, `M`, parts of `I`) | TDMA, TIU and PMU registers, completion `tdma_done`, saved registers, `use_count`, `running_cnt` | run a dmabuf or PIO job, interrupt, reset, suspend, resume | late interrupts, timeouts, closing or suspending during a run | a job reported done is done; no register access without clocks; every run ends |
| TPU usage profiling (`I`) | counters, a timer | timer, `/proc` read and write | timer against writer; zero intervals | usage stays a percentage |
| TPU HAL for phobos | as mars | as mars | another chip, not built here | |
| AIC8800 command manager (`rwnx_cmds.c`, `rwnx_msg_tx.c`) | `cmds` list, `cmd_array` slots, flags of each command, state INITED/CRASHED, the one buffer `bus->cmd_buf` | send with and without confirmation, defer, work item, confirm, time out, drain | confirmation against timeout; deferred commands wait for the one before; one buffer without a lock; confirmation copied into a caller's stack | one command in flight, in order, each confirmed once, its caller still there |
| AIC8800 receive reordering (`rwnx_rx.c`) | per peer and TID: window start, sorted list, timer, work item; a pool of descriptors | receive, duplicate, late frame, timeout, flush, teardown | sequence numbers wrap; receive thread, timer and work item race | frames in order, none held for ever, no descriptor lost |
| AIC8800 SDIO transmit (`aicwf_sdio.c`, `aicwf_txrxif.c`) | queue by priority, counters, aggregate, credits of the firmware | queue a frame, announce a command, aggregate, flow control, stop | counters and `hi_prio` read without the lock; stale credits | nothing stranded, in order, firmware not overrun |
| AIC8800 SDIO receive (same files) | queue of blocks, `rx_cnt` | interrupt, thread, handlers of messages | count and wake-up outside the lock; handlers that send commands | no lost wake-up, commands answered |
| AIC8800 bring-up, btlpm | subsystem reference counts, timers | power on and off, firmware load | failures half way | power state and users agree |
| OpenSBI remote fences (`sbi_tlb.c`, `sbi_ipi.c`, `sbi_fifo.c`) | a FIFO of requests, `tlb_sync` and the pending events of each hart | request, merge, queue, interrupt, work off, wait | entries merged and worked off while the requester still counts; full FIFOs on both sides | a returned fence has been carried out everywhere; no deadlock |
| OpenSBI, the rest (upstream, one patch) | hart states, traps | start, stop, suspend harts | cross-hart races | no hart lost |
| U-Boot, FSBL, fiptool | images | load, pack | formats, not concurrency | |
| Linux patches | device tree, audio, Ethernet PHY, RTC | RTC oscillator calibration | bounded search on a noisy measurement | converges or reports |
| Makefile and scripts | working tree, SD image, configfs | fetch, patch, build, pack; USB gadget set-up | one step of several failing | rerun brings the same state |

Components interact mainly through the boot chain.  Inside the TPU driver the
user threads call ioctls that put nodes on `task_list` and wake the work thread;
the work thread takes `dev_lock`, calls the HAL and sleeps on `tdma_done`; the
interrupt handler saves registers and completes it; the work thread moves the
node to `done_list` and wakes the waiters; the power-management core calls the
suspend and resume hooks beside all of them.  In the Wi-Fi driver callers of
`rwnx_send_msg` put commands on a list; one at a time goes through the command
buffer, which the transmit thread (`AicTx`) writes to the card before any data;
the receive thread (`AicRx`) takes confirmations and hands them to the command
manager (`AicCmd`), and data frames to the reordering (`AicReorder`).  The modules
meet at these interfaces: `AicTx` sees a command as a flag, `AicCmd` sees the
transmit thread as the step that sends or loses the buffer, `AicRx` sees the
command manager as who waits for a confirmation.

`PROJECT.json` lists the hazards found while reading, each with its line and
the properties that watch it.

## Modules

| Module | What it is |
|---|---|
| `TpuQueue` | the job queue: model and properties |
| `MCTpuQueue` + `MCTpuQueue_{faults,live}.cfg` | its instances for TLC |
| `TpuQueueProofs` | theorems about `TpuQueue` |
| `TpuHal` | one job on the hardware, interrupts, open count, suspend and resume |
| `MCTpuHal` + `MCTpuHal_{faulty,poll}.cfg` | its instances for TLC |
| `TpuHalProofs` | theorems about `TpuHal` |
| `AicCmd` | the Wi-Fi command manager with the command buffer |
| `AicCmdLine` | what it promises: a first-in first-out line with one command in service |
| `MCAicCmd` + `MCAicCmd_{queue,live,notes}.cfg` | its instances for TLC |
| `AicCmdProofs` | theorems about `AicCmd`, with its refinement of `AicCmdLine` |
| `AicReorder` | receive reordering on sequence numbers that wrap |
| `ReorderBuffer` | what it promises: the same buffer on numbers that do not wrap |
| `MCAicReorder` + `MCAicReorder_window.cfg` | its instance for TLC |
| `AicReorderProofs` | theorems about `AicReorder`, with its refinement of `ReorderBuffer` |
| `AicTx`, `MCAicTx` + `MCAicTx_frames.cfg` | the SDIO transmit path |
| `AicTxProofs` | theorems about `AicTx` |
| `AicRx`, `MCAicRx` + `MCAicRx_{blocks,selfwait}.cfg` | the SDIO receive path |
| `AicRxProofs` | theorems about `AicRx` |
| `SbiTlb`, `MCSbiTlb` + `MCSbiTlb_fences.cfg` | remote fences of OpenSBI |
| `SbiTlbProofs` | theorems about `SbiTlb` |
| `LeastElement` | lemmas the proofs share: least and greatest elements exist, `Min` and `Max` find them |

### TpuQueue

A step is one section under a spinlock or the code between two such sections.
`pc[t]` says where thread `t` is in its ioctl, `wpc` where the work thread is.

* Submit: `SubmitStart`, `SubmitCount` (one turn of the `while (1)` loop, with
  the counter that is never reset), `SubmitQueue` or `SubmitNoMem`.  The three
  submit ioctls differ in the node they fill in (`DmabufNode`, `TeeNode`,
  `PioNode`) and in whether a buffer is prepared.
* Wait: `WaitStart`, `WaitCheck` (the test of `wait_event_interruptible`),
  `WaitInterrupted`, `WaitGet` (the second lookup), `WaitFinish` (copy to user,
  unlink, free).  `WaitFault` is the use of a node that was freed meanwhile.
* TEE: `TeeStart`, `TeeLock`, `TeeDone`; the HAL calls are empty on this chip.
* Work thread: `WorkLoop`, `WorkWait`, `WorkIdle`, `WorkTake`, `RunBegin`,
  `RunEnd`, `WorkPublish`, `WorkWake`, `WorkReap`, `WorkExit`.  The run itself
  is one step with any result the HAL can return; `TpuHal` opens it.
* `Remove`, `RemoveDone`, `Probe`.  Removal is modelled through `rmmod`, which
  the open file pins; unbinding through sysfs with files open is not.

The place of a node in `done_list` is a number in the node (`pos`), because
the list is only searched front to back and appended to.  The kernel is not
followed after a fault (`oops`); `RunOops` and `WaitFault` are the two faults
the code can reach: a job whose buffer could not be prepared, and a finished job
freed under a waiter that is not a thread-group leader.

### TpuHal

The hardware is external and reduced to what the driver reads: TDMA counts
commands and raises an interrupt at the end or on an error, TIU sets a done bit,
the PMU raises an interrupt when flushed.  With `Faulty` the engines may hang or
fail at any time and a wait may expire at any time, and `faulted` remembers that
this happened to the job at hand; without it a wait expires only if nothing more
can come.  The interrupt line is level triggered
(`patches/linux/0017-licheerv-nano-tpu.patch`).  A register access with the
clocks off hangs the bus (`hung`), and nothing is followed after that.  The work
thread is not freezable, so it runs on beside the suspend callbacks until the
processor stops.  During sleep the engines keep or lose their state.

### AicCmd and AicCmdLine

Two callers and the work item run `rwnx_send_msg`, `cmd_mgr_queue` and
`cmd_mgr_task_process`; `pc[p]` says where each is.  A command is a slot of
`cmd_array`; its flags (`WAIT_PUSH`, `WAIT_CFM`, done) are sets of slots.  A step is a
section under `cmd_mgr->lock` or the code between two: `SendMsg` (a slot is taken),
`Queue` or `QueueRefused` (with `DeferPush`, the test that reads the last command
only), `SetCmdTx` and `BusTxMsg` (the write into `bus->cmd_buf` and the trigger),
`WaitDone` (the command leaves the list), `CmdFree` (its slot is freed, later and
under another lock: in between the slot is taken although no list has it),
`WaitTimeout`, `TimedOut`, `Wake`, the work item's `WorkStart` and
`WorkScan`, the transmit thread's `TxThreadWake` and `TxMsg`, `MsgInd` (with
`Matching` and `CmdComplete`) or `FwIgnores` for the firmware's answer, `BusStop` and
`Deinit`.  After a timeout the manager is CRASHED for good.  Messages are of four
kinds: with a buffer for the confirmation (they poll for an empty list), without,
traffic messages, which are always deferred, and notes that are not confirmed;
notes are sent in the run `cmd_notes` only.  `cmd_mgr_llind` and
`cmd_mgr_queue_force_defer` have callers only inside `#if 0`
(`rwnx_msg_tx.c:408-442`).

`AicCmdLine` says that commands are pushed one at a time in the order in which
they were accepted, and none once the line is closed.  The mapping of
`ImplementsLine` takes the end of the list that has not been pushed
(`PushedCount` says where it begins) for the waiting commands, and the pushed,
unconfirmed one for the one in flight.  `Unlink` is `list_del`; taking a command
off a second time is recorded (`unlinked2`).

### AicReorder and ReorderBuffer

One peer and one TID in station mode.  The environment numbers frames without
wrap and the driver sees the number modulo `Modulus`; a frame is at most a window
ahead of the newest one and at most two windows behind.  `Receive` ends where the
code drops `stas_reord_lock`; then `LateFrame`, `DuplicateFrame` or `QueueFrame`
run under the lock of the control.  `FlushTid`/`FlushStopTimer` and
`DeinitStop`/`DeinitFree` have the gap between stopping the timer and the rest.
The walk over the sorted list (`reord_rxframes_process`) is its result: how far
the numbers run without a gap.

`ReorderBuffer` is the same service on unwrapped numbers, with the held frames as
a set; it says which frames a step hands up and that they are in ascending
order.  `ImplementsUnwrapped` maps `ind_sn` to the frame number nearest to the
newest frame; it fails at once for a comparison that ignores the wrap.  Not
modelled: EAPOL and multicast frames, which bypass the buffer, the return for a
wrong interface type, and AP mode, where teardown runs beside the receive thread.

### AicTx

Two senders and two priorities against the bustx thread, in the configuration of
the tree's build (no ADMA, no power control, no netif flow control, no
preallocation, no OOB interrupt).  `aicwf_frame_enq` is three steps (list, `hi_prio`,
count), because the thread reads all three without `txqlock`.  `SendCmd` is
`aicwf_sdio_tx_msg` with its retries: a refused command leaves `cmd_txstate` set
(`refused` records it).  Of its branches only that of AIC8801, AIC8800D80 (the chip
of this board) and AIC8800D80X2 is modelled; AIC8800DC sends commands without
asking for a buffer (`aicwf_sdio.c:1858-1862`), so `FwNotOverrun` and `Drained` say
nothing about it, and any other chip refuses every command (1863-1867).  The send at `aicwf_sdio.c:2095-2101` cannot happen, because
an aggregate goes out as soon as it is full, and aggregation cannot fail without
ADMA; they are no actions.  The write to the card succeeds.  `fw` counts the
buffers the firmware has left and goes below 0 when it is overrun; the flow
control register (`FcReg`) then reads 0.  `FwNotOverrun` is an action property: no
step takes `fw` below 0 while the count in hand is stale by at most `Thresh`
commands.

### AicRx

The interrupt handler (`Irq`, `IrqCount`, `IrqWake`) against the busrx thread.  A
block is a sequence of packets: data, confirmation, indication.  `NoMemory` is the
return without counting the block down (`aicwf_txrxif.c:421`); `HandleIndSends` is
an indication handler that sends a command from the receive thread.  Commands
are reduced to who waits.  `BusDown` may come at any time, a command outstanding
or not; a confirmation handled after it is ignored (`aicwf_txrxif.c:425`).

### SbiTlb

Three harts, because merging needs two requesters of one target.  A request is
normalised, put to each target in round-robin order (`UpdateSelf`,
`UpdateInPlace`, `Enqueue`, `FifoFull`), counted after the target can already see
it (`Count`), and announced (`SetType`, `Raise`).  Addresses are pages modulo
`Space`, so that `start + size` wraps.  `owed` is history: what each target still has
to flush for each requester.  `SyncInv` says that no target carries a hart in two
entries (`CarriedOnce`) and that `tlb_sync` is the number of targets that carry it
(`SyncCount`).  The FIFO operations are atomic (they hold the
FIFO's lock).  Harts do not stop or suspend in this model.

## Runs

| Run | Instance | What it shows |
|---|---|---|
| `queue_faults` | two threads, one no leader; three jobs of all kinds, numbers with 0; failing buffers and copies; removal | memory, buffers and clocks balance, list bound, node ownership, exclusive hardware; jobs run in order; every wait gets the result of its own job under the number asked for; finished results are not lost |
| `queue_live` | fair, no faulty buffers | jobs finish, waiters wake, submits and removal return |
| `hal_faulty` | five kinds of job, faulty engines, two openers, one signal, one suspend, fair | no false success, jobs without fault or disturbance succeed, PMU flushed, no register access without clocks, every run ends |
| `hal_suspend_poll` | working engines, one suspend | **violation**: the suspend loop waits out its 60 s although the interrupt came |
| `cmd_queue` | two callers, three kinds of confirmed message, losses on the bus and in the firmware, removal | one command in flight, none overwritten, confirmations meet their command and a live caller, no slot lost; the manager implements the line |
| `cmd_live` | two callers, one with messages without buffer, one with traffic messages, a firmware that may not answer and a bus that may lose, fair | commands deferred behind others, or although nothing is under way, are pushed; waits end |
| `cmd_notes` | confirmed and unconfirmed messages | **violation**: an unconfirmed message overwrites the command buffer before it is sent, or is overwritten |
| `reorder_window` | window of 4 of 24 numbers, from just below the wrap, failing allocations, fair timers | the driver hands up what the unwrapped buffer would; window, pool and timer stay consistent; held frames are released |
| `tx_frames` | two senders, two priorities, three frames, two commands, refusals, stop, fair | counter exact, nothing stranded, in order, firmware not overrun, queue drained |
| `rx_blocks` | eight blocks and confirmations, queue of three, failing allocations, stop, fair | counter exact, no lost wake-up, commands answered |
| `rx_selfwait` | as above, allocations succeed | **violation**: the receive thread waits for a confirmation only it can deliver, and the manager is CRASHED |
| `tlb_fences` | three harts, FIFOs of one entry, six requests of every kind, with different ranges and address spaces, fair | fences complete on return, counter exact, no lost interrupt, no deadlock |

Types are checked in every passing run but the purely temporal ones: `MemoryInv`,
`BusInv`, `SlotInv`, `BufferInv`, `CountInv` and `SyncInv` are each `TypeOK` and the
balance of the module's resources.

Bounds.  Two threads are enough for every race of the queue: each involves one
submitter or waiter and one other thread or the work thread, and the limits
`TASK_LIST_MAX` and `DONE_LIST_MAX` are set so that both lists fill up.
`MaxNodes` bounds allocations; when it is reached vmalloc fails, which is a path
of the code.  `ThirdNodePlain` keeps the states with plain jobs only (where the third
job only has to push a finished one out) and the states of `MixedJobs`: two nodes of
any kinds, explored without a timeout, a TEE ioctl or a removal.  In this run a
TEE or PIO job never meets a timeout or a removal; the safety properties are proved
for that combination too, the liveness properties are not checked on it.
In the HAL two
descriptors with different command counts are what a mix-up needs; `MaxClk` stops
new jobs after two timeouts, and no job of the run has both TDMA and PMU (theorem
`PmuFlushedBefore` covers that).  In `AicCmd` five slots are as few as
`CmdAssumption` allows: a list of two and one more command in the hands of each
caller and of the work item, which may have unlinked it and not yet freed it.  The
code has 40 slots and a list of at most 16 (`RWNX_CMD_ARRAY_SIZE`,
`RWNX_CMD_MAX_QUEUED`), enough for 23 callers at a time.  `TrafficByOne` gives each
caller of the progress run one kind of message.  `TriggerBound` and `RemoveBound`
cut off states with more pending triggers of the transmit thread, and removal with
more than two commands in use or after a crash.  The
reorder window of 4 is the smallest in which two gaps remain after a timeout, and
`6 * WSize <= Modulus` keeps the environment's frames unambiguous, as 64 of 4096
do.  In `AicTx` the queue and the aggregate hold two, so that each fills up with
three frames; with a reserve `Thresh` of one, three buffers and two commands the
count can be stale by more than the reserve, and the firmware really is overrun in
those states.  In `SbiTlb` FIFOs of one
entry are full after one request; `ThirdHartBound` lets the hart that nobody asks
make two of the six requests.

`CHECK_DEADLOCK FALSE` is set where bounds or the code end all activity: a leaked
`dev_lock` with all jobs used up, a CRASHED command manager, frames, commands,
blocks or requests used up.

Several properties carry an exception where the code has one, and it is as
narrow as the code allows: `SubmitReturns` excludes a submitter that once counted
too many tasks (its counter never goes down), liveness of the queue excludes a
leaked `dev_lock`, `RunEnds` excludes an interrupt nobody clears because the device
was closed with a job in flight, `CfmBufferLive` holds until the manager is
CRASHED, no command is unlinked twice before removal, `NoStranding` and `Drained`
exclude a command that flow control refused (nobody triggers the thread again),
`NoLostWakeup` and `AppAnswered` exclude what follows a failed allocation
(`rx_cnt` stays too high for good), `AppAnswered` also a confirmation dropped from a
full queue and a bus that was stopped meanwhile.
`FenceComplete` is checked and proved for ranges that are not empty and do not
wrap, or exceed the limit and become a full flush.  The local fences take
`start = size = 0` for a full flush and `tlb_range_check` for an empty range, so
behind a queued range that starts at 0 such a request is skipped; a range whose
`start + size` wraps compares as if it ended before it starts.

Fairness.  Threads inside the drivers, work items and timers run (weak fairness
of their steps; no wait inside the HAL is unbounded, each has a 60 s timeout, and
the wait for a confirmation has one too).  `dev_lock` is a kernel mutex with a FIFO
queue and hand-off, hence strong fairness of taking it.  In `AicTx` the firmware
frees its buffers, in `AicRx` it sends the confirmations it owes; in `AicCmd` it may
leave any command unanswered.  A hart goes on with what it does in the firmware and takes
interrupts.  No fairness is assumed for user space starting anything, for frames
arriving, for signals, for process exit, for stopping the bus or, in `TpuHal`
with `Faulty`, for the engines.

Findings: `hal_suspend_poll`, `cmd_notes` and `rx_selfwait` show what the code does
against what its own comments or tables say; `PROJECT.json` quotes both.

## Proofs

Every safety property of the runs, and both refinements, are also theorems: for
every number of threads, callers, senders, harts, frames, slots and entries, not
only for the instances above.  Each module proves that its inductive invariant
holds initially, is kept by every action, and implies the properties.

`TpuQueueProofs` (from `QueueAssumption`; invariant `QueueInv`):

* `TypeCorrect`: `TypeOK /\ ClockBalance`.  The clock count is a natural number
  only because enables and disables pair up, so the two are proved together; the
  strengthening adds that without a bound device there is no work thread, and
  that the work thread has a node while it runs one.
* `BacklogBounded`: `TaskListBounded`.  The bound is not inductive; the invariant
  counts threads past the check as entries (`Backpressure`).
* `RunsExclusively`: `HardwareExclusive`.  `LockInv` ties each critical section to
  the owner of `dev_lock`; the new mutex of a re-probed device is covered because
  removal waits for the last close.
* `NodesOwned`: `NodeOwnership /\ LeaderKeepsNode`.  `OwnInv` adds what a waiter
  knows about the node it uses without a lock: its number is never handed out
  again, and if it is allocated it is on `done_list` and the waiter's own.
* `JobsInOrder`, `MemoryKept`, `ResultsDelivered`, `ResultsKept`: `FifoOrder`,
  `MemoryInv`, `DeliveredResult` and the action property `ResultNotLost`.  `DataInv`
  says what is in the nodes: only dma-buf jobs hold a reference, a node has the
  number of its own kind only, what a finished node says is what the hardware
  returned, and what a waiter holds is still what it asked for.

`TpuHalProofs` (from `HalAssumption`; invariant `HalInv`): `BusSafe`, `SuccessIsReal`,
`PmuFlushedBefore`, `HealthyRunsSucceed`.  The heart is `OneInterrupt`: there is one
source of interrupts at a time and none is left once `complete()` was called, so a
wait never sees the completion of an earlier descriptor.  `OnTrack` says that what
TDMA has done and has left adds up to the descriptor at hand, `PmuTrack` where the
PMU is, `Answering` that whoever waits has an answer or is about to get one.

`AicCmdProofs` (from `CmdAssumption`; invariants `CmdInv` and `PipeInv`): `SlotsKept`
and `BufferLive` for all kinds of message; `NothingOverwritten`, `CfmsMatched` and the
refinement `LineImplemented` when no message is sent without confirmation
(`"note" \notin Kinds`; with notes the first is false, run `cmd_notes`).  `Order` says
that the list is made of confirmed commands, then at most one in flight, then
those not pushed: that is why it is enough for `cmd_mgr_queue` to look at the last
command and for the work item to look at the first.  `Pipe` says that one message
at a time is between the process that pushes it and the firmware.

`AicReorderProofs` (from `ReorderAssumption`: an even modulus of at least six
windows, as 64 of 4096 are; invariant `ReorderInv`): `BufferKept`, `HeldHaveTimer` and the
refinement `UnwrappedImplemented`.  `Window` says that `ind_sn` stands for one frame
number near the newest frame and that all held frames are in the window behind
it.  Then every two numbers the code compares are less than half the modulus
apart, and lemmas about remainders show that `SN_LESS`, the window start, the
insertion sort (`Enqueue`) and the walk to the next gap (`Process`) compute on
sequence numbers what they would compute on frame numbers.

`AicTxProofs` (from `TxAssumption`; invariant `TxInv`): `TxCountExact`, `NothingStranded`,
`FramesInOrder` and the action property `FirmwareNotOverrun`.  `Hidden` says that a
frame above `hi_prio` is the one its sender is still queueing, `Open` that an
aggregate left open has a frame to come, `Room` and `Credit` that the aggregate fits
the buffers counted and that these are there up to the commands sent since.

`AicRxProofs` (from `RxAssumption`; invariant `RxInv`): `RxCountExact`, `RxWakeupNotLost`.
`SleepsOverOne`: while the thread sleeps over a block with no trigger left, that
block is the only one and the interrupt handler is still at it.

`SbiTlbProofs` (from `TlbAssumption`; invariants `TlbInv` and `FenceInv`): `SyncExact`,
`IpiNotLost`, and `FencesComplete` under `PlainRequests` (the restriction above).
`TellsOnce` says that a target is never given a request it carries already,
`EventSet` and `EventRaised` who is about to raise the interrupt, `Owing` that what a
target still has to flush is covered by an entry it carries or by a request it has
yet to be told of.

Only model-checked: the liveness properties (`JobFinishes`, `WaitReturns`,
`SubmitReturns`, `RemoveReturns`, `RunEnds`, `DeferredPushed`, `WaiterReturns`,
`HeldIsReleased`, `Drained`, `AppAnswered`, `RequestReturns`), which are out of the
prover's reach, and the three violations.

## Plan

Done: `TpuQueue`, `TpuHal`, the AIC8800 core, remote fences; all their safety
properties and both refinements proved.  Worth doing next: abstract specifications
of the queue and of the fences, proved as refinements from the invariants there
are.

Models worth adding: OpenSBI hart states (`sbi_hsm.c`: start against stop and
suspend, and a hart that stops after the mask of interruptible harts was read, so
that a fence waits for it for ever); AP-mode teardown of the reordering; the
bring-up driver and btlpm; the RTC calibration loop.

## Not modelled

Contents of command buffers and cache maintenance; the packing of the PIO command
(`emit_tdma_reg` masks lengths and strides to 16 bits); the profiling timer (which
divides by the interval it measured); the phobos HAL; unbinding the driver with
files open; compiler and memory-model effects on the flags that are read without
a lock (`running_cnt`, `tpu_sync_backup`, `hi_prio`); the flush of the transmit queue
without `txqlock` at bus stop, which is one step here; the freed reorder control
whose timer a running work item has armed again; translation between cfg80211 and
firmware messages; boot loaders, image formats, build and board scripts, which are
sequential; everything marked `not_modelled` in `PROJECT.json`.
