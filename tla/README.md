# Verification of fpga-test

TLA+ models of the concurrent and clocked parts of this repository, the TLC
runs that check them on small instances, and TLAPS proofs of the results that
hold for every instance.  `PROJECT.json` lists the components, the runs, the
source lines behind each definition, the hazards and the theorems.

## The system

The repository holds several boards' designs.  Three parts have logic of their
own that can go wrong in ways a bench test hardly reaches.

**CLS DAQ on the Zedboard.**  A TCP server (`vitis/zedboard-cls-daq/src/echo.c`)
on bare-metal lwIP takes 24-byte text commands from one client, and drives
 - a pulse counter (`ip-pulse-counter-saxi`) behind an AXI-Lite slave: two
   input samplers, a 32-bit count, and a trigger gate with a delay and a width;
 - a DAC controller (`ip-dac-cn0531`) behind two GPIOs: a state machine, an SPI
   shifter on a divided clock, and a delay generator;
 - an ADC on the processor's SPI controller, and an OLED display
   (`ip-zedboard-oled`) that runs on its own.

**XDMA Linux driver for the AUBoard** (`auboard-pcie/linux-kernel/xdma`).  It
splits a request into transfers, puts their descriptors in a ring the hardware
reads, and completes them from an interrupt's bottom half, from polling threads
or asynchronously, with timeouts, errors and a device that can be taken offline.

**Everything else**: MicroBlaze DMA tests, a Zybo HDMI text output on vendored
IP, Python scripts, block designs.  Sequential or generated; not modelled.

### Inventory

| component | state | operations | meets | what is hard |
|---|---|---|---|---|
| pulse counter | samplers, `pulse_count`, `trigger_count`, `tstate`, `isTrigger`, `PASS_GATE` | one clock edge | register values from the slave | wrap of the counts, settings changed in a window, reset in a gate |
| AXI-Lite slave | write FSM, read FSM, `slv_reg0..3` | one clock edge | bus master, counter | address and data apart, responses withdrawn |
| firmware, register commands | `pulse_counter_config` | SetTrgMode/Width/Delay, SetClrCount, GetCount | slave, by bus accesses | the pipeline between counter and bus |
| TCP server | `client_pcb`, `recv_buffer`, `recv_len` | start, accept, receive, close, error | lwIP callbacks | segmentation, resets, stale connections, full send buffer |
| DAC controller | `state`, `spiData`, `spiLoadData`, `startDelay`; shifter; delay | clock, divided clock, SetVolt | GPIO pulse, AD5791 | two clocks, a button that resets one of three parts, a pulse that is not a handshake |
| XDMA engine | `running`, `shutdown`, `transfer_list`, `desc_idx`, ring | init, queue, start, stop, service, abort | hardware, callers, reset | late interrupts, timeouts, two locks, one flag outside both |
| XDMA asynchronous requests | `cdev_async_io`, `xdma_request_cb` | submit a segment, complete, report | engine, without `desc_lock` | several submitters build in one ring, one segment of several fails, freed while listed |
| XDMA polled mode | `schedule`, the write-back | check, sleep, poll, service | submitters, hardware | lost wake-ups, a write-back read and cleared in two steps, resets |
| XDMA device | `xdma_dev`, `xdma_pci_dev`; enable count, regions, handlers, vectors, masks, nodes, threads | load, probe, remove, error recovery, reset, ioctl | PCI core, kernel, user interrupts | every step of probe can fail; an ioctl takes no lock; a bottom half is never flushed |
| OLED | init sequence, page writer | clock | shifter | nothing the DAC's shifter does not have; not modelled |

The properties that make each correct are listed with the runs below.

## Modules

| module | models |
|---|---|
| `PulseCounter` | `pulse_counter.v`, one action per `always` block, `Clock` their conjunction |
| `TriggerGate` | the counter under all inputs and register writes, with auxiliary variables that measure each window |
| `AxiLiteSlave` | the slave's state machines and registers |
| `PulseCounterIp` | firmware commands, bus master, slave and counter composed |
| `ClsServer` | the callbacks of `echo.c` and the lwIP life cycle around them |
| `SpiControl`, `DelayGen` | `spiControl.v` and `delayGen.v` of the DAC |
| `Cn0531` | `cn0531.v` with the two above, SetVolt of the firmware and the DAC |
| `XdmaEngine` | the functions of `libxdma.c` that run under `engine->lock`, as operators from an engine to an engine, and the hardware |
| `XdmaSync` | `xdma_xfer_submit`, interrupt, bottom half, offline/online and a frozen PCI channel, as interleaved actions |
| `CopyService` | what blocking requests promise: one client at a time, items in order, credit only for what was copied |
| `XdmaAsync` | `cdev_aio_read/write`, `xdma_xfer_submit_nowait`, `xdma_xfer_completion`, `async_io_handler`, the bottom half or the polling thread, offline/online |
| `XdmaDevice` | `xdma_mod.c`, opening and closing in `libxdma.c`, `xdma_cdev.c`, the ioctls of `cdev_ctrl.c` and the events of `cdev_events.c` |
| `PulseCounterProofs`, `TriggerGateProofs`, `PulseCounterIpProofs`, `ClsServerProofs`, `Cn0531Proofs`, `XdmaSyncProofs`, `XdmaAsyncProofs`, `XdmaDeviceProofs` | theorems about the modules they are named after |
| `MC*` | constants of the runs |

Definitions keep the source's names.  A definition commented `Mutant:` is never
used by a specification: it is a plausible mistake in the definition below it,
and shows that the property named in `PROJECT.json` would notice.

How code becomes actions:

 - *Verilog.*  All blocks of a clock read old values and write new ones, so a
   clock edge is one action that conjoins the blocks.  In `Cn0531` the divided
   clock is a second action, forced right after the board edge that raises it.
   Reset values and initial zeros are `Init`.  `WordSize` stands for 2^32.
 - *Firmware.*  lwIP calls the callbacks from the main loop, one at a time, so a
   callback is one action.  A command of `PulseCounterIp` is a sequence of bus
   accesses spread over clock edges, because there the pipeline matters.  A byte
   is a pair of connection and position; parsing the text of a command is
   abstracted to "this frame is message m", and to an error if it is not.
 - *Driver.*  A caller has a program counter with a value for each point where
   another thread may run.  What is done under one lock section is one action,
   except the bottom half: its two register reads are apart, because the
   hardware goes on between them.  In `XdmaAsync` the polling thread has a
   program counter of its own, with the read and the clearing of the write-back
   apart.  The completion of a request runs inside `engine_service`, under its
   lock, and is part of that action.
 - *Procedures of `XdmaDevice`.*  Probe, remove, offline and online are long
   sequences of small steps, each of which may fail.  An actor (the PCI core, or
   a process in an ioctl) has the sequence of steps it still has to take, and a
   failing step replaces the rest of it by what the `goto` of the source runs.
   `From(label)` is the fall-through of the labels of `xdma_device_open`.
 - *Undefined behaviour.*  Memory used after it was freed is taken to keep its
   contents (`XdmaAsync`) or the user of it is followed no further (`XdmaSync`,
   a list with a freed transfer; `XdmaDevice`, an ioctl or a reader when `xdev`
   is freed).  An ioctl into a closing device is followed as long as what it
   uses is there: only its accesses to registers already unmapped are not, nor
   is a bottom half still queued when its engine is cleared.
   A write past `recv_buffer` ends the behaviour (`ClsServer`).

How the XDMA modules meet: `XdmaEngine` is extended by `XdmaSync` (its requests
are callers) and instantiated by `XdmaAsync` (its requests are transfers, two a
segment).  `XdmaDevice` looks at the same offline and online as a whole device,
and abstracts an engine to whether it takes transfers.  Blocking and
asynchronous requests on one engine at once are not composed.

### What is assumed of the outside

 - The bus master presents a write's address first or with the data, holds
   valid until ready, and takes responses in its own time.
 - lwIP: a closed pcb lives on until the peer acknowledges and can still be
   reset, which calls the error callback; bytes come in order, as one pbuf, or
   as a chain after a gap has been closed; a driver called uninitialised stops
   in its assertion.
 - XDMA hardware: a run starts at count zero and follows the chain to the
   descriptor flagged STOPPED; an error or a descriptor without magic stops it;
   clearing RUN takes effect before the next descriptor; status bits are sticky
   until `status_rc` is read; the interrupt is raised while a bit is set and
   enabled.  In poll mode it writes its count back when the last descriptor of a
   chain is done, and on an error.
 - PCI: a frozen channel reads all ones and loses what is written; it stays
   frozen until the slot is reset, which happens between offline and online
   (`xdma_error_detected`, `xdma_slot_reset`) and leaves the engine idle, its
   interrupts masked.
 - Kernel: a line of MSI-X or MSI has one handler, a legacy line may have
   several; `free_irq` takes one away; the PCI core runs probe, remove, recovery
   and reset of a device one at a time; open files keep the module loaded.
 - The AD5791 takes a word when SYNC rises after 24 bits.

## Runs

**trigger_gate** (`WordSize` 4, settings 0, 1, 3: both orders of delay and width,
equality, and the last value before the wrap).  `ExactWindow`: an undisturbed
delay takes `TRIGGER_DLY + 1` clocks and the gate `Span(delay, width) + 1`,
around the word when the width is smaller.  `GatePinShowsGate`: PASS_GATE is
high in every gate and outside one only after a reset cut the gate.
`WindowEnds`: once the settings stay put a window ends.

**trigger_width** (violation).  The help text promises a gate of the width that
was set.  `trigger_count` is not zeroed between delay and width, so the gate is
shorter by the delay, and nearly 2^32 clocks long if the delay is larger.

**pulse_counter_ip** (`WordSize` 8, two pulses, four commands).  `ClearIsSeen`:
after SetClrCount no GetCount returns more than the pulses since.
`CountIsRecent`: GetCount is at most one pulse behind.  `WritesLand`: between
commands each register has the value last commanded.  `CommandsEnd`: no access
hangs.  Four commands are enough for set, clear, read and one more of any kind
in any order; the trigger pin stays low here, the gate is the previous run's.

**cls_server** (two connections, symmetric; messages of two bytes, a buffer of
four, segments of up to five, three messages a stream, room for one reply).  Two
bytes let a segment end inside a message; a segment as long as the buffer meets
its limit, with and without a byte before it, and one of five exceeds it; of two
connections one can be closing while the other is served (three, with segments of
up to four, pass as well); the messages are GetVolt and GetCount, whose replies
compete for the send buffer.  `BufferFits`: `recv_buffer` is written past its end
by a segment longer than all of it, and by nothing else; between two callbacks less
than a message is in it.  (The overflow check resets `recv_len` and then copies the
segment, however long it is.  Whether lwIP delivers one that is too long depends on
the size of its pbufs, which nothing in `echo.c` relates to the 1024 bytes of the
buffer.)  `ServedClientIsOpen`, `ExactlyOnce`, `RepliesAccounted`; the
last two are claimed while no byte was lost (`tainted` records the four ways the
code can lose or mix bytes: an overflow, a pbuf chain, an abort with half a
message, two clients at once).  The server may stop for good, so deadlock is not
checked.

**one_client**, **packets_returned** (violations, three connections).  A reset
of an already closed connection clears `client_pcb` of the client being served,
and the next client is let in beside it; of a pbuf chain only the first pbuf is
read and returned to the window.

**dac** (3 bits, a divider of 3, a delay of 3, a request of 6 clocks, two
commands, two presses).  The proportions keep the order of the source's: a
request is longer than one period of the divided clock and shorter than a
transfer.  `ConfiguredFirst`, `WordsWhole`, `SettlesFirst`, `ComesBack`,
`IdleRequestsServed`.

**last_voltage** (violation).  A SetVolt during the transfer of another is lost.

**xdma_sync** (two callers, a ring of two, requests of up to two descriptors, one
offline/online cycle, and a freeze of the PCI channel that it recovers from).  A
request of two descriptors that starts at the second slot is cut at the end of the
ring and needs two transfers.  Requests of three descriptors, in rings of two and
of three, pass the invariants and the refinement too.
`CountedIsMoved`: what a caller is told is transferred was moved.  `ListIsLive`:
no transfer of a freed request is listed.  `HardwareOnHead`: a busy engine
works on the head of the list, whose remaining descriptors are intact.
`OfflineIsQuiet`: nothing starts an engine between offline and online.
`ServiceImplemented`: the specification implements `CopyService`.  The mapping:
waiting callers are those before `desc_lock`, the one served is the one that
holds it, copied is what the hardware moved, and the credit of a request rises
when `engine_service` answers its transfer.  The two exceptions, which are in
`lost` when they have occurred and map to a service that is `broken`:

 - A caller gives up while the channel is frozen.  `engine_status_read` fails,
   because the engine's id reads as all ones, so neither `transfer_abort` nor
   `xdma_engine_stop` is called (libxdma.c:3641); the transfer and its request are
   freed all the same, and the list holds a freed transfer (`Dangling`).  The next
   thread that follows the list reads freed memory and is not followed.
 - A bottom half reads the count while the channel is frozen: all ones, which
   answers every listed transfer as completed (libxdma.c:1156).

A thread that is not followed keeps its lock, and the number of resets is
bounded, so the system may rest and deadlock is not checked.  `CompletionIsSeen`:
a finished transfer is answered without its timeout, unless the device goes
offline or the channel freezes.  `SubmitReturns`: with a timeout every caller
returns, unless one has freed a listed transfer.  Both are stated of one caller
among the others, which nothing in the specification tells from the rest.

That `engine_service_final_transfer` takes a short count for an engine that
stopped is part of the model: with the late interrupt of a timed-out transfer it
fails the next one in full flight, and `CountedIsMoved` holds nevertheless.

**xdma_async** (two iocbs, of up to two segments and of one; segments of up to
two descriptors in a ring of three, entered at its last slot so that the first
request is cut; at most three descriptors in use; one fault: a segment not
accepted, a bus error or a reset; interrupt and poll mode).  Three segments of
two descriptors compete for three slots, and a request of two transfers meets
one of one.  The invariants also pass with two faults and four descriptors in
use (10.3 million states), and with segments of three descriptors, five in use,
in a ring of four (7.4 million), both too long for a run to keep.
`RingIntact`: no transfer on the list has been overwritten or zeroed.
`ReportedIsMoved`: an iocb is told no more than was moved.  `ListedIsLive`:
nothing on the list has been freed.  `AioCompletes`: an iocb whose segments were
all accepted is told its result.

These hold with exceptions, which are behaviours of the code that TLC found and
that the properties name:

 - More descriptors in use than the ring has ("Need to handle desc_used >=
   engine->desc_max", libxdma.c:2994).
 - Two submitters between `transfer_init` and `transfer_queue` at once.  The
   list then has another order than the ring; a request cut in two returns its
   first descriptors late, and zeroes those of a newer one.
 - Poll mode and a reset: a write-back from before the reset is taken for the
   next transfer's, or is read while the next one is written and then cleared
   with it (libxdma.c:1272).
 - Interrupt mode and a bottom half from before a reset, which finds the engine
   busy with the transfer started again: it fails that transfer and leaves
   `desc_dequeued` above the hardware's count, the next unsigned difference wraps
   (libxdma.c:1183), and every listed transfer is completed.  (That an error is
   needed as well is true only of transfers of up to two descriptors.)
 - An error before the first descriptor is done, or a reset, leaves the engine
   stopped with transfers on its list until another one is queued.
 - A refused transfer frees a request whose first transfer is listed; a
   misaligned segment frees the caio of earlier segments; the result of
   `xdma_xfer_submit_nowait` is not looked at, so that an iocb with a refused
   segment is never reported.

**two_transfers** (violation; segments of three descriptors in the ring of
three).  A request that is no longer than the ring needs two transfers, as many
as `struct xdma_request_cb` has, when it is built by itself.  When another
submitter builds between its two, `desc_idx` is no longer at the start of the
ring, the second transfer is cut as well and a third would be needed.  `Build`
follows such a behaviour no further.

**xdma_device** (one channel a direction, one user interrupt, two BARs with the
registers in the second, so that every kind of node but bypass exists; one probe,
two resets or ioctls; every interrupt mode, interrupts and polling; a bottom half
of the engines).  One probe and two resets reach: a failure of every step, offline
twice, online twice, an ioctl into a recovery or into a close, a bottom half that
runs after either, and removal from each of these.  (With three BARs, and bypass
nodes, it passes too.)  `NothingLeftBehind`: when the
device is gone, so is everything that was acquired for it.
`HandlersHaveDevice`, `NodesHaveDevice`: no handler and no node without what it
uses.  `UnmaskedHasHandler`: no interrupt is enabled without its handlers.
`Recovered`: a device that is back online is as probe left it (its enable count
if no earlier probe or removal has left that off).  `EventSeen`: a
user interrupt wakes its reader.  The driver may rest in any state, so deadlock
is not checked.  The exceptions the properties name:

 - `irq_setup` failing in `xdma_device_open` leaves the handlers of earlier
   channels; in `xdma_device_online` its result is ignored.
 - A group of nodes (events, channels, bypass) that fails half-way leaves its
   earlier nodes, because its flag is set last.
 - A device whose regions are in use stays enabled; one removed while error
   recovery had disabled it is disabled twice.
 - `xdma_threads_create` that fails frees its table and leaves the threads it
   has started.
 - Taking a device online twice registers its legacy handler twice; in poll mode
   online restores no handler; a failure of module loading leaves the class and
   the cache; an ioctl may overlap with anything.
 - Nothing in the driver cancels or flushes `engine_service_work`.  With MSI or
   legacy interrupts one that was scheduled before `xdma_device_offline` or
   `xdma_device_close` disabled the interrupts enables its channel again
   afterwards (libxdma.c:1239), when the handler may be gone: the history
   `late_work`.  `Unmasked`, of which `UnmaskedHasHandler` and
   `NothingLeftBehind` speak, leaves out the channel interrupt then, never the
   user interrupts.  While a handler has masked a channel and its bottom half is
   on the way, `unmasked` counts it as enabled, which it is about to be.
 - `debug_check_dev_hndl` lets an ioctl pass until `xdev_list_remove`, so
   `irq_setup` of `xdma_device_online` may run after `irq_teardown` of
   `xdma_device_close`: the history `into_close`.  The handlers it registers,
   MSI-X ones too, outlive the device, and an interrupt it enables stays enabled.

### Fairness

 - Clocks run: weak fairness of the clock edge (`TriggerGate`, `PulseCounterIp`,
   `Cn0531`).  The bus master carries on with an access and takes responses;
   `usleep` returns.
 - `XdmaSync`: interrupts are delivered, work is scheduled, a caller that can
   go on does (weak); a mutex serves its waiters (strong, on `LockRing`); the
   hardware moves or fails; a device taken offline is brought back.  The timeout
   is not fair in `Spec`; `SubmitReturns` takes it as a hypothesis, which is a
   caller that passed `timeout_ms > 0`.
 - `XdmaAsync`: the polling thread is scheduled (weak).  The submitters, the
   bottom half, the hardware and a reset that has begun take finitely many
   steps, so weak fairness of their disjunction lets each finish.  The polling
   timeout is not fair.
 - `XdmaDevice`: an unmasked interrupt is delivered and a woken reader runs
   (weak).  No probe, reset or signal is promised, and no procedure that it ends.
 - `ClsServer` and `CopyService` claim safety only.

## Proofs

Each component that is proved about has a module of theorems.  Each rests on one
inductive invariant (`IInv`, or the one named), with the steps *Init implies it*,
*every action preserves it* (one lemma an action, or a group of actions with the
same effect), *it implies the property*.  TLC checked every invariant below on
the instance of its run before it was proved.  The theorems hold for every value
of the constants that satisfies the assumption named, so for any number of
callers, connections, probes and resets, any width and any length: the runs'
bounds `Max...` are arbitrary naturals in them.

**`TriggerGateProofs`**, from `WordSize > 1` and `Settings` a set of words that
contains zero.  `TypeCorrect`; `WindowCorrect` (`ExactWindow` and
`GatePinShowsGate`), `GatePinCorrect`.

 - The only arithmetic of the types is that an increment wraps (`IncWord`, in
   `PulseCounterProofs`, which holds what every clock does to the counter's
   types and is shared with `PulseCounterIpProofs`).
 - `ExactWindow` is not inductive: the length of a gate is known when it closes
   and must be carried through the window.  `WindowInProgress` does that: while
   the settings have not been touched, `phase` equals `trigger_count` in DELAY
   and `Span(TRIGGER_DLY, trigger_count)` in WIDTH and never exceeds its goal;
   and `trigger_count` is zero whenever the logic is idle, which is what closing
   the gate has to restore.  `SpanInc` is the fact behind the WIDTH step: one
   clock lengthens the span by one until the register arrives, across the wrap.

**`PulseCounterIpProofs`**, from `IpAssumption`: a word holds the two bits of
the configuration (`WordSize > 3`), and the pulses that occur do not wrap it
(`WordSize > 2 * MaxPulses + 2`: a clear leaves up to `MaxPulses` of before it in
the pipe; `ClearIsSeen` is about lag, and is not claimed of a count that has
wrapped).  `TypeCorrect`, `WritesAlwaysLand`, `ClearAlwaysSeen`,
`CountAlwaysRecent`.

 - `Queued`: what is left of a command is one of the firmware's sequences, and
   its last write of a register carries the value last commanded.
 - `Settled`: only the register being written may differ from that value.
 - `Ready`, `WriteBus`, `ReadBus`: where each access is between master and
   slave.  The clause that matters is that the slave's response comes when the
   register already holds the data, and that in `Wdata` the latched address is
   that of this access: the one without address is where the data came later.
 - `Flushed`: an upper bound on each of the registers a count passes
   (`pulse_count` and the pulse still in the sampler, `COUNT_DATA`, `slv_reg`,
   the reply), as far as the clear has got; the write of 0 that ends
   SetClrCount takes long enough for the pipe to drain before it is answered.
 - `Recent`: the lower bounds.

**`ClsServerProofs`**, from `ServerAssumption`: a message fits the buffer.
Segments may be of any length.  `TypeCorrect`, `BufferAlwaysFits`,
`ServedClientAlwaysOpen`, `ExecutedExactlyOnce`, `RepliesAlwaysAccounted`.

 - `Parsed`: less than a message is in the buffer between two callbacks.
   `Oversized`: a segment that was written past the buffer is longer than it, for
   any other one fits behind what is there or, after the check, at the front.
 - `Fresh`: a connection that was never accepted has delivered nothing.
 - As long as nothing has been lost or mixed (`~tainted`): `Framed`, the buffer
   is exactly the begun message of the one open connection; `Counted`, every
   whole message delivered was executed; `Answered`.
 - The model executes the messages of a segment at once, so the proof splits
   what is in the buffer into the messages it completes and a remainder
   (`Segment`, `DivMod` and the lemmas on them): after the loop the remainder is
   again `Pending`, unless a command halts the server in between.

**`Cn0531Proofs`**, from `DacAssumption`, `SpiAssumption` and `DelayAssumption`:
word length, clock ratio, delay and hold time are positive.  `TypeCorrect`,
`WordsAlwaysWhole`, `AlwaysConfiguredFirst`, `AlwaysSettlesFirst`.

 - `Commanded`: the GPIO holds the number of the last command.
 - `Shifting`: what is on the wire is what the shifter has sent of its word.
 - `Offered`: a word offered or taken over is one that is meant.
 - `Configuring`: until the DAC is configured the controller is in CONFIG, has
   not been told that a word is done, and only the configuration is in the
   shifter.  This is needed because the button restarts the controller and not
   the shifter: the word of before the restart is the same word.
 - `Settling`: the delay counter runs with the clocks spent in DELAY.

**`XdmaSyncProofs`**, from `EngineAssumption` (a ring and requests of some
length) and `ResetAssumption` (finitely many callers).  `ListAlwaysLive`,
`HardwareAlwaysOnHead`, `OfflineAlwaysQuiet`, `CountedAlwaysMoved`,
`TypeCorrect`, and `DriverImplementsService`, that the driver implements
`CopyService`.

 - `OneHolder`: `desc_lock` admits one caller.  It is why all else can be said
   of one transfer.
 - `Progress`: what a caller has built, counted and seen moved at each place of
   `xdma_xfer_submit`; in `wait` and `woken` what has been moved is what was
   counted and the descriptors the hardware has finished since.
 - `ChainsKept`: the chain of a transfer that is built and not answered is in
   the ring as written.
 - `ListInv`: the list is empty, or is the one transfer whose caller waits.
   It is claimed until a caller has freed a listed transfer (`Dangling`), and what
   follows from it is, too: after that nobody follows the list, so the engine is
   neither started nor serviced, and what was counted before stays true.
 - `RunInv`: the engine runs only with a transfer on its list and is at its
   next descriptor.  `AdminInv`: offline and online.
 - `engine_service_transfer_list` is defined with `DescSum`, whose value for
   lists of any length is not needed here: with `ListInv` the list has one element
   (`DescSumOne`, `ListUntouched`).
 - `UsedInv`, a second invariant on top, is for the bound of `desc_used` in
   `TypeOK`.  A transfer that `transfer_queue` refuses has its descriptors
   counted for ever; each reset can do that once for each caller in the driver
   at the time.
 - The refinement maps callers that hold the lock to the client served, and
   `Credited` to the credit.  Each step is one of CopyService's actions or a
   stutter; the case that needs `Progress` is a caller that gives up on a
   transfer of which some descriptors were moved.  The two steps that read a
   frozen device are `Break`.

**`XdmaAsyncProofs`**, from `AsyncAssumption` (a ring and segments of some
length, no segment longer than the ring) and, for the last, `FiniteAssumption`
(finitely many iocbs).  `ListedAlwaysLive`, `RingAlwaysIntact`,
`ReportedAlwaysMoved`, `TypeAlwaysOK`.

 - `Submitting`: how far each submitter is.  A segment it has not come to has no
   request; the present one has what was built of it.
 - `Listed`: what is on the list was queued, for a request that is live or was
   freed by a refusal, and the transfers of a request are in the order of their
   building.  So when the last transfer of a request is answered no other one of
   it is left behind on the list.
 - `Awaited`: a caio has counted exactly the completed segments, and is live as
   long as one is missing.  A listed transfer is of a segment that is missing
   (`OneMissing`).
 - The list is of any length.  `engine_service_transfer_list` answers a prefix of
   it (`TransferListFields`): that `Covered` chooses one follows from a
   least-element argument (`Least`, by the well-foundedness of `<`), without the
   value of `DescSum`.
 - `RingAlwaysIntact` needs a second invariant, `RingInv`, on top of the first.
   `Back(x)` is how far behind `desc_idx` the chain of transfer `x` begins.  In
   these coordinates the chains of the transfers held by the driver lie one behind
   the other in `1 .. desc_used` (`Placed`, `Apart`), and building a transfer moves
   them all by its length (`Shifted`), so that it meets none of them as long as
   there is room.  Returning descriptors only lowers `desc_used`; so the chains
   that are returned must be the oldest ones (`GoneOlder`).  That they are follows
   from the order of the list (`ListOrder`), of the transfers of a request
   (`OwnOrder`), from no other request being built between those (`Unbroken`,
   `NewestLast`; what the history `interleaved` excludes), and from `Ends`: a
   request that is built waits for its last transfer.  `GoneCount` is the counting
   argument that `desc_used` then still covers what is left.  TLC checked `RingInv`
   with a ring of four and requests of up to three descriptors.
 - `ReportedAlwaysMoved` is proved from the first two and two more.  `PartsInv`
   gives each transfer its part of the request: `Start(x)` is the first software
   descriptor of it, and the parts are disjoint and below `sw_desc_idx`.
   `ReportInv`, claimed as long as the exceptions of `ReportedIsMoved` did not
   occur, follows the count from the hardware to the iocb.  `Running`: a run is
   at the head of the list, and what it counts was moved of the transfer there.
   `Polled`: a write-back, in memory or read by the thread, is of the present
   run.  `Completes`: what a transfer answered as completed is of was moved.
   `Told`: the result of an iocb is within what was moved for the segments it has
   counted.  A difference `desc_count` that wraps is what would break it; that it
   does not wrap follows from `Running`, with `desc_dequeued` zero at the start of
   each run.  TLC checked it on the way with rings of three and four.
 - `TypeAlwaysOK` holds without exceptions, also of a ring that was overrun and
   of submitters that interleave, so it can use neither `RingInv` nor `ReportInv`.
   It has `TypeInv` on top of `IInv` and `PartsInv`.  `Counted`: `desc_used` is at
   least the number of descriptors of the transfers the driver holds, so what
   `transfer_destroy` returns was counted; it may be more, because the descriptors
   of a refused transfer are counted for ever.  `Dequeues`: the software
   descriptors not answered yet (`Unspent`: of segments to come, not built, or in a
   transfer listed or about to be) and `desc_dequeued` together are no more than
   all segments have, so `engine_service` counts each descriptor at most once in a
   run.  It rests on `SumCounts`, that `DescSum` of a list without repetitions is
   the number of descriptors of its transfers (by a least counterexample), and on
   `AnswerTakes`, that servicing answers a prefix of the list and adds no more than
   that prefix has.  `Within`: the hardware stays in the ring.  The last slot, if
   it holds a descriptor, stops a run (`transfer_init` cuts a chain there), and a
   run has counted no more than it has passed.  `Bounded`: a segment adds at most
   its descriptors to the result of the iocb.  TLC checked `TypeInv` first.
 - Looking for an inductive invariant showed two things about the model.  As first
   written, `ReportedIsMoved` was true within the run's bounds only: a bottom half
   from before a reset may find the engine busy with the transfer started again,
   which is now the history `early`.  And a request may come to need a third
   transfer, for which `struct xdma_request_cb` has no room; this is the run
   `two_transfers`.

**`XdmaDeviceProofs`**, from `DeviceAssumption`.  `TypeCorrect`,
`NothingStaysBehind`, `HandlersAlwaysHaveDevice`, `NodesAlwaysHaveDevice`,
`UnmaskedAlwaysHasHandler`, `AlwaysRecovered`.

 - The invariant says that there are a level `n`, 0 to 13, and a phase `c` with
   `Inv(n, c)`.  The level is the number of steps of `probe_one` done and not
   undone.  `Where`: the steps the PCI core has still to take, a suffix of one
   of the driver's procedures, determine level and phase.  `Held`: the level
   determines what is held.
 - `Ioctls`: an ioctl runs on a device that is open or being closed, and without
   `overlap` not beside the core.
 - `Enabled`, `Threads`: what earlier probes have left in the enable count and in
   the polling threads, at most one a probe (or one set of threads).
 - `Nodes`, `Handled`: nodes only of a present device, handlers only of one whose
   interrupts are set up, each but the shared one registered at most once.
 - `Counted`: the shared handler is registered at most once more than the device
   was taken online.  The resets begun and not yet at `irq_setup_again` count as
   used, because closing a device takes one handler away whether or not such a
   reset is pending.
 - `Cycled`: how far the device is offline or online, and what that leaves
   unmasked.  A bottom half on its way is of a channel that is unmasked, or was
   masked under it, which `seen` remembers; so what it enables changes `Unmasked`
   in no case.  A device without engines has none.
 - Two formulas had to be corrected: as first written, `TypeOK` and `Recovered`
   were true of one probe only.  A probe that finds the regions in use leaves the
   device enabled, and a later one adds to that; so the enable count is within
   `MaxProbes`, and `Recovered` claims `enabled = 1` only if neither that nor the
   removal of a frozen device occurred before.  TLC confirms the counterexamples
   with two probes, and the inductive invariant with one BAR, one probe and two
   resets.

### Only model-checked

 - Liveness under fairness, out of the prover's reach: `WindowEnds`,
   `CommandsEnd`, `ComesBack`, `IdleRequestsServed`, `CompletionIsSeen`,
   `SubmitReturns`, `AioCompletes`, `EventSeen`.
 - The violations, which are single behaviours.

## Not modelled

 - Floating point (`get_adc`: a voltage out of range becomes another voltage)
   and the text of commands and replies.
 - CONFIG_DATA and the LEDs, which nothing reads; RESET_N of the counter, which
   hangs on an undeclared net and stays inactive.
 - A frozen PCI channel in `XdmaAsync` and, but for the procedures of its
   recovery, in `XdmaDevice`: what registers read as then is in `XdmaSync` only.
 - Streaming channels, `eop_flush`, cyclic transfers, performance runs and
   `xdma_xfer_aperture` of the XDMA driver; DMA mapping, register access, mmap,
   bypass and XVC nodes, which keep no protocol state; user interrupts other
   than the first.
 - What the kernel does when it is asked to release something twice, or by a wrong
   pointer: the second `xpdev_destroy_interfaces` after a failed creation finds
   the flags still set and deletes its cdevs again (the model removes nothing
   then); `free_irq` of a line that is not registered warns; `async_io_handler`
   frees an element of the array of callbacks (cdev_sgdma.c:127).
 - Clock-domain metastability; timing of lwIP's timers (a tick during
   `tcp_fasttmr` is lost, main.c:240, which delays them by one).
 - The OLED controller: a fixed sequence over a shifter like the DAC's.
 - Vendored HDMI IP, tests and tools.

## Plan

The model is as wide as it is meant to be, and every invariant and every action
property that a run checks is a theorem.  What is left is `CopyService` by itself:
at most one client served, credit covered by copies.

## Running

    tlc -config MCTriggerGate.cfg MCTriggerGate      # and so on, see PROJECT.json
    tlapm TriggerGateProofs.tla                      # and the other *Proofs modules
                                                     # XdmaDeviceProofs and
                                                     # XdmaAsyncProofs take minutes
