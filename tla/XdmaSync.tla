------------------------------ MODULE XdmaSync ------------------------------
(***************************************************************************)
(* Blocking requests on one engine of the XDMA driver: several callers of  *)
(* xdma_xfer_submit, the interrupt handler and its bottom half, a device   *)
(* that is taken offline and online, a PCI channel that freezes, and the   *)
(* hardware, in every interleaving the two locks allow.                    *)
(*                                                                         *)
(* A caller passes through the points where another thread can run:        *)
(*   "out"    not in the driver                                            *)
(*   "enter"  past the offline check, waiting for engine->desc_lock        *)
(*   "init"   holding desc_lock, about to build the next transfer          *)
(*   "queue"  the transfer is built and about to be queued                 *)
(*   "admit"  past the offline check of transfer_queue, before its lock    *)
(*   "wait"   on the wait queue of the transfer                            *)
(*   "woken"  awake: completed, timed out or interrupted by a signal       *)
(* Everything between two points is one action.  engine->lock is held for  *)
(* one action, except by the bottom half: it reads the status and the      *)
(* count in two bus accesses, between which the hardware goes on.          *)
(***************************************************************************)
EXTENDS XdmaEngine, FiniteSets

CONSTANT MaxResets      \* bound: how often the device is taken offline

ASSUME ResetAssumption == MaxResets \in Nat /\ IsFiniteSet(Requests)

VARIABLES
    engine,      \* struct xdma_engine, its ring and registers
    pending,     \* engine->work is scheduled
    servicing,   \* the bottom half is between its two reads, lock held
    device,      \* progress of xdma_device_offline and xdma_device_online
    offline,     \* XDEV_FLAG_OFFLINE
    resets,      \* calls of xdma_device_offline so far
    pc,          \* where each caller is
    total,       \* sw_desc_cnt of its request
    next,        \* sw_desc_idx: software descriptors built so far
    done,        \* what it has been told is transferred
    moved,       \* history: the software descriptors the hardware moved
    frozen,      \* the PCI channel is frozen: no access reaches the device
    lost         \* history: what the driver took for granted while it was

driver  == <<engine, pending, servicing>>
channel == <<frozen, lost>>
admin   == <<device, offline, resets, channel>>
caller  == <<pc, total, next, done>>
vars    == <<driver, admin, caller, moved>>

Holding == {"init", "queue", "admit", "wait", "woken"}

\* Mutant: desc_lock is released while its holder waits for the transfer.
desc_lock_released == \A r \in Requests : pc[r] \notin Holding \ {"wait"}

desc_lock_free == \A r \in Requests : pc[r] \notin Holding
lock_free == ~servicing

\* transfer_list holds a transfer that has been freed (AbortedUnread).  Where
\* the driver would follow the list from there it reads freed memory, and the
\* thread is not followed: it stays where it is, with its locks.
Dangling == "abort" \in lost

\* A write to a frozen device is lost; the slot reset that ends the freeze
\* leaves the hardware idle, its interrupt masked and its status clear, and
\* none of that can be read before.
Reach(e) ==
    IF frozen THEN [e EXCEPT !.busy = FALSE, !.irq = FALSE, !.events = {}] ELSE e

\* A frozen device reads all ones.
AllOnes == Unsigned(-1)
StatusOnes == {"BUSY", "STOPPED", "ERROR"}

Init ==
    /\ engine = EngineInit
    /\ pending = FALSE /\ servicing = FALSE
    /\ device = "up" /\ offline = FALSE /\ resets = 0
    /\ pc = [r \in Requests |-> "out"]
    /\ total = [r \in Requests |-> 0]
    /\ next = [r \in Requests |-> 0]
    /\ done = [r \in Requests |-> 0]
    /\ moved = [r \in Requests |-> {}]
    /\ frozen = FALSE /\ lost = {}

-----------------------------------------------------------------------------
(* xdma_xfer_submit *)

\* The request is checked, mapped and split into software descriptors; an
\* offline device is -EBUSY at once, which changes nothing.
Submit(r, n) ==
    /\ pc[r] = "out"
    /\ ~offline
    /\ pc' = [pc EXCEPT ![r] = "enter"]
    /\ total' = [total EXCEPT ![r] = n]
    /\ UNCHANGED <<driver, admin, next, done, moved>>

\* mutex_lock(&engine->desc_lock)
LockRing(r) ==
    /\ pc[r] = "enter"
    /\ desc_lock_free
    /\ pc' = [pc EXCEPT ![r] = "init"]
    /\ UNCHANGED <<driver, admin, total, next, done, moved>>

\* transfer_init takes engine->lock.
Build(r) ==
    /\ pc[r] = "init"
    /\ lock_free
    /\ engine' = transfer_init(engine, r, next[r], total[r])
    /\ next' = [next EXCEPT ![r] = @ + ChainLength(engine, total[r] - @)]
    /\ pc' = [pc EXCEPT ![r] = "queue"]
    /\ UNCHANGED <<pending, servicing, admin, total, done, moved>>

\* The request leaves the driver: its record is freed.
Return(r) ==
    /\ pc' = [pc EXCEPT ![r] = "out"]
    /\ total' = [total EXCEPT ![r] = 0]
    /\ next' = [next EXCEPT ![r] = 0]
    /\ done' = [done EXCEPT ![r] = 0]
    /\ moved' = [moved EXCEPT ![r] = {}]

\* transfer_queue finds the device online.  XDEV_FLAG_OFFLINE has a lock of
\* its own: the device may go offline before engine->lock is taken.
CheckOnline(r) ==
    /\ pc[r] = "queue"
    /\ ~offline
    /\ pc' = [pc EXCEPT ![r] = "admit"]
    /\ UNCHANGED <<driver, admin, total, next, done, moved>>

\* It puts the transfer on the list and starts an idle engine.
Queue(r) ==
    /\ pc[r] = "admit"
    /\ lock_free
    /\ Accepts(engine)
    /\ ~Dangling
    /\ engine' = Reach(transfer_queue(engine, r))
    /\ pc' = [pc EXCEPT ![r] = "wait"]
    /\ UNCHANGED <<pending, servicing, admin, total, next, done, moved>>

\* It refuses the transfer, -EBUSY: the device is offline, or its engine is
\* being shut down.  The descriptors stay as transfer_init left them.
QueueRefused(r) ==
    /\ \/ pc[r] = "queue" /\ offline
       \/ pc[r] = "admit" /\ lock_free /\ ~Accepts(engine)
    /\ engine' = [engine EXCEPT !.xfer[r] = NoTransfer]
    /\ Return(r)
    /\ UNCHANGED <<pending, servicing, admin>>

\* wait_event: the transfer has been answered.
Wake(r) ==
    /\ pc[r] = "wait"
    /\ engine.xfer[r].state # "SUBMITTED"
    /\ pc' = [pc EXCEPT ![r] = "woken"]
    /\ UNCHANGED <<driver, admin, total, next, done, moved>>

\* wait_event: the timeout has expired, or a signal has come.
Timeout(r) ==
    /\ pc[r] = "wait"
    /\ pc' = [pc EXCEPT ![r] = "woken"]
    /\ UNCHANGED <<driver, admin, total, next, done, moved>>

\* The transfer was completed: its length counts, and the loop goes on with
\* the rest of the request.
Completed(r) ==
    /\ pc[r] = "woken"
    /\ lock_free
    /\ engine.xfer[r].state = "COMPLETED"
    /\ engine' = transfer_destroy(engine, r)
    /\ IF next[r] = total[r]
       THEN Return(r)
       ELSE /\ pc' = [pc EXCEPT ![r] = "init"]
            /\ done' = [done EXCEPT ![r] = next[r]]
            /\ UNCHANGED <<total, next, moved>>
    /\ UNCHANGED <<pending, servicing, admin>>

\* Mutant: a failed transfer is tried again, as long as it takes.
FailedRetried(r) ==
    /\ pc[r] = "woken"
    /\ lock_free
    /\ engine.xfer[r].state = "FAILED"
    /\ engine' = transfer_destroy(engine, r)
    /\ next' = [next EXCEPT ![r] = @ - engine.xfer[r].num]
    /\ pc' = [pc EXCEPT ![r] = "init"]
    /\ UNCHANGED <<pending, servicing, admin, total, done, moved>>

\* -EIO
Failed(r) ==
    /\ pc[r] = "woken"
    /\ lock_free
    /\ engine.xfer[r].state = "FAILED"
    /\ engine' = transfer_destroy(engine, r)
    /\ Return(r)
    /\ UNCHANGED <<pending, servicing, admin>>

\* Mutant: the engine goes on with the descriptors of the aborted transfer.
AbortedRunning(r) ==
    /\ pc[r] = "woken"
    /\ lock_free /\ ~frozen
    /\ engine.xfer[r].state \notin {"COMPLETED", "FAILED"}
    /\ engine' = transfer_destroy(transfer_abort(engine, r), r)
    /\ Return(r)
    /\ UNCHANGED <<pending, servicing, admin>>

\* -ERESTARTSYS: the transfer can still be in flight, so it is aborted and
\* the engine is stopped.
Aborted(r) ==
    /\ pc[r] = "woken"
    /\ lock_free /\ ~frozen
    /\ engine.xfer[r].state \notin {"COMPLETED", "FAILED"}
    /\ engine' = transfer_destroy(xdma_engine_stop(transfer_abort(engine, r)), r)
    /\ Return(r)
    /\ UNCHANGED <<pending, servicing, admin>>

\* The same, and engine_reg_dump does not find the id of the engine: the
\* transfer is neither aborted nor the engine stopped, yet the transfer is
\* destroyed and its request freed, while it is on the list.
AbortedUnread(r) ==
    /\ pc[r] = "woken"
    /\ lock_free /\ frozen
    /\ engine.xfer[r].state \notin {"COMPLETED", "FAILED"}
    /\ engine' = transfer_destroy(engine, r)
    /\ lost' = lost \cup {"abort"}
    /\ Return(r)
    /\ UNCHANGED <<pending, servicing, device, offline, resets, frozen>>

-----------------------------------------------------------------------------
(* Interrupts *)

\* The interrupt handler masks the interrupt and schedules the bottom half;
\* it is registered until xdma_device_offline tears it down.
xdma_isr ==
    /\ engine.irq /\ engine.events # {}
    /\ device \notin {"down", "resuming"}
    /\ engine' = [engine EXCEPT !.irq = FALSE]
    /\ pending' = TRUE
    /\ UNCHANGED <<servicing, admin, caller, moved>>

\* engine_service_work takes the lock and reads the status of the engine; an
\* engine that is not running needs no more than that.
ServiceStatus ==
    /\ pending /\ lock_free /\ ~frozen
    /\ pending' = FALSE
    /\ servicing' = engine.running
    /\ engine' = [service_status(engine) EXCEPT
                     !.irq = IF engine.running THEN @ ELSE TRUE]
    /\ UNCHANGED <<admin, caller, moved>>

\* Mutant: the interrupt stays masked.
ServiceTransfersMasked ==
    /\ servicing /\ ~frozen /\ ~Dangling
    /\ servicing' = FALSE
    /\ engine' = service_transfers(engine)
    /\ UNCHANGED <<pending, admin, caller, moved>>

\* It reads the count, answers the transfers and enables the interrupt.
ServiceTransfers ==
    /\ servicing /\ ~frozen /\ ~Dangling
    /\ servicing' = FALSE
    /\ engine' = [service_transfers(engine) EXCEPT !.irq = TRUE]
    /\ UNCHANGED <<pending, admin, caller, moved>>

\* The two reads of a bottom half on a frozen channel.  The status has every
\* bit set, so the engine passes for busy; the count passes for the end of
\* every transfer that is listed.
ServiceStatusFrozen ==
    /\ pending /\ lock_free /\ frozen
    /\ pending' = FALSE
    /\ servicing' = engine.running
    /\ engine' = [engine EXCEPT !.status = StatusOnes]
    /\ UNCHANGED <<admin, caller, moved>>

ServiceTransfersFrozen ==
    /\ servicing /\ frozen /\ ~Dangling
    /\ servicing' = FALSE
    /\ engine' = answer_transfers(engine, AllOnes)
    /\ lost' = lost \cup {"count"}
    /\ UNCHANGED <<pending, device, offline, resets, frozen, caller, moved>>

-----------------------------------------------------------------------------
(* xdma_device_offline and xdma_device_online *)

OfflineFlag ==
    /\ device = "up" /\ resets < MaxResets
    /\ device' = "stopping" /\ offline' = TRUE /\ resets' = resets + 1
    /\ UNCHANGED <<driver, channel, caller, moved>>

\* shutdown |= ENGINE_SHUTDOWN_REQUEST and xdma_engine_stop, under the lock.
OfflineStop ==
    /\ device = "stopping" /\ lock_free
    /\ engine' = xdma_engine_stop(
                     [engine EXCEPT !.shutdown = @ \cup {"REQUEST"}])
    /\ device' = "stopped"
    /\ UNCHANGED <<pending, servicing, offline, resets, channel, caller, moved>>

\* The interrupts are disabled and the handler is removed.
OfflineInterrupts ==
    /\ device = "stopped"
    /\ engine' = [engine EXCEPT !.irq = FALSE]
    /\ device' = "down"
    /\ UNCHANGED <<pending, servicing, offline, resets, channel, caller, moved>>

OnlineEngine ==
    /\ device = "down" /\ lock_free
    /\ engine' = [engine EXCEPT !.shutdown = @ \ {"REQUEST"}]
    /\ device' = "resuming"
    /\ UNCHANGED <<pending, servicing, offline, resets, channel, caller, moved>>

\* The handler is installed again, the interrupts are enabled and the flag is
\* cleared.
OnlineFlag ==
    /\ device = "resuming"
    /\ engine' = Reach([engine EXCEPT !.irq = TRUE])
    /\ device' = "up" /\ offline' = FALSE
    /\ UNCHANGED <<pending, servicing, resets, channel, caller, moved>>

-----------------------------------------------------------------------------
(* The hardware (external) *)

Move ==
    /\ engine.busy
    /\ engine.ring[engine.pos].magic
    /\ LET d == engine.ring[engine.pos]
       IN  moved' = [moved EXCEPT ![d.req] = @ \cup {d.index}]
    /\ engine' = HwMove(engine)
    /\ UNCHANGED <<pending, servicing, admin, caller>>

BusError ==
    /\ engine.busy
    /\ engine' = HwError(engine)
    /\ UNCHANGED <<pending, servicing, admin, caller, moved>>

\* The PCI channel freezes, at any time at which MaxResets leaves room for its
\* recovery: xdma_error_detected has the device taken offline, and the slot is
\* reset before it comes back.
Freeze ==
    /\ ~frozen /\ (device = "up" => resets < MaxResets)
    /\ frozen' = TRUE
    /\ engine' = [engine EXCEPT !.busy = FALSE, !.irq = FALSE, !.events = {}]
    /\ UNCHANGED <<pending, servicing, device, offline, resets, lost, caller, moved>>

SlotReset ==
    /\ frozen /\ device = "down"
    /\ frozen' = FALSE
    /\ UNCHANGED <<driver, device, offline, resets, lost, caller, moved>>

-----------------------------------------------------------------------------
Reset ==
    \/ OfflineFlag \/ OfflineStop \/ OfflineInterrupts
    \/ OnlineEngine \/ OnlineFlag

\* What a caller that holds desc_lock does of itself.
Proceed(r) ==
    \/ Build(r) \/ CheckOnline(r) \/ Queue(r) \/ QueueRefused(r)
    \/ Wake(r)
    \/ Completed(r) \/ Failed(r) \/ Aborted(r) \/ AbortedUnread(r)

Caller(r) ==
    \/ \E n \in 1 .. MaxDescs : Submit(r, n)
    \/ LockRing(r) \/ Timeout(r) \/ Proceed(r)

Next ==
    \/ \E r \in Requests : Caller(r)
    \/ xdma_isr \/ ServiceStatus \/ ServiceTransfers
    \/ ServiceStatusFrozen \/ ServiceTransfersFrozen
    \/ Reset
    \/ Move \/ BusError \/ Freeze \/ SlotReset

\* A thread that can go on does: the bottom half and the callers are scheduled,
\* interrupts are delivered, the mutex queues its waiters, and a device taken
\* offline is brought back.  Nothing is said of the timeout.
Fairness ==
    /\ WF_vars(xdma_isr)
    /\ WF_vars(ServiceStatus \/ ServiceStatusFrozen)
    /\ WF_vars(ServiceTransfers \/ ServiceTransfersFrozen)
    /\ WF_vars(Move \/ BusError)
    /\ WF_vars(Reset /\ device # "up")
    /\ \A r \in Requests :
          /\ SF_vars(LockRing(r))
          /\ WF_vars(Proceed(r))

Spec == Init /\ [][Next]_vars /\ Fairness

-----------------------------------------------------------------------------
(* Properties *)

MaxUsed == (MaxResets * Cardinality(Requests) + 1) * DescMax

(* struct xdma_engine and the requests are of their types: desc_idx stays in *)
(* the ring, desc_dequeued and the hardware's count within one run of it, and *)
(* desc_used exceeds the ring only by what refused transfers have leaked.    *)
TypeOK ==
    /\ engine \in
         [running : BOOLEAN, shutdown : SUBSET {"REQUEST", "IDLE"},
          list : Seq(Requests), dequeued : 0 .. DescMax,
          idx : Slots, used : 0 .. MaxUsed,
          status : SUBSET {"BUSY", "STOPPED", "ERROR"},
          ring : [Slots -> Descriptors], xfer : [Requests -> Transfers],
          busy : BOOLEAN, pos : Slots, count : 0 .. DescMax,
          events : SUBSET {"STOPPED", "ERROR"}, irq : BOOLEAN]
    /\ pending \in BOOLEAN /\ servicing \in BOOLEAN
    /\ device \in {"up", "stopping", "stopped", "down", "resuming"}
    /\ offline \in BOOLEAN /\ resets \in 0 .. MaxResets
    /\ pc \in [Requests -> Holding \cup {"out", "enter"}]
    /\ total \in [Requests -> 0 .. MaxDescs]
    /\ next \in [Requests -> 0 .. MaxDescs]
    /\ done \in [Requests -> 0 .. MaxDescs]
    /\ moved \in [Requests -> SUBSET (0 .. MaxDescs - 1)]
    /\ frozen \in BOOLEAN /\ lost \in SUBSET {"count", "abort"}

\* Whatever xdma_xfer_submit counts as transferred the hardware has moved: a
\* transfer that timed out, failed or was overtaken by the interrupt of an
\* earlier one never adds to the count that the caller is given.  The one
\* exception is a bottom half that has read its count from a frozen device.
CountedIsMoved ==
    "count" \notin lost =>
    \A r \in Requests :
        /\ 0 .. done[r] - 1 \subseteq moved[r]
        /\ engine.xfer[r].state = "COMPLETED" => 0 .. next[r] - 1 \subseteq moved[r]

\* The list of the engine holds only transfers somebody waits for: none of
\* them is in a request that xdma_request_free has released.  The one exception
\* is a caller that gives up on a frozen channel: it frees its transfer without
\* aborting it.
ListIsLive ==
    ~Dangling =>
    \A i \in 1 .. Len(engine.list) :
        /\ pc[engine.list[i]] \in {"wait", "woken"}
        /\ engine.xfer[engine.list[i]].state = "SUBMITTED"

\* The hardware works only on the transfer at the head of the list, and the
\* rest of its chain is in the ring as transfer_init wrote it, unless a caller
\* has freed its transfer on a frozen channel.
HardwareOnHead ==
    ~Dangling /\ engine.busy =>
        /\ engine.running
        /\ engine.list # <<>>
        /\ LET x == engine.xfer[Head(engine.list)]
               end == x.first + x.num - 1
           IN  /\ engine.pos \in x.first .. end
               /\ engine.pos = x.first + engine.count
               /\ \A i \in engine.pos .. end :
                     /\ engine.ring[i].magic
                     /\ engine.ring[i].req = Head(engine.list)
                     /\ engine.ring[i].last = (i = end)

\* From the moment xdma_device_offline has stopped the engine until the device
\* is online again, nothing starts it: not a request that passed the offline
\* check, not the bottom half of an interrupt taken before.
OfflineIsQuiet == device \in {"stopped", "down"} => ~engine.running /\ ~engine.busy

\* One of the callers.  Nothing tells them apart, so that what is shown of this
\* one among the others is shown of each.
caller1 == CHOOSE r \in Requests : TRUE

\* The hardware has run the chain of r's transfer to its end.
Finished(r) ==
    /\ engine.running /\ ~engine.busy
    /\ engine.list # <<>> /\ Head(engine.list) = r
    /\ engine.count = engine.xfer[r].num

\* No completion is lost: when the hardware has finished a transfer, the
\* caller is answered without the help of its timeout, unless the
\* device is taken offline or the channel freezes meanwhile.
CompletionIsSeen ==
    Finished(caller1)
    ~> (engine.xfer[caller1].state # "SUBMITTED" \/ device # "up" \/ frozen)

\* With a timeout every request that enters the driver returns, whatever the
\* hardware and the device do, unless one is freed while it is on the list.
SubmitReturns ==
    (\A r \in Requests : WF_vars(Timeout(r))) =>
        (pc[caller1] = "enter" ~> (pc[caller1] = "out" \/ Dangling))

\* What a request has been credited with: the transfers it has seen completed,
\* and the one that engine_service has just answered.
Credited(r) == IF engine.xfer[r].state = "COMPLETED" THEN next[r] ELSE done[r]

Service == INSTANCE CopyService WITH
    Clients  <- Requests,
    MaxItems <- MaxDescs,
    waiting  <- {r \in Requests : pc[r] = "enter"},
    serving  <- {r \in Requests : pc[r] \in Holding},
    size     <- total,
    copied   <- moved,
    credit   <- [r \in Requests |-> Credited(r)],
    broken   <- lost # {}

\* The driver implements the service that CopyService describes: every step of
\* a caller, of the bottom half, of a reset and of the hardware is a step of
\* that service or leaves it alone.  So the hardware moves only descriptors of
\* the request that holds desc_lock, in their order, no late interrupt credits
\* one request with what was moved for another, and nobody is served before the
\* last one is through with the ring.  The service is broken by a register of a
\* frozen device that was taken for what it read, and by nothing else.
ServiceImplemented == Service!Spec
=============================================================================
