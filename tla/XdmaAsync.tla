------------------------------ MODULE XdmaAsync -----------------------------
(***************************************************************************)
(* Asynchronous requests (io_submit) on one engine of the XDMA driver:     *)
(* several submitters in cdev_aio_read or cdev_aio_write, the completion   *)
(* of their transfers by the bottom half of the interrupt or, in poll      *)
(* mode, by the thread that watches the write-back of the hardware, and a  *)
(* device that is taken offline and online.                                *)
(*                                                                         *)
(* An iocb has segments (struct iovec), each of which becomes one request  *)
(* (struct xdma_request_cb) of one or two transfers: two when its chain    *)
(* reaches the end of the ring.  Unlike a blocking request it is built     *)
(* without engine->desc_lock.  A submitter passes through the points       *)
(*   "out"     not submitted yet                                           *)
(*   "seg"     about to prepare segment cur of the iocb                    *)
(*   "build", "queue", "admit"   as in XdmaSync                            *)
(*   "wake"    all segments handled, about to wake the polling thread      *)
(*   "queued"  returned -EIOCBQUEUED                                       *)
(*   "failed"  returned an error                                           *)
(* and the polling thread through                                          *)
(*   "check"   about to look for a transfer on the list                    *)
(*   "sleep"   waiting for thp->schedule                                   *)
(*   "proc"    about to read the number of descriptors to wait for         *)
(*   "poll"    reading the write-back, "clear" about to zero what it read  *)
(*   "service" about to service the engine, "answer" between its accesses  *)
(*                                                                         *)
(* Memory that the code uses after freeing it (a transfer whose request    *)
(* was freed by a refused submission, a caio freed by a misaligned         *)
(* segment) is taken to keep its contents.                                 *)
(***************************************************************************)
EXTENDS Integers, Sequences, FiniteSets

CONSTANTS
    Iocbs,         \* the asynchronous operations
    MaxSegs,       \* bound on the segments of each iocb
    DescMax,       \* engine->desc_max, the size of the ring
    MaxDescs,      \* bound on sw_desc_cnt, the descriptors of one segment
    MaxUsed,       \* bound on desc_used, which the driver does not bound
    MaxFaults      \* bound on what goes wrong: see Fault

\* Requests are no longer than the ring: then two transfers, as many as struct
\* xdma_request_cb has room for, are enough for a request built by itself.
ASSUME AsyncAssumption ==
    /\ MaxSegs \in [Iocbs -> Nat \ {0}]
    /\ MaxDescs \in Nat \ {0} /\ MaxUsed \in Nat /\ MaxFaults \in Nat
    /\ DescMax \in Nat /\ MaxDescs <= DescMax

\* Finitely many iocbs are submitted.
ASSUME FiniteAssumption == IsFiniteSet(Iocbs)

Segs  == UNION {{i} \X (1 .. MaxSegs[i]) : i \in Iocbs}
Xfers == Segs \X {0, 1}

INSTANCE XdmaEngine WITH Requests <- Xfers

VARIABLES
    poll_mode,   \* the module parameter
    engine,      \* struct xdma_engine, its ring and registers
    pending,     \* engine->work is scheduled
    servicing,   \* engine_service is between its two bus accesses, lock held
    thread,      \* the polling thread
    schedule,    \* thp->schedule
    expected,    \* the descriptors engine_service_wb_monitor waits for
    wb,          \* struct xdma_poll_wb, written by the hardware
    got,         \* what the thread has read of it
    device,      \* progress of xdma_device_offline and xdma_device_online
    offline,     \* XDEV_FLAG_OFFLINE
    faults,      \* the faults so far
    pc, cur,     \* where each submitter is, and at which segment
    caio,        \* struct cdev_async_io of each iocb
    req,         \* struct xdma_request_cb of each segment
    moved,       \* history: the software descriptors the hardware moved
    seen         \* history: "overrun", "interleaved", "error", "reset", "early"

driver == <<poll_mode, engine, pending, servicing>>
poller == <<thread, schedule, expected, got>>
admin  == <<device, offline>>
submit == <<pc, cur>>
requests == <<caio, req>>
vars == <<driver, poller, wb, admin, submit, requests, moved, seen, faults>>

lock_free == ~servicing

NoWb == [count |-> 0, err |-> FALSE]

NoCaio == [live |-> FALSE, req_cnt |-> 0, cmpl_cnt |-> 0, res |-> 0,
           told |-> FALSE]

\* A request: the software descriptors in all and built, the transfers built.
NoReq == [live |-> FALSE, total |-> 0, next |-> 0, tfer |-> 0]

\* The engine has been in use: desc_idx is anywhere in the ring.
Init ==
    /\ poll_mode \in BOOLEAN
    /\ engine = [EngineInit EXCEPT !.idx = DescMax - 1]
    /\ pending = FALSE /\ servicing = FALSE
    /\ thread = "sleep" /\ schedule = FALSE /\ expected = 0
    /\ wb = NoWb /\ got = NoWb
    /\ device = "up" /\ offline = FALSE /\ faults = 0
    /\ pc = [i \in Iocbs |-> "out"] /\ cur = [i \in Iocbs |-> 1]
    /\ caio = [i \in Iocbs |-> NoCaio]
    /\ req = [s \in Segs |-> NoReq]
    /\ moved = [s \in Segs |-> {}]
    /\ seen = {}

-----------------------------------------------------------------------------
(* cdev_aio_read, cdev_aio_write *)

Seg(i) == <<i, cur[i]>>

\* The transfer the submitter of i works on: the last one it has built.
Xfer(i) == <<Seg(i), req[Seg(i)].tfer - 1>>

\* One of the things that may go wrong at most MaxFaults times in a behaviour:
\* a segment that is not accepted, a bus error, the device taken offline.
Fault == faults < MaxFaults /\ faults' = faults + 1

\* The loop goes on with the next segment, whatever became of this one.
NextSegment(i) ==
    IF cur[i] < caio[i].req_cnt
    THEN pc' = [pc EXCEPT ![i] = "seg"] /\ cur' = [cur EXCEPT ![i] = @ + 1]
    ELSE pc' = [pc EXCEPT ![i] = "wake"] /\ UNCHANGED cur

AioStart(i, n) ==
    /\ pc[i] = "out"
    /\ caio' = [caio EXCEPT ![i] = [NoCaio EXCEPT !.live = TRUE, !.req_cnt = n]]
    /\ pc' = [pc EXCEPT ![i] = "seg"]
    /\ UNCHANGED <<driver, poller, wb, admin, cur, req, moved, seen, faults>>

\* A misaligned segment: the caio is freed, also when earlier segments of it
\* are queued.
AlignFailed(i) ==
    /\ pc[i] = "seg"
    /\ caio' = [caio EXCEPT ![i].live = FALSE]
    /\ pc' = [pc EXCEPT ![i] = "failed"]
    /\ Fault
    /\ UNCHANGED <<driver, poller, wb, admin, cur, req, moved, seen>>

\* The pages of the segment cannot be pinned: the caio stays allocated.
MapFailed(i) ==
    /\ pc[i] = "seg"
    /\ pc' = [pc EXCEPT ![i] = "failed"]
    /\ Fault
    /\ UNCHANGED <<driver, poller, wb, admin, cur, requests, moved, seen>>

\* xdma_xfer_submit_nowait gives up before it builds a transfer: the device
\* is offline, or the request cannot be mapped or allocated.  Its result is
\* not looked at.
SubmitRefused(i) ==
    /\ pc[i] = "seg"
    /\ IF offline THEN UNCHANGED faults ELSE Fault
    /\ NextSegment(i)
    /\ UNCHANGED <<driver, poller, wb, admin, requests, moved, seen>>

\* It has a request of n software descriptors (xdma_init_request).
Submit(i, n) ==
    /\ pc[i] = "seg"
    /\ ~offline
    /\ req' = [req EXCEPT ![Seg(i)] = [NoReq EXCEPT !.live = TRUE, !.total = n]]
    /\ pc' = [pc EXCEPT ![i] = "build"]
    /\ UNCHANGED <<driver, poller, wb, admin, cur, caio, moved, seen, faults>>

\* What is new for the histories when `num' descriptors are built for i.
Overrun(num) == IF engine.used + num > DescMax THEN {"overrun"} ELSE {}
Interleaved(i) ==
    IF \E j \in Iocbs \ {i} :
          \/ pc[j] \in {"queue", "admit"}
          \/ pc[j] = "build" /\ req[Seg(j)].tfer > 0
    THEN {"interleaved"} ELSE {}

\* The transfers of struct xdma_request_cb.  tfer_idx is not compared with it:
\* a behaviour in which a request has a third transfer is not followed further.
MaxTfer == 2

\* transfer_init takes engine->lock, and no more than that.
Build(i) ==
    /\ pc[i] = "build"
    /\ lock_free
    /\ req[Seg(i)].tfer < MaxTfer
    /\ LET s == Seg(i)
           r == req[s]
           num == ChainLength(engine, r.total - r.next)
       IN  /\ engine.used + num <= MaxUsed
           /\ engine' = transfer_init(engine, <<s, r.tfer>>, r.next, r.total)
           /\ req' = [req EXCEPT ![s].next = @ + num, ![s].tfer = @ + 1]
           /\ seen' = seen \cup Overrun(num) \cup Interleaved(i)
    /\ pc' = [pc EXCEPT ![i] = "queue"]
    /\ UNCHANGED <<poll_mode, pending, servicing, poller, wb, admin, cur, caio, moved, faults>>

\* transfer_queue finds the device online, before it takes engine->lock.
CheckOnline(i) ==
    /\ pc[i] = "queue"
    /\ ~offline
    /\ pc' = [pc EXCEPT ![i] = "admit"]
    /\ UNCHANGED <<driver, poller, wb, admin, cur, requests, moved, seen, faults>>

\* The transfer is on the list; the rest of the request is next.
Queue(i) ==
    /\ pc[i] = "admit"
    /\ lock_free
    /\ Accepts(engine)
    /\ engine' = transfer_queue(engine, Xfer(i))
    /\ IF req[Seg(i)].next < req[Seg(i)].total
       THEN pc' = [pc EXCEPT ![i] = "build"] /\ UNCHANGED cur
       ELSE NextSegment(i)
    /\ UNCHANGED <<poll_mode, pending, servicing, poller, wb, admin, requests, moved, seen, faults>>

\* transfer_queue refuses: the request is freed, with its earlier transfer on
\* the list when it has one.
QueueRefused(i) ==
    /\ \/ pc[i] = "queue" /\ offline
       \/ pc[i] = "admit" /\ lock_free /\ ~Accepts(engine)
    /\ engine' = [engine EXCEPT !.xfer[Xfer(i)] = NoTransfer]
    /\ req' = [req EXCEPT ![Seg(i)] = NoReq]
    /\ NextSegment(i)
    /\ UNCHANGED <<poll_mode, pending, servicing, poller, wb, admin, caio, moved, seen, faults>>

\* Mutant: the polling thread is not woken.
WakeupForgotten(i) ==
    /\ pc[i] = "wake"
    /\ pc' = [pc EXCEPT ![i] = "queued"]
    /\ UNCHANGED <<driver, poller, wb, admin, cur, requests, moved, seen, faults>>

\* xdma_kthread_wakeup; only in poll mode has the engine a thread.
Wakeup(i) ==
    /\ pc[i] = "wake"
    /\ schedule' = (schedule \/ poll_mode)
    /\ pc' = [pc EXCEPT ![i] = "queued"]
    /\ UNCHANGED <<driver, thread, expected, got, wb, admin, cur, requests, moved, seen, faults>>

-----------------------------------------------------------------------------
(* Completion, within engine_service and under engine->lock *)

\* Mutant: every transfer of a request is its last.
IsLastEach(x) == TRUE

\* last_in_request
IsLast(x) == req[x[1]].next = req[x[1]].total /\ x[2] = req[x[1]].tfer - 1

\* The segments whose last transfer engine_service has answered by going from
\* engine to e: io_done is called for them.
Done(e) ==
    LET answered == SubSeq(engine.list, 1, Len(engine.list) - Len(e.list))
    IN  {s \in Segs : \E k \in 1 .. Len(answered) :
                          answered[k][1] = s /\ IsLast(answered[k])}

\* The transfers of s that xdma_xfer_completion looks at: it stops after the
\* first that has not been completed.  (The branch for one still in flight is
\* not reached: the list answers the transfers of a request in their order.)
Looked(e, s) ==
    {k \in 0 .. req[s].tfer - 1 :
        \A j \in 0 .. k - 1 : e.xfer[<<s, j>>].state = "COMPLETED"}

\* The descriptors of transfers X, to be counted.
Descs(e, X) == UNION {{x} \X (1 .. e.xfer[x].num) : x \in X}

\* Its result: the descriptors of those that were completed.
Transferred(e, s) ==
    Descs(e, {x \in {s} \X Looked(e, s) : e.xfer[x].state = "COMPLETED"})

\* Mutant: one descriptor more than the transfer has is returned.
xdma_xfer_completion_long(e) ==
    LET gone == UNION {{s} \X Looked(e, s) : s \in Done(e)}
        Of(x) == e.xfer[x].first .. e.xfer[x].first + e.xfer[x].num
    IN  [e EXCEPT
            !.used = @ - Cardinality(Descs(e, gone)),
            !.ring = [i \in Slots |-> IF \E x \in gone : i \in Of(x)
                                      THEN NoDescriptor ELSE e.ring[i]],
            !.xfer = [x \in Xfers |-> IF x[1] \in Done(e) THEN NoTransfer
                                      ELSE e.xfer[x]]]

\* The transfers it looks at are destroyed and their descriptors returned.
xdma_xfer_completion(e) ==
    LET gone == UNION {{s} \X Looked(e, s) : s \in Done(e)}
        Of(x) == e.xfer[x].first .. e.xfer[x].first + e.xfer[x].num - 1
    IN  [e EXCEPT
            !.used = @ - Cardinality(Descs(e, gone)),
            !.ring = [i \in Slots |-> IF \E x \in gone : i \in Of(x)
                                      THEN NoDescriptor ELSE e.ring[i]],
            !.xfer = [x \in Xfers |-> IF x[1] \in Done(e) THEN NoTransfer
                                      ELSE e.xfer[x]]]

\* The caio counts its segments; the last one reports the sum and frees it.
async_io_handler(e) ==
    [i \in Iocbs |->
        LET segs == {s \in Done(e) : s[1] = i}
            cmpl == caio[i].cmpl_cnt + Cardinality(segs)
            told == segs # {} /\ cmpl = caio[i].req_cnt
        IN  [caio[i] EXCEPT
                !.cmpl_cnt = cmpl,
                !.res = @ + Cardinality(UNION {Transferred(e, s) : s \in segs}),
                !.told = @ \/ told,
                !.live = @ /\ ~told]]

\* engine_service has brought the engine to e; the requests it has finished
\* are completed.
Complete(e) ==
    /\ engine' = xdma_xfer_completion(e)
    /\ caio' = async_io_handler(e)
    /\ req' = [s \in Segs |-> IF s \in Done(e)
                              THEN [req[s] EXCEPT !.live = FALSE] ELSE req[s]]

-----------------------------------------------------------------------------
(* Interrupt mode *)

xdma_isr ==
    /\ ~poll_mode /\ device # "down"
    /\ engine.irq /\ engine.events # {}
    /\ engine' = [engine EXCEPT !.irq = FALSE]
    /\ pending' = TRUE
    /\ UNCHANGED <<poll_mode, servicing, poller, wb, admin, submit, requests, moved, seen, faults>>

\* engine_service_work
ServiceStatus ==
    /\ pending /\ lock_free
    /\ pending' = FALSE
    /\ servicing' = engine.running
    /\ engine' = [service_status(engine) EXCEPT
                     !.irq = IF engine.running THEN @ ELSE TRUE]
    /\ seen' = seen \cup (IF engine.busy THEN {"early"} ELSE {})
    /\ UNCHANGED <<poll_mode, poller, wb, admin, submit, requests, moved, faults>>

ServiceTransfers ==
    /\ servicing /\ ~poll_mode
    /\ servicing' = FALSE
    /\ \E e \in {service_transfers(engine)} :
           Complete([e EXCEPT !.irq = TRUE])
    /\ UNCHANGED <<poll_mode, pending, poller, wb, admin, submit, moved, seen, faults>>

-----------------------------------------------------------------------------
(* Poll mode: xthread_main and engine_service_poll *)

\* xthread_work_pending takes engine->lock for a look at the list.
PollCheck ==
    /\ poll_mode /\ thread = "check" /\ lock_free
    /\ thread' = IF engine.list = <<>> THEN "sleep" ELSE "proc"
    /\ schedule' = (schedule /\ engine.list = <<>>)
    /\ UNCHANGED <<driver, expected, got, wb, admin, submit, requests, moved, seen, faults>>

\* wait_event_interruptible(thp->waitq, thp->schedule)
PollWake ==
    /\ poll_mode /\ thread = "sleep" /\ schedule
    /\ schedule' = FALSE /\ thread' = "proc"
    /\ UNCHANGED <<driver, expected, got, wb, admin, submit, requests, moved, seen, faults>>

\* xdma_thread_cmpl_status_proc.  On an empty list the entry it reads is the
\* list head itself, and desc_cmpl_th a spinlock nobody holds: zero, for which
\* engine_service_wb_monitor does not wait.
PollProc ==
    /\ thread = "proc"
    /\ IF engine.list = <<>>
       THEN expected' = 0 /\ thread' = "check"
       ELSE expected' = engine.xfer[Head(engine.list)].num /\ thread' = "poll"
    /\ UNCHANGED <<driver, schedule, got, wb, admin, submit, requests, moved, seen, faults>>

\* engine_service_wb_monitor reads the write-back and ...
PollRead ==
    /\ thread = "poll" /\ wb # NoWb
    /\ got' = wb /\ thread' = "clear"
    /\ UNCHANGED <<driver, schedule, expected, wb, admin, submit, requests, moved, seen, faults>>

\* ... clears it, whatever the hardware has written meanwhile.  An error or
\* enough descriptors end the wait, and so does the timeout.
PollClear ==
    /\ thread = "clear"
    /\ wb' = NoWb
    /\ IF got.err \/ got.count >= expected THEN thread' = "service"
       ELSE thread' \in {"poll", "service"}
    /\ UNCHANGED <<driver, schedule, expected, got, admin, submit, requests, moved, seen, faults>>

\* engine_service_poll returns: the thread goes round again.
PollReturn == thread' = "check" /\ expected' = 0 /\ got' = NoWb

\* POLL_TIMEOUT_SECONDS have passed without a write-back.
PollTimeout ==
    /\ thread = "poll" /\ wb = NoWb
    /\ PollReturn
    /\ UNCHANGED <<driver, schedule, wb, admin, submit, requests, moved, seen, faults>>

\* engine_service(engine, desc_wb) up to the count: the status is read only
\* on an error, and a count stops the engine.
poll_status(e) ==
    LET read == IF got.err THEN engine_status_read(e) ELSE e
    IN  IF "BUSY" \notin read.status \/ got.count # 0
        THEN engine_service_shutdown(read) ELSE read

PollStatus ==
    /\ thread = "service" /\ lock_free
    /\ IF engine.running
       THEN /\ engine' = poll_status(engine)
            /\ servicing' = TRUE /\ thread' = "answer"
            /\ UNCHANGED <<expected, got>>
       ELSE /\ engine' = engine_status_read(engine)
            /\ servicing' = FALSE /\ PollReturn
    /\ UNCHANGED <<poll_mode, pending, schedule, wb, admin, submit, requests, moved, seen, faults>>

\* The rest of it; the count of the hardware is read when the write-back has none.
PollAnswer ==
    /\ thread = "answer"
    /\ servicing' = FALSE /\ PollReturn
    /\ \E e \in {answer_transfers(engine, IF got.count # 0 THEN got.count
                                         ELSE engine.count)} : Complete(e)
    /\ UNCHANGED <<poll_mode, pending, schedule, wb, admin, submit, moved, seen, faults>>

-----------------------------------------------------------------------------
(* xdma_device_offline and xdma_device_online *)

OfflineFlag ==
    /\ device = "up" 
    /\ device' = "stopping" /\ offline' = TRUE /\ seen' = seen \cup {"reset"} /\ Fault
    /\ UNCHANGED <<driver, poller, wb, submit, requests, moved>>

\* The engine is stopped under its lock; then the interrupts are disabled and
\* the handler is removed.
OfflineStop ==
    /\ device = "stopping" /\ lock_free
    /\ engine' = [xdma_engine_stop(engine) EXCEPT !.shutdown = @ \cup {"REQUEST"},
                                                  !.irq = FALSE]
    /\ device' = "down"
    /\ UNCHANGED <<poll_mode, pending, servicing, poller, wb, offline, submit, requests, moved, seen, faults>>

\* engine_init_regs clears the write-back and enables the interrupt.
Online ==
    /\ device = "down" /\ lock_free
    /\ engine' = [engine EXCEPT !.shutdown = @ \ {"REQUEST"}, !.irq = TRUE]
    /\ wb' = IF poll_mode THEN NoWb ELSE wb
    /\ device' = "up" /\ offline' = FALSE
    /\ UNCHANGED <<poll_mode, pending, servicing, poller, submit, requests, moved, seen, faults>>

-----------------------------------------------------------------------------
(* The hardware (external): in poll mode it writes its count back when the *)
(* last descriptor of a chain is done, and on an error; a descriptor       *)
(* without magic is an error always.                                       *)

Move ==
    /\ engine.busy
    /\ engine.ring[engine.pos].magic
    /\ LET d == engine.ring[engine.pos]
       IN  /\ moved' = [moved EXCEPT ![d.req[1]] = @ \cup {d.index}]
           /\ wb' = IF poll_mode /\ d.last
                    THEN [count |-> engine.count + 1, err |-> FALSE] ELSE wb
    /\ engine' = HwMove(engine)
    /\ UNCHANGED <<poll_mode, pending, servicing, poller, admin, submit, requests, seen, faults>>

BusError ==
    /\ engine.busy
    /\ engine' = HwError(engine)
    /\ wb' = IF poll_mode THEN [count |-> engine.count, err |-> TRUE] ELSE wb
    /\ seen' = seen \cup {"error"}
    /\ IF engine.ring[engine.pos].magic THEN Fault ELSE UNCHANGED faults
    /\ UNCHANGED <<poll_mode, pending, servicing, poller, admin, submit, requests, moved>>

-----------------------------------------------------------------------------
\* What a submitter does once it has started.
Proceed(i) ==
    \/ AlignFailed(i) \/ MapFailed(i) \/ SubmitRefused(i)
    \/ \E n \in 1 .. MaxDescs : Submit(i, n)
    \/ Build(i) \/ CheckOnline(i) \/ Queue(i) \/ QueueRefused(i) \/ Wakeup(i)

Interrupts == xdma_isr \/ ServiceStatus \/ ServiceTransfers

Poll ==
    \/ PollCheck \/ PollWake \/ PollProc \/ PollRead \/ PollClear
    \/ PollStatus \/ PollAnswer

Hardware == Move \/ BusError

Next ==
    \/ \E i \in Iocbs : \/ \E n \in 1 .. MaxSegs[i] : AioStart(i, n)
                        \/ Proceed(i)
    \/ Interrupts
    \/ Poll \/ PollTimeout
    \/ OfflineFlag \/ OfflineStop \/ Online
    \/ Hardware

\* The polling thread is scheduled.  Of the submitters, the bottom half, the
\* hardware and a reset that has begun, one goes on as long as one can: their
\* steps are finitely many, so that each of them gets its turn.
Fairness ==
    /\ WF_vars(Poll)
    /\ WF_vars(\/ \E i \in Iocbs : Proceed(i)
               \/ Interrupts
               \/ OfflineStop \/ Online
               \/ Hardware)

Spec == Init /\ [][Next]_vars /\ Fairness

-----------------------------------------------------------------------------
(* Properties *)

(* The engine, the write-back and the requests are of their types: desc_idx   *)
(* stays in the ring, and desc_used never falls below zero, so no transfer is *)
(* given back twice.                                                          *)
TypeOK ==
    /\ engine \in
         [running : BOOLEAN, shutdown : SUBSET {"REQUEST", "IDLE"},
          list : Seq(Xfers), dequeued : 0 .. Cardinality(Segs) * MaxDescs,
          idx : Slots, used : 0 .. MaxUsed,
          status : SUBSET {"BUSY", "STOPPED", "ERROR"},
          ring : [Slots -> Descriptors], xfer : [Xfers -> Transfers],
          busy : BOOLEAN, pos : Slots, count : 0 .. DescMax,
          events : SUBSET {"STOPPED", "ERROR"}, irq : BOOLEAN]
    /\ poll_mode \in BOOLEAN /\ pending \in BOOLEAN /\ servicing \in BOOLEAN
    /\ thread \in {"check", "sleep", "proc", "poll", "clear", "service", "answer"}
    /\ schedule \in BOOLEAN /\ expected \in 0 .. DescMax
    /\ wb \in [count : 0 .. DescMax, err : BOOLEAN]
    /\ got \in [count : 0 .. DescMax, err : BOOLEAN]
    /\ device \in {"up", "stopping", "down"} /\ offline \in BOOLEAN
    /\ faults \in 0 .. MaxFaults
    /\ pc \in [Iocbs -> {"out", "seg", "build", "queue", "admit", "wake",
                         "queued", "failed"}]
    /\ cur \in [Iocbs -> Nat] /\ \A i \in Iocbs : Seg(i) \in Segs
    /\ \A i \in Iocbs :
          caio[i] \in [live : BOOLEAN, req_cnt : 0 .. MaxSegs[i],
                       cmpl_cnt : 0 .. MaxSegs[i], res : 0 .. MaxSegs[i] * MaxDescs,
                       told : BOOLEAN]
    /\ req \in [Segs -> [live : BOOLEAN, total : 0 .. MaxDescs,
                         next : 0 .. MaxDescs, tfer : 0 .. MaxTfer]]
    /\ moved \in [Segs -> SUBSET (0 .. MaxDescs - 1)]
    /\ seen \subseteq {"overrun", "interleaved", "error", "reset", "early"}

\* Requests are built one at a time, as desc_lock makes blocking ones, and the
\* descriptors in use have never been more than the ring has.
Orderly == seen \cap {"overrun", "interleaved"} = {}

\* As long as no more descriptors are in use than the ring has, which the
\* driver does not check, and no two submitters are between transfer_init and
\* transfer_queue at once, building a transfer overwrites no other: every
\* transfer on the list has its chain in the ring as it was built.
RingIntact ==
    Orderly =>
        \A k \in 1 .. Len(engine.list) :
            LET x == engine.xfer[engine.list[k]]
                end == x.first + x.num - 1
            IN  \A i \in x.first .. end :
                    /\ engine.ring[i].magic
                    /\ engine.ring[i].req = engine.list[k]
                    /\ engine.ring[i].last = (i = end)

\* An iocb is never reported more than the hardware has moved for it, also
\* when a transfer of it failed or was started again after a reset.  Excepted
\* are a ring that was overrun and two histories with a reset: in poll mode the
\* thread may hold a write-back from before it, and take that of the transfer
\* started again for one of the next transfer; in interrupt mode a bottom half
\* from before it may come while the transfer started again is on its way, fail
\* it and leave desc_dequeued above the count of the hardware, so that the next
\* difference wraps and every transfer is complete.
ReportedIsMoved ==
    Orderly /\ "early" \notin seen /\ (poll_mode => "reset" \notin seen) =>
        \A i \in Iocbs :
            caio[i].res <= Cardinality(
                UNION {{n} \X moved[<<i, n>>] : n \in 1 .. MaxSegs[i]})

\* A segment that submit_nowait refused, before or after it had a request.
Refused(s) == req[s].total = 0

\* What is on the list of the engine has not been freed, neither the request
\* nor the caio: completions of other transfers of the same request, and of
\* other segments of the same iocb, free nothing too early.  Excepted are
\* requests freed by a refused submission and iocbs whose submission failed.
ListedIsLive ==
    \A k \in 1 .. Len(engine.list) :
        LET s == engine.list[k][1]
        IN  /\ req[s].live \/ Refused(s)
            /\ caio[s[1]].live \/ pc[s[1]] = "failed"

\* "Use two transfers in case single request needs to be split": a request that
\* has its two transfers is built.
TwoTransfersSuffice ==
    \A i \in Iocbs : pc[i] = "build" => req[Seg(i)].tfer < MaxTfer

Accepted(i) ==
    /\ pc[i] = "queued"
    /\ \A n \in 1 .. caio[i].req_cnt : ~Refused(<<i, n>>)

\* Nothing will start the engine but another transfer.
Stalled == ~engine.running /\ engine.list # <<>>

\* A write-back may have been lost: in poll mode the thread reads one from
\* before a reset, finds it too small, and clears the one the hardware has
\* written for the transfer started again.
WriteBackLost == poll_mode /\ "reset" \in seen

\* An iocb whose segments were all accepted is reported: no interrupt and no
\* wake-up of the polling thread is lost.  After an error on a first descriptor
\* or a reset the engine may stay stopped with the transfer on its list, and
\* neither a ring that was overrun nor a polled reset promises anything.
AioCompletes ==
    \A i \in Iocbs :
        Accepted(i) ~> \/ caio[i].told
                       \/ ~Orderly
                       \/ WriteBackLost
                       \/ seen \cap {"error", "reset"} # {} /\ []Stalled
=============================================================================
