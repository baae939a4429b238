----------------------------- MODULE XdmaEngine -----------------------------
(***************************************************************************)
(* One scatter-gather DMA engine of the XDMA driver, libxdma.c, on a       *)
(* memory-mapped channel (streaming = 0, no cyclic transfer, no            *)
(* performance run): struct xdma_engine, the descriptor ring it shares     *)
(* with the hardware and the registers it polls.                           *)
(*                                                                         *)
(* The functions that run under engine->lock are operators from an engine  *)
(* to an engine, composed as the source composes their calls.  An engine e *)
(* is a record of                                                          *)
(*                                                                         *)
(*   running, shutdown, list, dequeued, idx, used   the fields of the      *)
(*       source (shutdown as the set of its flags, list the transfer_list, *)
(*       idx and used for desc_idx and desc_used);                         *)
(*   status   engine->status, the register as it was last read;            *)
(*   ring     the descriptors, each naming the request and the index of    *)
(*            the software descriptor it was built from;                   *)
(*   xfer     the transfer of each request: its state, first descriptor    *)
(*            and number of descriptors;                                   *)
(*   busy, pos, count, events, irq   the hardware: BUSY, the descriptor it *)
(*            is at, completed_desc_count, the sticky bits of the status   *)
(*            register, and whether the channel interrupt is enabled.      *)
(*                                                                         *)
(* The hardware is not in the repository; it is modelled from what the     *)
(* driver asks of it: a run starts with a zero count, follows the chain to *)
(* the descriptor flagged STOPPED or to an error, and de-asserting RUN     *)
(* stops it before the next descriptor.                                    *)
(***************************************************************************)
EXTENDS Integers, Sequences

CONSTANTS
    Requests,      \* the callers that may have a request in the driver
    DescMax,       \* engine->desc_max, the size of the ring
    MaxDescs       \* bound on sw_desc_cnt, the descriptors of one request

ASSUME EngineAssumption ==
    /\ DescMax \in Nat \ {0}
    /\ MaxDescs \in Nat \ {0}

Slots == 0 .. DescMax - 1

\* A descriptor that xdma_desc_done has zeroed: no DESC_MAGIC in it.
NoDescriptor == [magic |-> FALSE]

Descriptors ==
    {NoDescriptor} \cup
    [magic : {TRUE}, req : Requests, index : 0 .. MaxDescs - 1, last : BOOLEAN]

TransferStates == {"NEW", "SUBMITTED", "COMPLETED", "FAILED", "ABORTED"}

Transfers ==
    [state : TransferStates, first : Slots, num : 0 .. DescMax]

NoTransfer == [state |-> "NEW", first |-> 0, num |-> 0]

EngineInit ==
    [running  |-> FALSE, shutdown |-> {}, list |-> <<>>,
     dequeued |-> 0, idx |-> 0, used |-> 0, status |-> {},
     ring     |-> [i \in Slots |-> NoDescriptor],
     xfer     |-> [r \in Requests |-> NoTransfer],
     busy     |-> FALSE, pos |-> 0, count |-> 0, events |-> {}, irq |-> TRUE]

-----------------------------------------------------------------------------
(* Registers *)

\* Reading status_rc clears the sticky bits of the register.
engine_status_read(e) ==
    [e EXCEPT !.status = e.events \cup (IF e.busy THEN {"BUSY"} ELSE {}),
              !.events = {}]

xdma_engine_stop(e) == [e EXCEPT !.running = FALSE, !.busy = FALSE]

engine_service_shutdown(e) == xdma_engine_stop(e)

\* The first transfer queued is handed to the hardware; the status is read
\* without clearing it.
engine_start(e) ==
    IF e.running \/ e.list = <<>> THEN e
    ELSE [e EXCEPT !.shutdown = {}, !.dequeued = 0, !.running = TRUE,
                   !.busy = TRUE, !.count = 0, !.status = e.events \cup {"BUSY"},
                   !.pos = e.xfer[Head(e.list)].first]

-----------------------------------------------------------------------------
(* Building and queueing a transfer *)

Smaller(a, b) == IF a < b THEN a ELSE b

\* The descriptors a transfer may use: what is left of the request, at most
\* the ring, and never past its end.
ChainLength(e, remaining) ==
    LET desc_max == Smaller(remaining, DescMax)
    IN  IF e.idx + desc_max >= DescMax THEN DescMax - e.idx ELSE desc_max

\* Mutant: the index runs past the end of the ring.
transfer_init_unwrapped(e, r, next, total) ==
    LET num == ChainLength(e, total - next)
    IN  [e EXCEPT
            !.ring = [i \in Slots |->
                         IF i \in e.idx .. e.idx + num - 1
                         THEN [magic |-> TRUE, req |-> r,
                               index |-> next + i - e.idx,
                               last |-> i = e.idx + num - 1]
                         ELSE e.ring[i]],
            !.xfer[r] = [state |-> "NEW", first |-> e.idx, num |-> num],
            !.idx = @ + num,
            !.used = @ + num]

\* The next descriptors of r's request, from software descriptor `next' on:
\* the last of the chain stops the engine and asks for the interrupt.
transfer_init(e, r, next, total) ==
    LET num == ChainLength(e, total - next)
    IN  [e EXCEPT
            !.ring = [i \in Slots |->
                         IF i \in e.idx .. e.idx + num - 1
                         THEN [magic |-> TRUE, req |-> r,
                               index |-> next + i - e.idx,
                               last |-> i = e.idx + num - 1]
                         ELSE e.ring[i]],
            !.xfer[r] = [state |-> "NEW", first |-> e.idx, num |-> num],
            !.idx = (@ + num) % DescMax,
            !.used = @ + num]

\* Mutant: a transfer is accepted while the engine is being shut down.
AcceptsAlways(e) == TRUE

\* An engine that is being shut down takes no new transfer.
Accepts(e) == "REQUEST" \notin e.shutdown

\* The transfer is put on the list, and an idle engine is started.
transfer_queue(e, r) ==
    engine_start([e EXCEPT !.xfer[r].state = "SUBMITTED",
                           !.list = Append(@, r)])

\* Mutant: the transfer is left on the list of the engine.
transfer_abort_listed(e, r) ==
    [e EXCEPT !.xfer[r].state = IF @ = "SUBMITTED" THEN "ABORTED" ELSE @]

transfer_abort(e, r) ==
    [e EXCEPT !.list = IF @ # <<>> /\ Head(@) = r THEN Tail(@) ELSE @,
              !.xfer[r].state = IF @ = "SUBMITTED" THEN "ABORTED" ELSE @]

\* Returns the descriptors of r's transfer: desc_used, then xdma_desc_done.
transfer_destroy(e, r) ==
    LET x == e.xfer[r]
    IN  [e EXCEPT !.used = @ - x.num,
                  !.ring = [i \in Slots |->
                               IF i \in x.first .. x.first + x.num - 1
                               THEN NoDescriptor ELSE e.ring[i]],
                  !.xfer[r] = NoTransfer]

-----------------------------------------------------------------------------
(* Servicing the engine *)

\* The transfer at the head is answered and leaves the list.
Answer(e, state, dequeued) ==
    [e EXCEPT !.xfer[Head(e.list)].state = state,
              !.dequeued = @ + dequeued,
              !.list = Tail(@)]

\* The descriptors of the first k transfers of the list.
DescSum(e, k) ==
    LET sum[j \in 0 .. k] ==
          IF j = 0 THEN 0 ELSE sum[j - 1] + e.xfer[e.list[j]].num
    IN  sum[k]

\* How many transfers n completed descriptors cover, except the last one
\* (the loop of the source runs on >, not on >=).
Covered(e, n) ==
    CHOOSE k \in 0 .. Len(e.list) :
        /\ \A j \in 1 .. k : n > DescSum(e, j)
        /\ k < Len(e.list) => n <= DescSum(e, k + 1)

engine_service_transfer_list(e, n) ==
    LET k == Covered(e, n)
    IN  [e EXCEPT
            !.xfer = [r \in Requests |->
                         IF \E j \in 1 .. k : e.list[j] = r
                         THEN [e.xfer[r] EXCEPT !.state = "COMPLETED"]
                         ELSE e.xfer[r]],
            !.dequeued = @ + DescSum(e, k),
            !.list = SubSeq(@, k + 1, Len(@))]

\* Mutant: the transfer that stopped the engine is taken as complete.
final_transfer_trusting(e, n) ==
    IF e.list = <<>> THEN e
    ELSE Answer(e, "COMPLETED", e.xfer[Head(e.list)].num)

\* The transfer the engine stopped on: failed on an error status or when some
\* of its descriptors are not completed, complete otherwise.
engine_service_final_transfer(e, n) ==
    IF e.list = <<>> THEN e
    ELSE LET num == e.xfer[Head(e.list)].num
         IN  IF "ERROR" \in e.status
             THEN xdma_engine_stop(Answer(e, "FAILED", 0))
             ELSE Answer(e, IF n < num THEN "FAILED" ELSE "COMPLETED", num)

engine_service_resume(e) ==
    CASE ~e.running /\ e.list # <<>> -> engine_start(e)
      [] ~e.running /\ e.list = <<>> /\ "REQUEST" \in e.shutdown ->
            [e EXCEPT !.shutdown = @ \cup {"IDLE"}]
      [] e.running /\ e.list = <<>> -> engine_service_shutdown(e)
      [] OTHER -> e

\* engine_service(engine, 0), first half: read and clear the status, stop the
\* engine when it is no longer busy.  An engine that is not running needs no
\* more than the read.
service_status(e) ==
    LET read == engine_status_read(e)
    IN  CASE ~e.running -> read
          [] e.running /\ ~e.busy -> engine_service_shutdown(read)
          [] e.running /\ e.busy -> read

\* Unsigned 32-bit subtraction: a negative difference is far more than any
\* list of transfers holds.
Unsigned(n) == IF n < 0 THEN 1000000 + n ELSE n

\* Answers the transfers that `count' completed descriptors cover.  Without a
\* completed descriptor nothing is answered or resumed.
answer_transfers(e, count) ==
    LET desc_count == Unsigned(count - e.dequeued)
        listed     == engine_service_transfer_list(e, desc_count)
        rest       == desc_count - (listed.dequeued - e.dequeued)
    IN  IF count = 0 THEN e
        ELSE engine_service_resume(engine_service_final_transfer(listed, rest))

\* Second half: the count is read from the hardware.
service_transfers(e) == answer_transfers(e, e.count)

-----------------------------------------------------------------------------
(* The hardware (external) *)

\* The descriptor at pos is moved: the last of the chain stops the engine.
HwMove(e) ==
    IF e.ring[e.pos].last
    THEN [e EXCEPT !.count = @ + 1, !.busy = FALSE,
                   !.events = @ \cup {"STOPPED"}]
    ELSE [e EXCEPT !.count = @ + 1, !.pos = @ + 1]

\* The engine stops on a bus error, or on a descriptor without magic.
HwError(e) == [e EXCEPT !.busy = FALSE, !.events = @ \cup {"ERROR"}]
=============================================================================
