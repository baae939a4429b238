--------------------------- MODULE XdmaSyncProofs ---------------------------
(***************************************************************************)
(* Blocking requests are correct for every number of callers, ring size,   *)
(* request length and number of resets: the safety invariants of XdmaSync, *)
(* and that it implements CopyService.                                     *)
(***************************************************************************)
EXTENDS XdmaSync, FiniteSetTheorems, SequenceTheorems, TLAPS

-----------------------------------------------------------------------------
(* The inductive invariant *)

\* A caller between transfer_init and xdma_request_free has a transfer.
Built == {"queue", "admit", "wait", "woken"}
Answerable == {"wait", "woken"}

Engines ==
    [running : BOOLEAN, shutdown : SUBSET {"REQUEST", "IDLE"},
     list : Seq(Requests), dequeued : 0 .. DescMax,
     idx : Slots, used : Int,
     status : SUBSET {"BUSY", "STOPPED", "ERROR"},
     ring : [Slots -> Descriptors], xfer : [Requests -> Transfers],
     busy : BOOLEAN, pos : Slots, count : 0 .. DescMax,
     events : SUBSET {"STOPPED", "ERROR"}, irq : BOOLEAN]

Types ==
    /\ engine \in Engines
    /\ pending \in BOOLEAN /\ servicing \in BOOLEAN
    /\ device \in {"up", "stopping", "stopped", "down", "resuming"}
    /\ offline \in BOOLEAN /\ resets \in 0 .. MaxResets
    /\ pc \in [Requests -> Holding \cup {"out", "enter"}]
    /\ total \in [Requests -> 0 .. MaxDescs]
    /\ next \in [Requests -> 0 .. MaxDescs]
    /\ done \in [Requests -> 0 .. MaxDescs]
    /\ moved \in [Requests -> SUBSET (0 .. MaxDescs - 1)]
    /\ frozen \in BOOLEAN /\ lost \in SUBSET {"count", "abort"}

\* desc_lock: one caller at a time is between LockRing and Return.
OneHolder ==
    \A r, s \in Requests : pc[r] \in Holding /\ pc[s] \in Holding => r = s

\* No count was read from a frozen device.
Counted == "count" \notin lost

\* How far the request of r is: built, counted and moved.
Progress(r) ==
    LET x == engine.xfer[r] IN
    /\ pc[r] \notin Built => x = NoTransfer
    /\ pc[r] \in {"out", "enter"} => next[r] = 0 /\ done[r] = 0 /\ moved[r] = {}
    /\ pc[r] = "out" => total[r] = 0
    /\ pc[r] = "enter" => total[r] > 0
    /\ pc[r] = "init" => next[r] < total[r] /\ done[r] = next[r]
    /\ pc[r] \in Built => /\ x.num > 0 /\ x.first + x.num <= DescMax
                          /\ next[r] = done[r] + x.num /\ next[r] <= total[r]
    /\ pc[r] \in {"queue", "admit"} => x.state = "NEW"
    /\ Counted /\ pc[r] \in {"init", "queue", "admit"} => moved[r] = 0 .. done[r] - 1
    /\ pc[r] \in Answerable =>
          /\ x.state \in {"SUBMITTED", "COMPLETED", "FAILED"}
          /\ engine.count <= x.num
          /\ Counted /\ x.state = "COMPLETED" => engine.count = x.num
          /\ Counted => moved[r] = 0 .. done[r] + engine.count - 1

\* The chain of r's transfer is in the ring, one descriptor after the other.
Chained(r) ==
    LET x == engine.xfer[r] IN
    \A i \in x.first .. x.first + x.num - 1 :
        /\ engine.ring[i].magic
        /\ engine.ring[i].req = r
        /\ engine.ring[i].index = done[r] + (i - x.first)
        /\ engine.ring[i].last = (i = x.first + x.num - 1)

ChainsKept ==
    \A r \in Requests :
        pc[r] \in Built /\ engine.xfer[r].state \in {"NEW", "SUBMITTED"} => Chained(r)

\* The list is empty, or holds the transfer of the caller that waits for it.
\* A transfer that was freed on it stays, and no other joins it.
ListInv ==
    /\ \A r \in Requests :
          engine.xfer[r].state = "SUBMITTED" =>
              pc[r] \in Answerable /\ engine.list = <<r>>
    /\ engine.list # <<>> =>
          \E r \in Requests :
              /\ engine.list = <<r>>
              /\ ~Dangling => engine.xfer[r].state = "SUBMITTED"
    /\ engine.list # <<>> => engine.dequeued = 0
    /\ Dangling => /\ engine.list # <<>>
                   /\ \A r \in Requests : pc[r] \notin Answerable

\* The engine runs only with a transfer on its list, and the hardware is at the
\* descriptor of it that comes next.
RunInv ==
    /\ engine.running => engine.list # <<>>
    /\ engine.busy => engine.running /\ ~frozen /\ ~Dangling
    /\ servicing => engine.list # <<>>
    /\ \A r \in Requests :
          engine.busy /\ engine.list = <<r>> =>
              /\ engine.pos = engine.xfer[r].first + engine.count
              /\ engine.count < engine.xfer[r].num

\* xdma_device_offline and xdma_device_online: the flag and the engine follow.
AdminInv ==
    /\ offline <=> device # "up"
    /\ "REQUEST" \in engine.shutdown <=> device \in {"stopped", "down"}
    /\ device \in {"stopped", "down"} => ~engine.running

\* How many transfers may have been refused after n resets, with the callers
\* `inside' in the driver: an offline device can still refuse each of those.
Inside == {r \in Requests : pc[r] # "out"}
Leaks(n, off, inside) ==
    n * Cardinality(Requests) - (IF off THEN Cardinality(inside) ELSE 0)

\* desc_used counts the transfer that is built and what refused ones leaked.
UsedInv ==
    \E leaked \in Nat :
        /\ leaked <= Leaks(resets, offline, Inside) * DescMax
        /\ \A r \in Requests :
              pc[r] \in Built => engine.used = leaked + engine.xfer[r].num
        /\ (\A r \in Requests : pc[r] \notin Built) => engine.used = leaked

IInv ==
    /\ Types /\ OneHolder
    /\ \A r \in Requests : Progress(r)
    /\ ChainsKept /\ ListInv /\ RunInv /\ AdminInv

-----------------------------------------------------------------------------
(* What servicing does to a list of one transfer *)

\* The descriptors of the first transfer of a list are those of that transfer.
LEMMA DescSumOne ==
    ASSUME NEW e \in Engines, NEW r \in Requests, e.list = <<r>>
    PROVE  DescSum(e, 0) = 0 /\ DescSum(e, 1) = e.xfer[r].num
  <1> DEFINE Step(k, f) == [j \in 0 .. k |-> IF j = 0 THEN 0
                                           ELSE f[j - 1] + e.xfer[e.list[j]].num]
  <1>1. DescSum(e, 0) = 0
    <2> DEFINE g == [j \in 0 .. 0 |-> 0]
               s == CHOOSE f : f = Step(0, f)
    <2>1. g = Step(0, g)
      OBVIOUS
    <2>2. s = Step(0, s)
      BY <2>1
    <2>3. DescSum(e, 0) = s[0]
      BY DEF DescSum
    <2> QED BY <2>2, <2>3
  <1>2. DescSum(e, 1) = e.xfer[r].num
    <2> DEFINE g == [j \in 0 .. 1 |-> IF j = 0 THEN 0 ELSE e.xfer[r].num]
               s == CHOOSE f : f = Step(1, f)
    <2>0. e.xfer[r].num \in Nat /\ e.list[1] = r
      BY EngineAssumption DEF Engines, Transfers
    <2>1. g = Step(1, g)
      BY <2>0
    <2>2. s = Step(1, s)
      BY <2>1
    <2>3. DescSum(e, 1) = s[1]
      BY DEF DescSum
    <2> HIDE DEF s
    <2>4. s[0] = 0 /\ s[1] = s[0] + e.xfer[r].num
      BY <2>0, <2>2
    <2> QED BY <2>0, <2>3, <2>4
  <1> QED BY <1>1, <1>2

\* A count that does not exceed the only transfer of the list leaves it to
\* engine_service_final_transfer.
LEMMA ListUntouched ==
    ASSUME NEW e \in Engines, NEW r \in Requests, e.list = <<r>>,
           NEW n \in 0 .. e.xfer[r].num
    PROVE  engine_service_transfer_list(e, n) = e
  <1>0. e.xfer[r].num \in Nat /\ e.dequeued \in Nat /\ Len(e.list) = 1
    BY EngineAssumption DEF Engines, Transfers
  <1>1. Covered(e, n) = 0
    <2> DEFINE P(k) == /\ \A j \in 1 .. k : n > DescSum(e, j)
                       /\ k < Len(e.list) => n <= DescSum(e, k + 1)
    <2>1. P(0)
      BY <1>0, DescSumOne
    <2>2. \A k \in 0 .. Len(e.list) : P(k) => k = 0
      BY <1>0, DescSumOne
    <2>3. (CHOOSE k \in 0 .. Len(e.list) : P(k)) = 0
      BY <1>0, <2>1, <2>2
    <2> QED BY <2>3 DEF Covered
  <1>2. DescSum(e, Covered(e, n)) = 0
    BY <1>1, DescSumOne
  <1>3. SubSeq(e.list, 0 + 1, Len(e.list)) = e.list
    <2>1. SubSeq(e.list, 1, Len(e.list)) = e.list
      BY SubSeqFull DEF Engines
    <2>2. 0 + 1 = 1
      OBVIOUS
    <2> QED BY <2>1, <2>2, Zenon
  <1>4. [s \in Requests |-> IF \E j \in 1 .. 0 : e.list[j] = s
                            THEN [e.xfer[s] EXCEPT !.state = "COMPLETED"]
                            ELSE e.xfer[s]] = e.xfer
    BY DEF Engines
  <1>5. [e EXCEPT !.xfer = e.xfer, !.dequeued = e.dequeued, !.list = e.list] = e
    BY DEF Engines
  <1>6. e.dequeued + DescSum(e, 0) = e.dequeued
    BY <1>0, DescSumOne
  <1> QED
    BY <1>1, <1>3, <1>4, <1>5, <1>6, ZenonT(60) DEF engine_service_transfer_list

\* The transfer at the head, answered: no more than its state, the list and
\* desc_dequeued change.
LEMMA AnswerFields ==
    ASSUME NEW e \in Engines, NEW r \in Requests, e.list = <<r>>,
           NEW state \in TransferStates, NEW d \in 0 .. DescMax, e.dequeued = 0
    PROVE  LET a == Answer(e, state, d)
           IN  /\ a \in Engines
               /\ a.list = <<>>
               /\ a.xfer = [e.xfer EXCEPT ![r] = [@ EXCEPT !.state = state]]
               /\ a.running = e.running /\ a.busy = e.busy
               /\ a.shutdown = e.shutdown /\ a.status = e.status
               /\ a.ring = e.ring /\ a.count = e.count /\ a.used = e.used
  <1>1. Head(e.list) = r /\ Tail(e.list) = <<>>
    OBVIOUS
  <1>2. [e.xfer[r] EXCEPT !.state = state] \in Transfers
    BY DEF Engines, Transfers
  <1>3. e.dequeued + d = d
    BY EngineAssumption
  <1> DEFINE answered == [e.xfer EXCEPT ![r] = [@ EXCEPT !.state = state]]
  <1>4. Answer(e, state, d) =
          [e EXCEPT !.xfer = answered, !.dequeued = d, !.list = <<>>]
    BY <1>1, <1>3 DEF Answer
  <1>5. answered \in [Requests -> Transfers] /\ <<>> \in Seq(Requests)
    BY <1>2 DEF Engines
  <1> HIDE DEF answered
  <1>6. [e EXCEPT !.xfer = answered, !.dequeued = d, !.list = <<>>] \in Engines
    BY <1>5 DEF Engines
  <1>7. LET a == [e EXCEPT !.xfer = answered, !.dequeued = d, !.list = <<>>]
        IN  /\ a.list = <<>>
            /\ a.xfer = answered
            /\ a.running = e.running /\ a.busy = e.busy
            /\ a.shutdown = e.shutdown /\ a.status = e.status
            /\ a.ring = e.ring /\ a.count = e.count /\ a.used = e.used
    BY DEF Engines
  <1> QED BY <1>4, <1>6, <1>7 DEF answered

\* engine_service_resume on an empty list stops the engine.
LEMMA ResumeFields ==
    ASSUME NEW e \in Engines, e.list = <<>>, e.busy => e.running
    PROVE  LET f == engine_service_resume(e)
           IN  /\ f \in Engines
               /\ f.list = <<>> /\ ~f.running /\ ~f.busy
               /\ f.xfer = e.xfer
               /\ ("REQUEST" \in f.shutdown) <=> ("REQUEST" \in e.shutdown)
               /\ f.ring = e.ring /\ f.count = e.count /\ f.used = e.used
  <1>1. CASE e.running
    <2>1. engine_service_resume(e) = [e EXCEPT !.running = FALSE, !.busy = FALSE]
      BY <1>1 DEF engine_service_resume, engine_service_shutdown, xdma_engine_stop
    <2> QED BY <1>1, <2>1 DEF Engines
  <1>2. CASE ~e.running /\ "REQUEST" \in e.shutdown
    <2>1. engine_service_resume(e) = [e EXCEPT !.shutdown = @ \cup {"IDLE"}]
      BY <1>2 DEF engine_service_resume
    <2> QED BY <1>2, <2>1 DEF Engines
  <1>3. CASE ~e.running /\ "REQUEST" \notin e.shutdown
    <2>1. engine_service_resume(e) = e
      BY <1>3 DEF engine_service_resume
    <2> QED BY <1>3, <2>1 DEF Engines
  <1> QED BY <1>1, <1>2, <1>3

\* The second half of engine_service with one transfer on the list.  Without a
\* completed descriptor it does nothing; else the transfer is answered, as
\* completed only when all of it was, and the engine is left stopped.
LEMMA ServicedFields ==
    ASSUME NEW e \in Engines, NEW r \in Requests, e.list = <<r>>,
           e.dequeued = 0, NEW c \in 0 .. e.xfer[r].num, e.busy => e.running
    PROVE  LET f == answer_transfers(e, c)
           IN  \/ c = 0 /\ f = e
               \/ \E state \in {"COMPLETED", "FAILED"} :
                     /\ state = "COMPLETED" => c = e.xfer[r].num
                     /\ f \in Engines
                     /\ f.list = <<>> /\ ~f.running /\ ~f.busy
                     /\ f.xfer = [e.xfer EXCEPT ![r] = [@ EXCEPT !.state = state]]
                     /\ ("REQUEST" \in f.shutdown) <=> ("REQUEST" \in e.shutdown)
                     /\ f.ring = e.ring /\ f.count = e.count /\ f.used = e.used
  <1> DEFINE num == e.xfer[r].num
  <1>0. /\ c \in 0 .. num /\ num \in 0 .. DescMax /\ num \in Nat
        /\ Head(e.list) = r /\ e.list # <<>>
    BY EngineAssumption DEF Engines, Transfers
  <1>1. CASE c = 0
    BY <1>1 DEF answer_transfers
  <1>2. CASE c # 0
    <2>1. Unsigned(c - e.dequeued) = c
      BY <1>0 DEF Unsigned
    <2>2. engine_service_transfer_list(e, c) = e
      BY <1>0, ListUntouched
    <2>3. c - (e.dequeued - e.dequeued) = c
      BY <1>0
    <2>4. answer_transfers(e, c) =
            engine_service_resume(engine_service_final_transfer(e, c))
      BY <1>2, <2>1, <2>2, <2>3 DEF answer_transfers
    <2>5. CASE "ERROR" \in e.status
      <3> DEFINE a == Answer(e, "FAILED", 0)
                 b == [a EXCEPT !.running = FALSE, !.busy = FALSE]
      <3>1. engine_service_final_transfer(e, c) = b
        BY <1>0, <2>5 DEF engine_service_final_transfer, xdma_engine_stop
      <3>2. a \in Engines /\ a.list = <<>> /\ a.ring = e.ring /\ a.count = e.count
            /\ a.xfer = [e.xfer EXCEPT ![r] = [@ EXCEPT !.state = "FAILED"]]
            /\ a.shutdown = e.shutdown /\ a.used = e.used
        <4>1. 0 \in 0 .. DescMax /\ "FAILED" \in TransferStates
          BY EngineAssumption DEF TransferStates
        <4> QED BY <4>1, AnswerFields
      <3> HIDE DEF a
      <3>3. b \in Engines /\ b.list = a.list /\ ~b.busy /\ b.xfer = a.xfer
            /\ b.shutdown = a.shutdown /\ b.ring = a.ring /\ b.count = a.count
            /\ b.used = a.used
        BY <3>2 DEF Engines
      <3> HIDE DEF b
      <3>4. /\ engine_service_resume(b) \in Engines
            /\ engine_service_resume(b).list = <<>>
            /\ ~engine_service_resume(b).running /\ ~engine_service_resume(b).busy
            /\ engine_service_resume(b).xfer = b.xfer
            /\ ("REQUEST" \in engine_service_resume(b).shutdown)
                   <=> ("REQUEST" \in b.shutdown)
            /\ engine_service_resume(b).ring = b.ring
            /\ engine_service_resume(b).count = b.count
            /\ engine_service_resume(b).used = b.used
        BY <3>2, <3>3, ResumeFields
      <3> QED BY <2>4, <3>1, <3>2, <3>3, <3>4
    <2>6. CASE "ERROR" \notin e.status
      <3> DEFINE state == IF c < num THEN "FAILED" ELSE "COMPLETED"
                 a == Answer(e, state, num)
      <3>1. engine_service_final_transfer(e, c) = a
        BY <1>0, <2>6 DEF engine_service_final_transfer
      <3>2. state \in {"COMPLETED", "FAILED"} /\ (state = "COMPLETED" => c = num)
        BY <1>0
      <3> HIDE DEF state
      <3>3. a \in Engines /\ a.list = <<>> /\ a.ring = e.ring /\ a.count = e.count
            /\ a.xfer = [e.xfer EXCEPT ![r] = [@ EXCEPT !.state = state]]
            /\ a.shutdown = e.shutdown /\ a.used = e.used
            /\ a.running = e.running /\ a.busy = e.busy
        <4>1. state \in TransferStates
          BY <3>2 DEF TransferStates
        <4> QED BY <1>0, <4>1, AnswerFields
      <3> HIDE DEF a
      <3>4. /\ engine_service_resume(a) \in Engines
            /\ engine_service_resume(a).list = <<>>
            /\ ~engine_service_resume(a).running /\ ~engine_service_resume(a).busy
            /\ engine_service_resume(a).xfer = a.xfer
            /\ ("REQUEST" \in engine_service_resume(a).shutdown)
                   <=> ("REQUEST" \in a.shutdown)
            /\ engine_service_resume(a).ring = a.ring
            /\ engine_service_resume(a).count = a.count
            /\ engine_service_resume(a).used = a.used
        BY <3>3, ResumeFields
      <3> QED BY <2>4, <3>1, <3>2, <3>3, <3>4
    <2> QED BY <2>5, <2>6
  <1> QED BY <1>1, <1>2

\* A count beyond the only transfer of the list completes it, and the engine is
\* left stopped.
LEMMA OvercountFields ==
    ASSUME NEW e \in Engines, NEW r \in Requests, e.list = <<r>>,
           e.dequeued = 0, NEW c \in Nat, c > e.xfer[r].num, e.busy => e.running
    PROVE  LET f == answer_transfers(e, c)
           IN  /\ f \in Engines
               /\ f.list = <<>> /\ ~f.running /\ ~f.busy
               /\ f.xfer = [e.xfer EXCEPT ![r] = [@ EXCEPT !.state = "COMPLETED"]]
               /\ ("REQUEST" \in f.shutdown) <=> ("REQUEST" \in e.shutdown)
               /\ f.ring = e.ring /\ f.count = e.count /\ f.used = e.used
  <1> DEFINE num == e.xfer[r].num
             xfer == [e.xfer EXCEPT ![r] = [@ EXCEPT !.state = "COMPLETED"]]
             a == [e EXCEPT !.xfer = xfer, !.dequeued = num, !.list = <<>>]
  <1>0. /\ num \in 0 .. DescMax /\ num \in Nat /\ Len(e.list) = 1 /\ e.list[1] = r
        /\ e.xfer \in [Requests -> Transfers]
    BY EngineAssumption DEF Engines, Transfers
  <1>1. Covered(e, c) = 1
    <2> DEFINE P(k) == /\ \A j \in 1 .. k : c > DescSum(e, j)
                       /\ k < Len(e.list) => c <= DescSum(e, k + 1)
    <2>1. P(1)
      BY <1>0, DescSumOne
    <2>2. \A k \in 0 .. Len(e.list) : P(k) => k = 1
      BY <1>0, DescSumOne
    <2>3. (CHOOSE k \in 0 .. Len(e.list) : P(k)) = 1
      BY <1>0, <2>1, <2>2
    <2> QED BY <2>3 DEF Covered
  <1>2. SubSeq(e.list, 1 + 1, Len(e.list)) = <<>>
    <2>1. e.list \in Seq(Requests) /\ 1 + 1 = 2
      BY DEF Engines
    <2>2. SubSeq(e.list, 2, 1) = <<>>
      BY <2>1, SubSeqEmpty
    <2> QED BY <1>0, <2>1, <2>2
  <1>3. [s \in Requests |-> IF \E j \in 1 .. 1 : e.list[j] = s
                            THEN [e.xfer[s] EXCEPT !.state = "COMPLETED"]
                            ELSE e.xfer[s]] = xfer
    BY <1>0
  <1>4. e.dequeued + DescSum(e, 1) = num
    BY <1>0, DescSumOne
  <1> HIDE DEF xfer, num
  <1>5. engine_service_transfer_list(e, c) = a
    BY <1>1, <1>2, <1>3, <1>4, ZenonT(60) DEF engine_service_transfer_list
  <1>6. xfer \in [Requests -> Transfers]
    <2>1. [e.xfer[r] EXCEPT !.state = "COMPLETED"] \in Transfers
      BY <1>0 DEF Transfers, TransferStates
    <2> QED BY <1>0, <2>1 DEF xfer
  <1>7. /\ a \in Engines /\ a.list = <<>> /\ a.xfer = xfer
        /\ a.running = e.running /\ a.busy = e.busy /\ a.shutdown = e.shutdown
        /\ a.ring = e.ring /\ a.count = e.count /\ a.used = e.used
    <2>1. <<>> \in Seq(Requests) /\ num \in 0 .. DescMax
      BY <1>0 DEF num
    <2> QED BY <1>6, <2>1 DEF Engines
  <1> HIDE DEF a
  <1>8. c # 0 /\ Unsigned(c - e.dequeued) = c
    BY <1>0 DEF Unsigned, num
  <1>9. answer_transfers(e, c) = engine_service_resume(a)
    <2>1. \A n : engine_service_final_transfer(a, n) = a
      BY <1>7 DEF engine_service_final_transfer
    <2> QED BY <1>5, <1>8, <2>1 DEF answer_transfers
  <1>10. /\ engine_service_resume(a) \in Engines
         /\ engine_service_resume(a).list = <<>>
         /\ ~engine_service_resume(a).running /\ ~engine_service_resume(a).busy
         /\ engine_service_resume(a).xfer = a.xfer
         /\ ("REQUEST" \in engine_service_resume(a).shutdown)
                <=> ("REQUEST" \in a.shutdown)
         /\ engine_service_resume(a).ring = a.ring
         /\ engine_service_resume(a).count = a.count
         /\ engine_service_resume(a).used = a.used
    BY <1>7, ResumeFields
  <1> QED BY <1>7, <1>9, <1>10 DEF xfer

-----------------------------------------------------------------------------
(* Steps that leave the transfers alone *)

\* From e to f nothing changes that a transfer consists of.
Kept(e, f) ==
    /\ f.list = e.list /\ f.xfer = e.xfer /\ f.ring = e.ring
    /\ f.count = e.count /\ f.dequeued = e.dequeued /\ f.used = e.used

\* Such a step keeps what the invariant says of callers and list.
LEMMA TransfersKept ==
    ASSUME IInv, Kept(engine, engine'), UNCHANGED <<caller, moved, lost>>
    PROVE  /\ OneHolder' /\ (\A r \in Requests : Progress(r)')
           /\ ChainsKept' /\ ListInv'
  <1> USE DEF IInv, Kept, caller
  <1>1. OneHolder'
    BY DEF OneHolder
  <1>2. \A r \in Requests : Progress(r)'
    BY DEF Progress, Counted
  <1>3. ChainsKept'
    BY DEF ChainsKept, Chained
  <1>4. ListInv'
    BY DEF ListInv, Dangling
  <1> QED BY <1>1, <1>2, <1>3, <1>4

\* xdma_isr disables the interrupt and schedules the work.
LEMMA IsrStep == IInv /\ xdma_isr => IInv'
  <1> SUFFICES ASSUME IInv, xdma_isr PROVE IInv'
    OBVIOUS
  <1>1. engine' = [engine EXCEPT !.irq = FALSE]
    BY DEF xdma_isr
  <1>2. engine' \in Engines /\ Kept(engine, engine') /\ engine'.pos = engine.pos
        /\ engine'.running = engine.running /\ engine'.busy = engine.busy
        /\ engine'.shutdown = engine.shutdown
    BY <1>1 DEF IInv, Types, Engines, Kept
  <1>3. UNCHANGED <<servicing, admin, caller, moved>> /\ pending' = TRUE
    BY DEF xdma_isr
  <1>4. Types'
    BY <1>2, <1>3 DEF IInv, Types, admin, channel, caller
  <1>5. RunInv' /\ AdminInv'
    BY <1>2, <1>3 DEF IInv, RunInv, AdminInv, admin, channel, Kept, Dangling
  <1> QED BY <1>2, <1>3, <1>4, <1>5, TransfersKept DEF IInv, admin, channel

\* The status is read; the engine is stopped when the hardware is through.
LEMMA ServiceStatusStep == IInv /\ ServiceStatus => IInv'
  <1> SUFFICES ASSUME IInv, ServiceStatus PROVE IInv'
    OBVIOUS
  <1> DEFINE read == engine_status_read(engine)
             f == service_status(engine)
  <1>1. /\ read \in Engines /\ Kept(engine, read) /\ read.pos = engine.pos
        /\ read.running = engine.running /\ read.busy = engine.busy
        /\ read.shutdown = engine.shutdown
    BY DEF IInv, Types, Engines, Kept, engine_status_read
  <1> HIDE DEF read
  <1>2. /\ f \in Engines /\ Kept(engine, f) /\ f.pos = engine.pos
        /\ f.running = (engine.running /\ engine.busy)
        /\ f.busy = engine.busy /\ f.shutdown = engine.shutdown
    <2>0. engine.running \in BOOLEAN /\ engine.busy \in BOOLEAN
          /\ (engine.busy => engine.running)
      BY DEF IInv, Types, Engines, RunInv
    <2>1. CASE engine.running /\ ~engine.busy
      <3>1. f = [read EXCEPT !.running = FALSE, !.busy = FALSE]
        BY <2>1 DEF service_status, engine_service_shutdown, xdma_engine_stop, read
      <3> QED BY <1>1, <2>0, <2>1, <3>1 DEF Engines, Kept
    <2>2. CASE ~(engine.running /\ ~engine.busy)
      <3>1. f = read
        BY <2>0, <2>2 DEF service_status, read
      <3> QED BY <1>1, <2>0, <2>2, <3>1
    <2> QED BY <2>1, <2>2
  <1> HIDE DEF f
  <1>3. \E irq \in BOOLEAN : engine' = [f EXCEPT !.irq = irq]
    BY <1>2 DEF ServiceStatus, IInv, Types, Engines, f
  <1>4. /\ engine' \in Engines /\ Kept(engine, engine') /\ engine'.pos = engine.pos
        /\ engine'.running = (engine.running /\ engine.busy)
        /\ engine'.busy = engine.busy /\ engine'.shutdown = engine.shutdown
    BY <1>2, <1>3 DEF Engines, Kept
  <1>5. /\ UNCHANGED <<admin, caller, moved>> /\ pending' = FALSE
        /\ servicing' = engine.running
    BY DEF ServiceStatus
  <1>6. Types'
    BY <1>4, <1>5 DEF IInv, Types, Engines, admin, channel, caller
  <1>7. RunInv' /\ AdminInv'
    BY <1>4, <1>5 DEF IInv, RunInv, AdminInv, admin, channel, Kept, Dangling
  <1> QED BY <1>4, <1>5, <1>6, <1>7, TransfersKept DEF IInv, admin, channel

\* The transfer of the list is answered, and nothing else is.
LEMMA AnsweredStep ==
    ASSUME IInv, NEW r \in Requests,
           engine.list = <<r>>, engine.xfer[r].state = "SUBMITTED",
           NEW state \in {"COMPLETED", "FAILED"},
           Counted' => Counted /\ (state = "COMPLETED"
                                      => engine.count = engine.xfer[r].num),
           ~Dangling', lost' \in SUBSET {"count", "abort"},
           engine' \in Engines, engine'.list = <<>>, ~engine'.running, ~engine'.busy,
           engine'.xfer = [engine.xfer EXCEPT ![r] = [@ EXCEPT !.state = state]],
           ("REQUEST" \in engine'.shutdown) <=> ("REQUEST" \in engine.shutdown),
           engine'.ring = engine.ring, engine'.count = engine.count,
           servicing' = FALSE,
           UNCHANGED <<pending, device, offline, resets, frozen, caller, moved>>
    PROVE  IInv'
  <1>1. pc[r] \in Answerable
    BY DEF IInv, ListInv
  <1>2. engine.xfer \in [Requests -> Transfers]
    BY DEF IInv, Types, Engines
  <1>3. /\ engine'.xfer[r].state = state
        /\ engine'.xfer[r].num = engine.xfer[r].num
        /\ engine'.xfer[r].first = engine.xfer[r].first
        /\ \A s \in Requests \ {r} : engine'.xfer[s] = engine.xfer[s]
    BY <1>2 DEF Transfers
  <1>4. Types'
    BY DEF IInv, Types, caller
  <1>5. OneHolder'
    BY DEF IInv, OneHolder, caller
  <1>6. \A s \in Requests : s # r => pc[s] \notin Holding
    BY <1>1 DEF IInv, OneHolder, Answerable, Holding
  <1>7. ASSUME NEW s \in Requests PROVE Progress(s)'
    <2>1. Progress(s)
      BY DEF IInv
    <2>2. CASE s = r
      BY <1>1, <1>3, <2>1, <2>2 DEF Progress, Built, Answerable, caller
    <2>3. CASE s # r
      BY <1>3, <1>6, <2>1, <2>3 DEF Progress, Built, Answerable, Holding, caller
    <2> QED BY <2>2, <2>3
  <1>8. ChainsKept'
    BY <1>3, <1>6 DEF IInv, ChainsKept, Chained, Built, Holding, caller
  <1>9. ListInv'
    BY <1>3 DEF IInv, ListInv
  <1>10. RunInv' /\ AdminInv'
    BY DEF IInv, RunInv, AdminInv
  <1> QED BY <1>4, <1>5, <1>7, <1>8, <1>9, <1>10 DEF IInv

\* The list of a bottom half that may follow it.
LEMMA ServicedList ==
    ASSUME IInv, servicing, ~Dangling
    PROVE  \E r \in Requests :
              /\ engine.list = <<r>> /\ engine.xfer[r].state = "SUBMITTED"
              /\ pc[r] \in Answerable /\ engine.dequeued = 0
              /\ engine.count \in 0 .. engine.xfer[r].num
              /\ engine.busy => engine.running
  <1>1. PICK r \in Requests : engine.list = <<r>> /\ engine.xfer[r].state = "SUBMITTED"
    BY DEF IInv, RunInv, ListInv
  <1>2. /\ pc[r] \in Answerable /\ engine.dequeued = 0 /\ engine.list # <<>>
        /\ engine.count <= engine.xfer[r].num /\ (engine.busy => engine.running)
    BY <1>1 DEF IInv, ListInv, RunInv, Progress
  <1>3. engine.count \in 0 .. DescMax /\ engine.xfer[r].num \in Nat /\ DescMax \in Nat
    BY EngineAssumption DEF IInv, Types, Engines, Transfers
  <1> QED BY <1>1, <1>2, <1>3

\* The bottom half answers what the count covers.
LEMMA ServiceTransfersStep == IInv /\ ServiceTransfers => IInv'
  <1> SUFFICES ASSUME IInv, ServiceTransfers PROVE IInv'
    OBVIOUS
  <1> DEFINE f == service_transfers(engine)
  <1>1. /\ UNCHANGED <<pending, admin, caller, moved>> /\ servicing' = FALSE
        /\ engine' = [f EXCEPT !.irq = TRUE] /\ ~Dangling /\ servicing
    BY DEF ServiceTransfers
  <1>2. PICK r \in Requests :
              /\ engine.list = <<r>> /\ engine.xfer[r].state = "SUBMITTED"
              /\ pc[r] \in Answerable /\ engine.dequeued = 0
              /\ engine.count \in 0 .. engine.xfer[r].num
              /\ engine.busy => engine.running
    BY <1>1, ServicedList
  <1>3. f = answer_transfers(engine, engine.count)
    BY DEF service_transfers
  <1>4. CASE engine.count = 0 /\ f = engine
    <2>1. /\ engine' \in Engines /\ Kept(engine, engine') /\ engine'.pos = engine.pos
          /\ engine'.running = engine.running
          /\ engine'.busy = engine.busy /\ engine'.shutdown = engine.shutdown
      BY <1>1, <1>4 DEF Engines, Kept, IInv, Types
    <2>2. Types'
      BY <1>1, <2>1 DEF IInv, Types, admin, channel, caller
    <2>3. RunInv' /\ AdminInv'
      BY <1>1, <1>2, <2>1 DEF IInv, RunInv, AdminInv, admin, channel, Kept, Dangling
    <2> QED BY <1>1, <2>1, <2>2, <2>3, TransfersKept DEF IInv, admin, channel
  <1>5. ASSUME NEW state \in {"COMPLETED", "FAILED"},
               state = "COMPLETED" => engine.count = engine.xfer[r].num,
               f \in Engines, f.list = <<>>, ~f.running, ~f.busy,
               f.xfer = [engine.xfer EXCEPT ![r] = [@ EXCEPT !.state = state]],
               ("REQUEST" \in f.shutdown) <=> ("REQUEST" \in engine.shutdown),
               f.ring = engine.ring, f.count = engine.count, f.used = engine.used
        PROVE  IInv'
    <2> HIDE DEF f
    <2>1. /\ engine' \in Engines /\ engine'.list = <<>>
          /\ ~engine'.running /\ ~engine'.busy
          /\ engine'.xfer = [engine.xfer EXCEPT ![r] = [@ EXCEPT !.state = state]]
          /\ ("REQUEST" \in engine'.shutdown) <=> ("REQUEST" \in engine.shutdown)
          /\ engine'.ring = engine.ring /\ engine'.count = engine.count
      BY <1>1, <1>5 DEF Engines
    <2>2. /\ UNCHANGED <<pending, device, offline, resets, frozen, caller, moved>>
          /\ ~Dangling' /\ lost' = lost /\ (Counted' => Counted)
      BY <1>1 DEF admin, channel, Dangling, Counted
    <2>3. lost' \in SUBSET {"count", "abort"}
      BY <2>2 DEF IInv, Types
    <2> QED BY <1>1, <1>2, <1>5, <2>1, <2>2, <2>3, AnsweredStep
  <1>6. engine \in Engines
    BY DEF IInv, Types
  <1> QED BY <1>2, <1>3, <1>4, <1>5, <1>6, ServicedFields

\* A bottom half that reads the count of a frozen device: the transfer of the
\* list is answered, whatever was moved of it.
LEMMA ServiceTransfersFrozenStep == IInv /\ ServiceTransfersFrozen => IInv'
  <1> SUFFICES ASSUME IInv, ServiceTransfersFrozen PROVE IInv'
    OBVIOUS
  <1>1. /\ UNCHANGED <<pending, device, offline, resets, frozen, caller, moved>>
        /\ servicing' = FALSE /\ ~Dangling /\ servicing
        /\ engine' = answer_transfers(engine, AllOnes)
        /\ lost' = lost \cup {"count"}
    BY DEF ServiceTransfersFrozen
  <1>2. /\ ~Dangling' /\ ~Counted' /\ lost' \in SUBSET {"count", "abort"}
    BY <1>1 DEF Dangling, Counted, IInv, Types
  <1>3. PICK r \in Requests :
              /\ engine.list = <<r>> /\ engine.xfer[r].state = "SUBMITTED"
              /\ pc[r] \in Answerable /\ engine.dequeued = 0
              /\ engine.count \in 0 .. engine.xfer[r].num
              /\ engine.busy => engine.running
    BY <1>1, ServicedList
  <1>4. engine \in Engines /\ engine.xfer[r].num \in Nat
    BY EngineAssumption DEF IInv, Types, Engines, Transfers
  <1>5. AllOnes \in Nat /\ AllOnes # 0
    BY DEF AllOnes, Unsigned
  <1>6. \E state \in {"COMPLETED", "FAILED"} :
           /\ engine' \in Engines /\ engine'.list = <<>>
           /\ ~engine'.running /\ ~engine'.busy
           /\ engine'.xfer = [engine.xfer EXCEPT ![r] = [@ EXCEPT !.state = state]]
           /\ ("REQUEST" \in engine'.shutdown) <=> ("REQUEST" \in engine.shutdown)
           /\ engine'.ring = engine.ring /\ engine'.count = engine.count
           /\ engine'.used = engine.used
    <2>1. CASE AllOnes > engine.xfer[r].num
      BY <1>1, <1>3, <1>4, <1>5, <2>1, OvercountFields
    <2>2. CASE ~(AllOnes > engine.xfer[r].num)
      <3>1. AllOnes \in 0 .. engine.xfer[r].num
        BY <1>4, <1>5, <2>2
      <3> QED BY <1>1, <1>3, <1>4, <1>5, <3>1, ServicedFields
    <2> QED BY <2>1, <2>2
  <1> QED BY <1>1, <1>2, <1>3, <1>6, AnsweredStep

\* A status that reads all ones stops nothing.
LEMMA ServiceStatusFrozenStep == IInv /\ ServiceStatusFrozen => IInv'
  <1> SUFFICES ASSUME IInv, ServiceStatusFrozen PROVE IInv'
    OBVIOUS
  <1>1. engine' = [engine EXCEPT !.status = StatusOnes]
    BY DEF ServiceStatusFrozen
  <1>2. engine' \in Engines /\ Kept(engine, engine') /\ engine'.pos = engine.pos
        /\ engine'.running = engine.running /\ engine'.busy = engine.busy
        /\ engine'.shutdown = engine.shutdown
    BY <1>1 DEF IInv, Types, Engines, Kept, StatusOnes
  <1>3. UNCHANGED <<admin, caller, moved>> /\ pending' = FALSE
        /\ servicing' = engine.running
    BY DEF ServiceStatusFrozen
  <1>4. Types'
    BY <1>2, <1>3 DEF IInv, Types, Engines, admin, channel, caller
  <1>5. RunInv' /\ AdminInv'
    BY <1>2, <1>3 DEF IInv, RunInv, AdminInv, admin, channel, Kept, Dangling
  <1> QED BY <1>2, <1>3, <1>4, <1>5, TransfersKept DEF IInv, admin, channel

\* A freeze stops the hardware where it is, and the slot reset starts nothing.
LEMMA FreezeStep == IInv /\ (Freeze \/ SlotReset) => IInv'
  <1> SUFFICES ASSUME IInv, Freeze \/ SlotReset PROVE IInv'
    OBVIOUS
  <1>1. /\ UNCHANGED <<pending, servicing, device, offline, resets, lost, caller, moved>>
        /\ frozen' \in BOOLEAN
    BY DEF Freeze, SlotReset, driver
  <1>2. /\ engine' \in Engines /\ Kept(engine, engine') /\ engine'.pos = engine.pos
        /\ engine'.running = engine.running /\ engine'.shutdown = engine.shutdown
        /\ ~engine'.busy
    <2>1. CASE Freeze
      <3>1. engine' = [engine EXCEPT !.busy = FALSE, !.irq = FALSE, !.events = {}]
        BY <2>1 DEF Freeze
      <3> QED BY <3>1 DEF IInv, Types, Engines, Kept
    <2>2. CASE SlotReset
      BY <2>2 DEF SlotReset, driver, IInv, Types, RunInv, Kept
    <2> QED BY <2>1, <2>2
  <1>3. Types'
    BY <1>1, <1>2 DEF IInv, Types, caller
  <1>4. RunInv' /\ AdminInv'
    BY <1>1, <1>2 DEF IInv, RunInv, AdminInv, Kept
  <1> QED BY <1>1, <1>2, <1>3, <1>4, TransfersKept DEF IInv, admin, channel

\* Taking the device offline stops the engine and leaves its list; taking it
\* online starts nothing.
LEMMA ResetStep == IInv /\ Reset => IInv'
  <1> SUFFICES ASSUME IInv, Reset PROVE IInv'
    OBVIOUS
  <1>0. engine \in Engines
    BY DEF IInv, Types
  <1>1. UNCHANGED <<pending, servicing, caller, moved, frozen, lost>>
    BY DEF Reset, OfflineFlag, OfflineStop, OfflineInterrupts, OnlineEngine,
           OnlineFlag, driver, channel
  <1>2. /\ engine' \in Engines /\ Kept(engine, engine') /\ engine'.pos = engine.pos
        /\ engine'.running => engine.running
        /\ engine'.busy => engine.busy /\ (engine'.busy => engine'.running)
    <2>1. \/ engine' = engine
          \/ engine' = [engine EXCEPT !.shutdown = @ \cup {"REQUEST"},
                                      !.running = FALSE, !.busy = FALSE]
          \/ engine' = [engine EXCEPT !.shutdown = @ \ {"REQUEST"}]
          \/ \E irq \in BOOLEAN : engine' = [engine EXCEPT !.irq = irq]
          \/ engine' = [engine EXCEPT !.busy = FALSE, !.irq = FALSE, !.events = {}]
      <3>1. OnlineFlag /\ frozen =>
                engine' = [engine EXCEPT !.busy = FALSE, !.irq = FALSE, !.events = {}]
        BY <1>0 DEF OnlineFlag, Reach, Engines
      <3>2. OnlineFlag /\ ~frozen => engine' = [engine EXCEPT !.irq = TRUE]
        BY DEF OnlineFlag, Reach
      <3> QED
        BY <1>0, <3>1, <3>2
        DEF Reset, OfflineFlag, OfflineStop, OfflineInterrupts, OnlineEngine,
            driver, xdma_engine_stop, Engines
    <2>2. engine.busy => engine.running
      BY DEF IInv, RunInv
    <2>3. CASE engine' = engine
      BY <1>0, <2>2, <2>3 DEF Kept
    <2>4. CASE engine' = [engine EXCEPT !.shutdown = @ \cup {"REQUEST"},
                                        !.running = FALSE, !.busy = FALSE]
      BY <1>0, <2>4 DEF Engines, Kept
    <2>5. CASE engine' = [engine EXCEPT !.shutdown = @ \ {"REQUEST"}]
      BY <1>0, <2>2, <2>5 DEF Engines, Kept
    <2>6. ASSUME NEW irq \in BOOLEAN, engine' = [engine EXCEPT !.irq = irq]
          PROVE  /\ engine' \in Engines /\ Kept(engine, engine')
                 /\ engine'.pos = engine.pos
                 /\ engine'.running => engine.running
                 /\ engine'.busy => engine.busy /\ (engine'.busy => engine'.running)
      BY <1>0, <2>2, <2>6 DEF Engines, Kept
    <2>7. CASE engine' = [engine EXCEPT !.busy = FALSE, !.irq = FALSE, !.events = {}]
      BY <1>0, <2>7 DEF Engines, Kept
    <2> QED BY <2>1, <2>3, <2>4, <2>5, <2>6, <2>7
  <1>3. Types' /\ AdminInv'
    <2>1. CASE OfflineFlag
      <3>1. resets' \in 0 .. MaxResets
        BY <2>1, ResetAssumption DEF OfflineFlag, IInv, Types
      <3>2. Types'
        BY <1>1, <1>2, <2>1, <3>1 DEF OfflineFlag, IInv, Types, caller
      <3>3. AdminInv'
        BY <2>1 DEF OfflineFlag, IInv, AdminInv, driver
      <3> QED BY <3>2, <3>3
    <2>2. CASE OfflineStop
      <3>1. engine' = [engine EXCEPT !.shutdown = @ \cup {"REQUEST"},
                                     !.running = FALSE, !.busy = FALSE]
        BY <1>0, <2>2 DEF OfflineStop, xdma_engine_stop, Engines
      <3>2. ~engine'.running /\ "REQUEST" \in engine'.shutdown
        BY <1>0, <3>1 DEF Engines
      <3> QED BY <1>1, <1>2, <2>2, <3>2 DEF OfflineStop, IInv, Types, AdminInv, caller
    <2>3. CASE OfflineInterrupts
      <3>1. engine'.shutdown = engine.shutdown /\ engine'.running = engine.running
        BY <1>0, <2>3 DEF OfflineInterrupts, Engines
      <3> QED BY <1>1, <1>2, <2>3, <3>1
              DEF OfflineInterrupts, IInv, Types, AdminInv, caller
    <2>4. CASE OnlineEngine
      <3>1. "REQUEST" \notin engine'.shutdown
        BY <1>0, <2>4 DEF OnlineEngine, Engines
      <3> QED BY <1>1, <1>2, <2>4, <3>1 DEF OnlineEngine, IInv, Types, AdminInv, caller
    <2>5. CASE OnlineFlag
      <3>1. engine'.shutdown = engine.shutdown /\ engine'.running = engine.running
        BY <1>0, <2>5 DEF OnlineFlag, Engines, Reach
      <3>2. Types'
        BY <1>1, <1>2, <2>5, <3>1 DEF OnlineFlag, IInv, Types, caller
      <3>3. AdminInv'
        BY <2>5, <3>1 DEF OnlineFlag, IInv, AdminInv
      <3> QED BY <3>2, <3>3
    <2> QED BY <2>1, <2>2, <2>3, <2>4, <2>5 DEF Reset
  <1>4. RunInv'
    BY <1>1, <1>2 DEF IInv, RunInv, Kept, Dangling
  <1> QED BY <1>1, <1>2, <1>3, <1>4, TransfersKept DEF IInv, admin, channel

\* A bus error stops the engine in the middle of a transfer.
LEMMA BusErrorStep == IInv /\ BusError => IInv'
  <1> SUFFICES ASSUME IInv, BusError PROVE IInv'
    OBVIOUS
  <1>1. engine' = [engine EXCEPT !.busy = FALSE, !.events = @ \cup {"ERROR"}]
    BY DEF BusError, HwError
  <1>2. engine' \in Engines /\ Kept(engine, engine')
        /\ engine'.running = engine.running /\ ~engine'.busy
        /\ engine'.shutdown = engine.shutdown
    BY <1>1 DEF IInv, Types, Engines, Kept
  <1>3. UNCHANGED <<pending, servicing, admin, caller, moved>>
    BY DEF BusError
  <1>4. Types'
    BY <1>2, <1>3 DEF IInv, Types, admin, channel, caller
  <1>5. RunInv' /\ AdminInv'
    BY <1>2, <1>3 DEF IInv, RunInv, AdminInv, admin, channel, Kept, Dangling
  <1> QED BY <1>2, <1>3, <1>4, <1>5, TransfersKept DEF IInv, admin, channel

\* A busy hardware is at a descriptor of the transfer on the list.
LEMMA BusyFacts ==
    ASSUME IInv, engine.busy
    PROVE  \E r \in Requests :
              LET x == engine.xfer[r]
              IN  /\ engine.list = <<r>> /\ x.state = "SUBMITTED"
                  /\ pc[r] \in Answerable
                  /\ engine.pos = x.first + engine.count
                  /\ engine.count < x.num
                  /\ engine.ring[engine.pos].magic
                  /\ engine.ring[engine.pos].req = r
                  /\ engine.ring[engine.pos].index = done[r] + engine.count
                  /\ engine.ring[engine.pos].last = (engine.count = x.num - 1)
  <1>1. PICK r \in Requests : engine.list = <<r>> /\ engine.xfer[r].state = "SUBMITTED"
    BY DEF IInv, RunInv, ListInv
  <1>2. /\ pc[r] \in Answerable /\ engine.pos = engine.xfer[r].first + engine.count
        /\ engine.count < engine.xfer[r].num
    BY <1>1 DEF IInv, RunInv, ListInv
  <1>3. /\ engine.xfer[r].first \in Int /\ engine.xfer[r].num \in Int
        /\ engine.count \in Nat
    BY EngineAssumption DEF IInv, Types, Engines, Transfers, Slots
  <1>4. Chained(r)
    BY <1>1, <1>2 DEF IInv, ChainsKept, Answerable, Built
  <1>5. engine.pos \in engine.xfer[r].first ..
                         engine.xfer[r].first + engine.xfer[r].num - 1
    BY <1>2, <1>3
  <1>6. /\ engine.ring[engine.pos].magic
        /\ engine.ring[engine.pos].req = r
        /\ engine.ring[engine.pos].index = done[r] + (engine.pos - engine.xfer[r].first)
        /\ engine.ring[engine.pos].last =
              (engine.pos = engine.xfer[r].first + engine.xfer[r].num - 1)
    BY <1>4, <1>5 DEF Chained
  <1>7. /\ engine.pos - engine.xfer[r].first = engine.count
        /\ (engine.pos = engine.xfer[r].first + engine.xfer[r].num - 1)
              = (engine.count = engine.xfer[r].num - 1)
    BY <1>2, <1>3
  <1> QED BY <1>1, <1>2, <1>6, <1>7

\* One more item lengthens what was moved.
LEMMA IntervalGrows ==
    ASSUME NEW d \in Nat, NEW c \in Nat
    PROVE  (0 .. d + c - 1) \cup {d + c} = 0 .. d + (c + 1) - 1
  OBVIOUS

\* The hardware moves the next descriptor of the transfer on the list.
LEMMA MoveStep == IInv /\ Move => IInv'
  <1> SUFFICES ASSUME IInv, Move PROVE IInv'
    OBVIOUS
  <1>0. engine \in Engines /\ engine.busy
    BY DEF IInv, Types, Move
  <1>1. PICK r \in Requests :
           /\ engine.list = <<r>> /\ engine.xfer[r].state = "SUBMITTED"
           /\ pc[r] \in Answerable
           /\ engine.pos = engine.xfer[r].first + engine.count
           /\ engine.count < engine.xfer[r].num
           /\ engine.ring[engine.pos].req = r
           /\ engine.ring[engine.pos].index = done[r] + engine.count
           /\ engine.ring[engine.pos].last = (engine.count = engine.xfer[r].num - 1)
    BY <1>0, BusyFacts
  <1>2. UNCHANGED <<pending, servicing, admin, caller>>
    BY DEF Move
  <1>3. moved' = [moved EXCEPT ![r] = @ \cup {done[r] + engine.count}]
    BY <1>1 DEF Move
  <1>4. /\ done[r] \in Nat /\ next[r] \in 0 .. MaxDescs /\ engine.count \in Nat
        /\ engine.xfer[r].num \in 0 .. DescMax /\ engine.xfer[r].first \in Slots
        /\ engine.xfer[r].first + engine.xfer[r].num <= DescMax
        /\ next[r] = done[r] + engine.xfer[r].num
        /\ Counted => moved[r] = 0 .. done[r] + engine.count - 1
    BY <1>0, <1>1 DEF IInv, Types, Engines, Transfers, Progress, Answerable, Built
  <1>5. engine' = HwMove(engine)
    BY DEF Move
  <1>6. /\ engine' \in Engines
        /\ engine'.list = engine.list /\ engine'.xfer = engine.xfer
        /\ engine'.ring = engine.ring /\ engine'.dequeued = engine.dequeued
        /\ engine'.shutdown = engine.shutdown /\ engine'.running = engine.running
        /\ engine'.count = engine.count + 1
        /\ engine'.busy => /\ engine'.pos = engine.pos + 1
                           /\ engine.count + 1 < engine.xfer[r].num
    <2>1. CASE engine.count = engine.xfer[r].num - 1
      <3>1. engine' = [engine EXCEPT !.count = @ + 1, !.busy = FALSE,
                                     !.events = @ \cup {"STOPPED"}]
        BY <1>1, <1>5, <2>1 DEF HwMove
      <3>2. engine.count + 1 \in 0 .. DescMax
        BY <1>1, <1>4, EngineAssumption, SMTT(30)
      <3> QED BY <1>0, <3>1, <3>2 DEF Engines
    <2>2. CASE engine.count # engine.xfer[r].num - 1
      <3>1. engine' = [engine EXCEPT !.count = @ + 1, !.pos = @ + 1]
        BY <1>1, <1>5, <2>2 DEF HwMove
      <3>2. engine.count + 1 \in 0 .. DescMax /\ engine.pos + 1 \in Slots
            /\ engine.count + 1 < engine.xfer[r].num
        <4> DEFINE c == engine.count
                   n == engine.xfer[r].num
                   first == engine.xfer[r].first
        <4>1. c \in Nat /\ n \in Nat /\ first \in Nat /\ DescMax \in Nat
              /\ c < n /\ c # n - 1 /\ first + n <= DescMax
              /\ engine.pos = first + c
          BY <1>1, <1>4, <2>2, EngineAssumption DEF Slots
        <4> HIDE DEF c, n, first
        <4>2. c + 1 \in 0 .. DescMax /\ engine.pos + 1 \in 0 .. DescMax - 1 /\ c + 1 < n
          BY <4>1
        <4> QED BY <4>2 DEF c, n, Slots
      <3> QED BY <1>0, <3>1, <3>2 DEF Engines
    <2> QED BY <2>1, <2>2
  <1>7. Types'
    <2>1. done[r] + engine.count \in 0 .. MaxDescs - 1
      BY <1>1, <1>4, EngineAssumption
    <2>2. moved' \in [Requests -> SUBSET (0 .. MaxDescs - 1)]
      BY <1>3, <2>1 DEF IInv, Types
    <2> QED BY <1>2, <1>6, <2>2 DEF IInv, Types, admin, channel, caller
  <1>8. OneHolder'
    BY <1>2 DEF IInv, OneHolder, caller
  <1>9. \A s \in Requests : s # r => pc[s] \notin Holding
    BY <1>1 DEF IInv, OneHolder, Answerable, Holding
  <1>10. ASSUME NEW s \in Requests PROVE Progress(s)'
    <2>0. Counted' = Counted
      BY <1>2 DEF Counted, admin, channel
    <2>1. Progress(s)
      BY DEF IInv
    <2>2. CASE s = r
      <3>1. Counted => moved'[r] = 0 .. done[r] + (engine.count + 1) - 1
        BY <1>3, <1>4, IntervalGrows DEF IInv, Types
      <3>2. engine.count + 1 <= engine.xfer[r].num
        BY <1>1, <1>4
      <3> QED BY <1>1, <1>2, <1>6, <2>0, <2>1, <2>2, <3>1, <3>2
              DEF Progress, Built, Answerable, caller
    <2>3. CASE s # r
      <3>1. moved'[s] = moved[s]
        BY <1>3, <2>3 DEF IInv, Types
      <3> QED BY <1>2, <1>6, <1>9, <2>0, <2>1, <2>3, <3>1
              DEF Progress, Built, Answerable, Holding, caller
    <2> QED BY <2>2, <2>3
  <1>11. ChainsKept' /\ ListInv'
    BY <1>2, <1>6
    DEF IInv, ChainsKept, Chained, ListInv, caller, Dangling, admin, channel
  <1>12. RunInv'
    <2>1. \A s \in Requests : engine'.list = <<s>> => s = r
      BY <1>1, <1>6
    <2>2. engine.pos + 1 = engine.xfer[r].first + (engine.count + 1)
      <3> DEFINE first == engine.xfer[r].first
      <3>1. first \in Int /\ engine.count \in Int /\ engine.pos = first + engine.count
        BY <1>1, <1>4, EngineAssumption DEF Slots
      <3> HIDE DEF first
      <3>2. engine.pos + 1 = first + (engine.count + 1)
        BY <3>1
      <3> QED BY <3>2 DEF first
    <2>3. engine'.busy => engine.running
      BY <1>0 DEF IInv, RunInv
    <2>4. ~frozen' /\ ~Dangling'
      BY <1>0, <1>2 DEF IInv, RunInv, Dangling, admin, channel
    <2>5. ASSUME NEW s \in Requests, engine'.busy, engine'.list = <<s>>
          PROVE  /\ engine'.pos = engine'.xfer[s].first + engine'.count
                 /\ engine'.count < engine'.xfer[s].num
      BY <1>1, <1>6, <2>1, <2>2, <2>5
    <2>6. engine'.running => engine'.list # <<>>
      BY <1>1, <1>6
    <2>7. servicing' => engine'.list # <<>>
      BY <1>1, <1>6
    <2> QED BY <1>6, <2>3, <2>4, <2>5, <2>6, <2>7 DEF RunInv
  <1>13. AdminInv'
    BY <1>2, <1>6 DEF IInv, AdminInv, admin, channel
  <1> QED BY <1>7, <1>8, <1>10, <1>11, <1>12, <1>13 DEF IInv

-----------------------------------------------------------------------------
(* Steps of a caller *)

\* A caller that has desc_lock is the only one.
LEMMA OnlyHolder ==
    ASSUME IInv, NEW r \in Requests, pc[r] \in Holding
    PROVE  \A s \in Requests : s # r => pc[s] \notin Holding
  BY DEF IInv, OneHolder

\* Waiting for the lock and taking it, the check of the flag, waking up: only
\* the point the caller is at changes.
LEMMA PointStep ==
    ASSUME IInv, NEW r \in Requests,
           \/ \E n \in 1 .. MaxDescs : Submit(r, n)
           \/ LockRing(r) \/ CheckOnline(r) \/ Wake(r) \/ Timeout(r)
    PROVE  IInv'
  <1> DEFINE Point(from, to) == pc[r] = from /\ pc' = [pc EXCEPT ![r] = to]
  <1>1. UNCHANGED <<driver, admin, next, done, moved>>
    BY DEF Submit, LockRing, CheckOnline, Wake, Timeout
  <1>2. \/ /\ Point("out", "enter")
           /\ \E n \in 1 .. MaxDescs : total' = [total EXCEPT ![r] = n]
        \/ Point("enter", "init") /\ desc_lock_free /\ UNCHANGED total
        \/ Point("queue", "admit") /\ UNCHANGED total
        \/ Point("wait", "woken") /\ UNCHANGED total
    BY DEF Submit, LockRing, CheckOnline, Wake, Timeout
  <1>3. Types'
    BY <1>1, <1>2, EngineAssumption DEF IInv, Types, Holding, driver, admin, channel
  <1>4. OneHolder'
    BY <1>2 DEF IInv, Types, OneHolder, Holding, desc_lock_free
  <1>5. ASSUME NEW s \in Requests PROVE Progress(s)'
    <2>1. Progress(s) /\ total[s] \in Nat /\ Counted' = Counted
      BY <1>1, EngineAssumption DEF IInv, Types, Counted, admin, channel
    <2>2. CASE s = r
      <3>1. pc'[r] \in {"enter", "init", "admit", "woken"}
        BY <1>2 DEF IInv, Types
      <3>2. CASE pc'[r] = "enter"
        <4>1. pc[r] = "out" /\ total'[r] > 0
          BY <1>2, <3>2 DEF IInv, Types
        <4> QED BY <1>1, <2>1, <2>2, <3>2, <4>1 DEF Progress, Built, Answerable, driver
      <3>3. CASE pc'[r] = "init"
        <4>1. pc[r] = "enter" /\ total'[r] = total[r]
          BY <1>2, <3>3 DEF IInv, Types
        <4>2. 0 .. 0 - 1 = {}
          OBVIOUS
        <4> QED BY <1>1, <2>1, <2>2, <3>3, <4>1, <4>2
                DEF Progress, Built, Answerable, driver
      <3>4. CASE pc'[r] = "admit"
        <4>1. pc[r] = "queue" /\ total'[r] = total[r]
          BY <1>2, <3>4 DEF IInv, Types
        <4> QED BY <1>1, <2>1, <2>2, <3>4, <4>1 DEF Progress, Built, Answerable, driver
      <3>5. CASE pc'[r] = "woken"
        <4>1. pc[r] = "wait" /\ total'[r] = total[r]
          BY <1>2, <3>5 DEF IInv, Types
        <4> QED BY <1>1, <2>1, <2>2, <3>5, <4>1 DEF Progress, Built, Answerable, driver
      <3> QED BY <3>1, <3>2, <3>3, <3>4, <3>5
    <2>3. CASE s # r
      <3>1. pc'[s] = pc[s] /\ total'[s] = total[s]
        BY <1>2, <2>3 DEF IInv, Types
      <3> QED BY <1>1, <2>1, <3>1 DEF Progress, driver
    <2> QED BY <2>2, <2>3
  <1>6. ChainsKept'
    BY <1>1, <1>2 DEF IInv, Types, ChainsKept, Chained, Built, driver, Progress
  <1>7. ListInv'
    BY <1>1, <1>2
    DEF IInv, Types, ListInv, Answerable, driver, admin, channel, Dangling
  <1>8. RunInv' /\ AdminInv'
    BY <1>1 DEF IInv, RunInv, AdminInv, driver, admin, channel, Dangling
  <1> QED BY <1>3, <1>4, <1>5, <1>6, <1>7, <1>8 DEF IInv

\* A chain is never empty, within the request, and within the ring.
LEMMA ChainLengthBounds ==
    ASSUME NEW e \in Engines, NEW n \in Nat \ {0}
    PROVE  /\ ChainLength(e, n) \in 1 .. n
           /\ ChainLength(e, n) \in 1 .. DescMax
           /\ e.idx + ChainLength(e, n) <= DescMax
  <1>1. e.idx \in 0 .. DescMax - 1 /\ DescMax \in Nat
    BY EngineAssumption DEF Engines, Slots
  <1> QED BY <1>1 DEF ChainLength, Smaller

\* What transfer_init makes of e: f has a chain of num descriptors for r, from
\* software descriptor k on, and the transfer that owns it.
Initialised(e, f, r, k, num) ==
    /\ f \in Engines
    /\ f.xfer = [e.xfer EXCEPT ![r] = [state |-> "NEW", first |-> e.idx, num |-> num]]
    /\ f.list = e.list /\ f.dequeued = e.dequeued
    /\ f.running = e.running /\ f.busy = e.busy /\ f.shutdown = e.shutdown
    /\ f.count = e.count /\ f.pos = e.pos /\ f.used = e.used + num
    /\ f.ring = [i \in Slots |->
                    IF i \in e.idx .. e.idx + num - 1
                    THEN [magic |-> TRUE, req |-> r, index |-> k + i - e.idx,
                          last |-> i = e.idx + num - 1]
                    ELSE e.ring[i]]

\* What transfer_init writes into the engine.
LEMMA InitFields ==
    ASSUME NEW e \in Engines, NEW r \in Requests,
           NEW k, NEW n, k \in Nat, n \in 0 .. MaxDescs, k < n
    PROVE  Initialised(e, transfer_init(e, r, k, n), r, k, ChainLength(e, n - k))
  <1> DEFINE num == ChainLength(e, n - k)
             ring == [i \in Slots |->
                         IF i \in e.idx .. e.idx + num - 1
                         THEN [magic |-> TRUE, req |-> r, index |-> k + i - e.idx,
                               last |-> i = e.idx + num - 1]
                         ELSE e.ring[i]]
             x == [state |-> "NEW", first |-> e.idx, num |-> num]
  <1>0. e.idx \in 0 .. DescMax - 1 /\ DescMax \in Nat \ {0} /\ n \in Nat
        /\ MaxDescs \in Nat
    BY EngineAssumption DEF Engines, Slots
  <1>1. num \in 1 .. n - k /\ num \in 1 .. DescMax /\ e.idx + num <= DescMax
    <2>1. n - k \in Nat \ {0}
      BY <1>0
    <2> QED BY <2>1, ChainLengthBounds
  <1>2. transfer_init(e, r, k, n) =
          [e EXCEPT !.ring = ring, !.xfer[r] = x,
                    !.idx = (e.idx + num) % DescMax, !.used = e.used + num]
    BY DEF transfer_init
  <1> HIDE DEF num
  <1>3. x \in Transfers
    BY <1>0, <1>1 DEF Transfers, TransferStates, Slots
  <1>4. ring \in [Slots -> Descriptors]
    <2> SUFFICES ASSUME NEW i \in Slots
                 PROVE  (IF i \in e.idx .. e.idx + num - 1
                         THEN [magic |-> TRUE, req |-> r, index |-> k + i - e.idx,
                               last |-> i = e.idx + num - 1]
                         ELSE e.ring[i]) \in Descriptors
      OBVIOUS
    <2>1. CASE i \in e.idx .. e.idx + num - 1
      <3>1. k + i - e.idx \in 0 .. MaxDescs - 1
        BY <1>0, <1>1, <2>1
      <3> QED BY <2>1, <3>1 DEF Descriptors
    <2>2. CASE i \notin e.idx .. e.idx + num - 1
      BY <2>2 DEF Engines
    <2> QED BY <2>1, <2>2
  <1>5. (e.idx + num) % DescMax \in Slots /\ e.used + num \in Int
    BY <1>0, <1>1 DEF Slots, Engines
  <1> DEFINE idx == (e.idx + num) % DescMax
  <1> HIDE DEF ring, x, idx
  <1>6. LET f == [e EXCEPT !.ring = ring, !.xfer[r] = x, !.idx = idx,
                           !.used = e.used + num]
        IN  /\ f \in Engines
            /\ f.xfer = [e.xfer EXCEPT ![r] = x] /\ f.ring = ring
            /\ f.list = e.list /\ f.dequeued = e.dequeued
            /\ f.running = e.running /\ f.busy = e.busy /\ f.shutdown = e.shutdown
            /\ f.count = e.count /\ f.pos = e.pos /\ f.used = e.used + num
    BY <1>3, <1>4, <1>5 DEF Engines, idx
  <1> QED BY <1>2, <1>6 DEF Initialised, num, x, idx, ring

\* The list and the hardware are idle unless the lock holder waits, or a freed
\* transfer is on the list.
LEMMA IdleEngine ==
    ASSUME IInv, NEW r \in Requests, pc[r] \in {"init", "queue", "admit"}
    PROVE  /\ ~engine.busy
           /\ ~Dangling => engine.list = <<>> /\ ~engine.running /\ ~servicing
  <1>1. \A s \in Requests : s # r => pc[s] \notin Holding
    BY OnlyHolder DEF Holding
  <1>2. ~Dangling => engine.list = <<>>
    BY <1>1 DEF IInv, ListInv, Answerable, Holding
  <1> QED BY <1>2 DEF IInv, RunInv

\* xdma_init_request and transfer_init build the next chunk of a request.
LEMMA BuildStep ==
    ASSUME IInv, NEW r \in Requests, Build(r)
    PROVE  IInv'
  <1> DEFINE num == ChainLength(engine, total[r] - next[r])
  <1>0. engine \in Engines /\ pc[r] = "init" /\ Progress(r)
    BY DEF IInv, Types, Build
  <1>1. /\ next[r] \in Nat /\ total[r] \in 0 .. MaxDescs /\ next[r] < total[r]
        /\ MaxDescs \in Nat /\ engine.idx \in 0 .. DescMax - 1 /\ DescMax \in Nat
    BY <1>0, EngineAssumption DEF IInv, Types, Progress, Engines, Slots
  <1>2. num \in 1 .. total[r] - next[r] /\ engine.idx + num <= DescMax
    <2>1. total[r] - next[r] \in Nat \ {0}
      BY <1>1
    <2> QED BY <1>0, <2>1, ChainLengthBounds
  <1>3. /\ ~engine.busy
        /\ ~Dangling => engine.list = <<>> /\ ~engine.running /\ ~servicing
    BY <1>0, IdleEngine
  <1>4. /\ engine' \in Engines
        /\ engine'.xfer = [engine.xfer EXCEPT ![r] = [state |-> "NEW",
                                                      first |-> engine.idx, num |-> num]]
        /\ engine'.list = engine.list /\ engine'.dequeued = engine.dequeued
        /\ engine'.running = engine.running /\ ~engine'.busy
        /\ engine'.shutdown = engine.shutdown
        /\ engine'.ring = [i \in Slots |->
                              IF i \in engine.idx .. engine.idx + num - 1
                              THEN [magic |-> TRUE, req |-> r,
                                    index |-> next[r] + i - engine.idx,
                                    last |-> i = engine.idx + num - 1]
                              ELSE engine.ring[i]]
    <2>1. engine' = transfer_init(engine, r, next[r], total[r])
      BY DEF Build
    <2>2. Initialised(engine, engine', r, next[r], num)
      BY <1>0, <1>1, <2>1, InitFields
    <2> QED BY <1>3, <2>2 DEF Initialised
  <1>5. /\ next' = [next EXCEPT ![r] = @ + num]
        /\ pc' = [pc EXCEPT ![r] = "queue"]
        /\ UNCHANGED <<pending, servicing, admin, total, done, moved>>
    BY DEF Build
  <1> HIDE DEF num
  <1>6. Types'
    <2>1. next[r] + num \in 0 .. MaxDescs
      BY <1>1, <1>2
    <2> QED BY <1>4, <1>5, <2>1 DEF IInv, Types, Holding, admin, channel
  <1>7. \A s \in Requests : s # r => pc[s] \notin Holding
    BY <1>0, OnlyHolder DEF Holding
  <1>8. OneHolder'
    BY <1>5, <1>7 DEF IInv, Types, OneHolder
  <1>9. engine'.xfer[r] = [state |-> "NEW", first |-> engine.idx, num |-> num]
        /\ \A s \in Requests : s # r => engine'.xfer[s] = engine.xfer[s]
    BY <1>0, <1>4 DEF Engines
  <1>10. ASSUME NEW s \in Requests PROVE Progress(s)'
    <2>0. Counted' = Counted
      BY <1>5 DEF Counted, admin, channel
    <2>1. CASE s = r
      <3>1. pc'[r] = "queue" /\ next'[r] = next[r] + num /\ next[r] + num <= total[r]
        BY <1>1, <1>2, <1>5 DEF IInv, Types
      <3>2. done[r] = next[r] /\ (Counted => moved[r] = 0 .. done[r] - 1)
        BY <1>0 DEF Progress
      <3> QED BY <1>2, <1>5, <1>9, <2>0, <2>1, <3>1, <3>2
              DEF Progress, Built, Answerable
    <2>2. CASE s # r
      <3>1. pc'[s] = pc[s] /\ next'[s] = next[s] /\ pc[s] \notin Holding
        BY <1>5, <1>7, <2>2 DEF IInv, Types
      <3>2. Progress(s)
        BY DEF IInv
      <3> QED BY <1>5, <1>9, <2>0, <2>2, <3>1, <3>2
              DEF Progress, Built, Answerable, Holding
    <2> QED BY <2>1, <2>2
  <1>11. ChainsKept'
    <2>1. \A s \in Requests : s # r => pc'[s] \notin Built
      BY <1>5, <1>7 DEF IInv, Types, Built, Holding
    <2>2. Chained(r)'
      <3> SUFFICES ASSUME NEW i \in engine.idx .. engine.idx + num - 1
                   PROVE  /\ engine'.ring[i].magic
                          /\ engine'.ring[i].req = r
                          /\ engine'.ring[i].index = done[r] + (i - engine.idx)
                          /\ engine'.ring[i].last = (i = engine.idx + num - 1)
        BY <1>5, <1>9 DEF Chained
      <3>1. next[r] + i - engine.idx = done[r] + (i - engine.idx)
        BY <1>0, <1>1, <1>2 DEF Progress
      <3>2. engine'.ring[i] = [magic |-> TRUE, req |-> r,
                               index |-> next[r] + i - engine.idx,
                               last |-> i = engine.idx + num - 1]
        <4>1. i \in Slots
          BY <1>1, <1>2 DEF Slots
        <4> QED BY <1>4, <4>1
      <3> QED BY <3>1, <3>2
    <2> QED BY <2>1, <2>2 DEF ChainsKept
  <1>12. ListInv'
    <2>1. \A s \in Requests : engine'.xfer[s].state # "SUBMITTED"
      BY <1>7, <1>9 DEF IInv, ListInv, Answerable, Holding
    <2>2. Dangling' = Dangling /\ \A s \in Requests : pc'[s] \notin Answerable
      BY <1>5, <1>7
      DEF IInv, Types, Dangling, admin, channel, Answerable, Holding
    <2> QED BY <1>3, <1>4, <2>1, <2>2 DEF IInv, ListInv
  <1>13. RunInv' /\ AdminInv'
    BY <1>3, <1>4, <1>5 DEF IInv, RunInv, AdminInv, admin, channel, Dangling
  <1> QED BY <1>6, <1>8, <1>10, <1>11, <1>12, <1>13 DEF IInv

\* What transfer_queue makes of an idle engine e: f runs the transfer of r.
Started(e, f, r) ==
    /\ f \in Engines
    /\ f.xfer = [e.xfer EXCEPT ![r] = [@ EXCEPT !.state = "SUBMITTED"]]
    /\ f.list = <<r>> /\ f.dequeued = 0
    /\ f.running /\ f.shutdown = {}
    /\ f.count = 0 /\ f.pos = e.xfer[r].first /\ f.used = e.used
    /\ f.ring = e.ring

\* What transfer_queue writes into an idle engine.
LEMMA QueueFields ==
    ASSUME NEW e \in Engines, NEW r \in Requests, e.list = <<>>, ~e.running
    PROVE  /\ Started(e, transfer_queue(e, r), r)
           /\ Started(e, Reach(transfer_queue(e, r)), r)
           /\ Reach(transfer_queue(e, r)).busy => ~frozen
  <1> DEFINE x == [e.xfer EXCEPT ![r] = [@ EXCEPT !.state = "SUBMITTED"]]
             q == [e EXCEPT !.xfer = x, !.list = <<r>>]
             status == q.events \cup {"BUSY"}
  <1>1. e.xfer[r] \in Transfers
    BY DEF Engines
  <1>2. x \in [Requests -> Transfers] /\ x[r].first = e.xfer[r].first
        /\ x[r].first \in Slots /\ <<r>> \in Seq(Requests)
    BY <1>1 DEF Engines, Transfers, TransferStates
  <1>3. transfer_queue(e, r) = engine_start(q)
    <2>1. Append(e.list, r) = <<r>>
      OBVIOUS
    <2> QED BY <2>1 DEF transfer_queue
  <1> HIDE DEF x
  <1>4. /\ q \in Engines /\ q.xfer = x /\ q.list = <<r>> /\ ~q.running
        /\ q.ring = e.ring /\ q.used = e.used /\ q.events = e.events
    BY <1>2 DEF Engines
  <1>5. Head(q.list) = r /\ q.list # <<>>
    BY <1>4
  <1> HIDE DEF q
  <1>6. status \in SUBSET {"BUSY", "STOPPED", "ERROR"} /\ 0 \in 0 .. DescMax
    BY <1>4, EngineAssumption DEF Engines
  <1>7. engine_start(q) =
          [q EXCEPT !.shutdown = {}, !.dequeued = 0, !.running = TRUE,
                    !.busy = TRUE, !.count = 0, !.status = status,
                    !.pos = x[r].first]
    BY <1>4, <1>5 DEF engine_start
  <1> HIDE DEF status
  <1> DEFINE f == [q EXCEPT !.shutdown = {}, !.dequeued = 0, !.running = TRUE,
                            !.busy = TRUE, !.count = 0, !.status = status,
                            !.pos = x[r].first]
  <1>8. /\ f \in Engines /\ f.xfer = q.xfer /\ f.list = q.list /\ f.dequeued = 0
        /\ f.running /\ f.busy /\ f.shutdown = {} /\ f.count = 0
        /\ f.pos = x[r].first /\ f.used = q.used /\ f.ring = q.ring
    BY <1>2, <1>4, <1>6 DEF Engines
  <1>9. Started(e, transfer_queue(e, r), r) /\ f = transfer_queue(e, r)
    BY <1>2, <1>3, <1>4, <1>7, <1>8 DEF Started, x
  <1> HIDE DEF f
  <1> DEFINE g == [f EXCEPT !.busy = FALSE, !.irq = FALSE, !.events = {}]
  <1>10. /\ g \in Engines /\ g.xfer = f.xfer /\ g.list = f.list
         /\ g.dequeued = f.dequeued /\ g.running = f.running
         /\ g.shutdown = f.shutdown /\ g.count = f.count /\ g.pos = f.pos
         /\ g.used = f.used /\ g.ring = f.ring /\ ~g.busy
    BY <1>8 DEF Engines
  <1>11. Started(e, g, r)
    BY <1>9, <1>10 DEF Started
  <1>12. Reach(f) = IF frozen THEN g ELSE f
    BY DEF Reach
  <1> QED BY <1>9, <1>10, <1>11, <1>12

\* The transfer is queued and the engine, which was idle, started on it.
LEMMA QueueStep ==
    ASSUME IInv, NEW r \in Requests, Queue(r)
    PROVE  IInv'
  <1>0. engine \in Engines /\ pc[r] = "admit" /\ Progress(r) /\ Accepts(engine)
        /\ ~Dangling
    BY DEF IInv, Types, Queue
  <1>1. engine.list = <<>> /\ ~engine.running /\ ~engine.busy /\ ~servicing
    BY <1>0, IdleEngine
  <1>2. Started(engine, engine', r) /\ (engine'.busy => ~frozen)
    BY <1>0, <1>1, QueueFields DEF Queue
  <1>3. /\ pc' = [pc EXCEPT ![r] = "wait"]
        /\ UNCHANGED <<pending, servicing, admin, total, next, done, moved>>
    BY DEF Queue
  <1>4. \A s \in Requests : s # r => pc[s] \notin Holding
    BY <1>0, OnlyHolder DEF Holding
  <1>5. /\ engine'.xfer[r].state = "SUBMITTED"
        /\ engine'.xfer[r].num = engine.xfer[r].num
        /\ engine'.xfer[r].first = engine.xfer[r].first
        /\ \A s \in Requests : s # r => engine'.xfer[s] = engine.xfer[s]
    BY <1>0, <1>2 DEF Started, Engines, Transfers
  <1>6. Types'
    BY <1>2, <1>3 DEF IInv, Types, Holding, admin, channel, Started
  <1>7. OneHolder'
    BY <1>3, <1>4 DEF IInv, Types, OneHolder
  <1>8. /\ engine.xfer[r].num \in Nat /\ engine.xfer[r].num > 0 /\ done[r] \in Nat
        /\ engine.xfer[r].first \in Nat
        /\ (Counted => moved[r] = 0 .. done[r] - 1) /\ engine.xfer[r].state = "NEW"
    BY <1>0, EngineAssumption
    DEF Progress, Built, IInv, Types, Engines, Transfers, Slots
  <1>9. ASSUME NEW s \in Requests PROVE Progress(s)'
    <2>0. Progress(s) /\ Counted' = Counted
      BY <1>3 DEF IInv, Counted, admin, channel
    <2>1. CASE s = r
      <3>1. done[r] + 0 - 1 = done[r] - 1
        BY <1>8
      <3>2. pc'[r] = "wait"
        BY <1>3 DEF IInv, Types
      <3> QED BY <1>0, <1>2, <1>3, <1>5, <1>8, <2>0, <2>1, <3>1, <3>2
              DEF Progress, Built, Answerable, Started
    <2>2. CASE s # r
      <3>1. pc'[s] = pc[s] /\ pc[s] \notin Holding
        BY <1>3, <1>4, <2>2 DEF IInv, Types
      <3> QED BY <1>3, <1>5, <2>0, <2>2, <3>1 DEF Progress, Built, Answerable, Holding
    <2> QED BY <2>1, <2>2
  <1>10. ChainsKept'
    <2>1. \A s \in Requests : s # r => pc'[s] \notin Built
      BY <1>3, <1>4 DEF IInv, Types, Built, Holding
    <2>2. Chained(r)
      BY <1>0, <1>8 DEF IInv, ChainsKept, Built
    <2>3. Chained(r)'
      BY <1>2, <1>3, <1>5, <2>2 DEF Chained, Started
    <2> QED BY <2>1, <2>3 DEF ChainsKept
  <1>11. ListInv'
    <2>1. \A s \in Requests : s # r => engine'.xfer[s].state # "SUBMITTED"
      BY <1>4, <1>5 DEF IInv, Progress, Built, Holding, NoTransfer
    <2>2. ~Dangling'
      BY <1>0, <1>3 DEF Dangling, admin, channel
    <2> QED BY <1>2, <1>3, <1>5, <2>1, <2>2
            DEF IInv, Types, ListInv, Answerable, Started
  <1>12. RunInv'
    <2>1. engine.xfer[r].first = engine.xfer[r].first + 0
      BY <1>8
    <2>2. \A s \in Requests : engine'.list = <<s>> => s = r
      BY <1>2 DEF Started
    <2>3. ~Dangling' /\ frozen' = frozen
      BY <1>0, <1>3 DEF Dangling, admin, channel
    <2> QED BY <1>1, <1>2, <1>3, <1>5, <1>8, <2>1, <2>2, <2>3 DEF RunInv, Started
  <1>13. AdminInv'
    BY <1>0, <1>2, <1>3 DEF IInv, AdminInv, Accepts, Started, admin, channel
  <1> QED BY <1>6, <1>7, <1>9, <1>10, <1>11, <1>12, <1>13 DEF IInv

\* What ending the transfer of r makes of e: in f, r has no transfer.
Released(e, f, r) ==
    /\ f \in Engines
    /\ f.xfer = [e.xfer EXCEPT ![r] = NoTransfer]
    /\ f.shutdown = e.shutdown /\ f.count = e.count

\* Nothing is listed, and the engine is stopped.
Idle(e) == e.list = <<>> /\ ~e.running /\ ~e.busy

\* From e to f list and engine stay as they are.
ListKept(e, f) ==
    /\ f.list = e.list /\ f.dequeued = e.dequeued
    /\ f.running = e.running /\ f.busy = e.busy

\* A transfer that has not been built is one.
LEMMA NoTransferType == NoTransfer \in Transfers
  BY EngineAssumption DEF NoTransfer, Transfers, TransferStates, Slots

\* What transfer_destroy gives back.
LEMMA DestroyFields ==
    ASSUME NEW e \in Engines, NEW r \in Requests
    PROVE  /\ Released(e, transfer_destroy(e, r), r)
           /\ ListKept(e, transfer_destroy(e, r))
           /\ transfer_destroy(e, r).used = e.used - e.xfer[r].num
  <1> DEFINE x == e.xfer[r]
             ring == [i \in Slots |-> IF i \in x.first .. x.first + x.num - 1
                                      THEN NoDescriptor ELSE e.ring[i]]
             used == e.used - x.num
  <1>1. used \in Int
    BY EngineAssumption DEF Engines, Transfers
  <1>2. ring \in [Slots -> Descriptors]
    BY DEF Engines, Descriptors
  <1>3. transfer_destroy(e, r) =
          [e EXCEPT !.used = used, !.ring = ring, !.xfer[r] = NoTransfer]
    BY DEF transfer_destroy
  <1> HIDE DEF ring, used
  <1> DEFINE f == [e EXCEPT !.used = used, !.ring = ring, !.xfer[r] = NoTransfer]
  <1>4. /\ f \in Engines /\ f.xfer = [e.xfer EXCEPT ![r] = NoTransfer]
        /\ ListKept(e, f)
        /\ f.shutdown = e.shutdown /\ f.count = e.count /\ f.used = used
    BY <1>1, <1>2, NoTransferType DEF Engines, ListKept
  <1> QED BY <1>3, <1>4 DEF Released, used

\* -ERESTARTSYS: the transfer is taken from the list and the engine stopped.
LEMMA AbortFields ==
    ASSUME NEW e \in Engines, NEW r \in Requests, e.list = <<r>>
    PROVE  LET f == transfer_destroy(xdma_engine_stop(transfer_abort(e, r)), r)
           IN  /\ Released(e, f, r) /\ Idle(f)
               /\ f.used = e.used - e.xfer[r].num
  <1> DEFINE state == IF e.xfer[r].state = "SUBMITTED" THEN "ABORTED"
                      ELSE e.xfer[r].state
             x == [e.xfer EXCEPT ![r].state = state]
             a == [e EXCEPT !.list = <<>>, !.xfer = x]
             b == [a EXCEPT !.running = FALSE, !.busy = FALSE]
  <1>1. e.list # <<>> /\ Head(e.list) = r /\ Tail(e.list) = <<>>
        /\ <<>> \in Seq(Requests)
    OBVIOUS
  <1>2. e.xfer[r] \in Transfers
    BY DEF Engines
  <1>3. /\ x \in [Requests -> Transfers] /\ x[r].num = e.xfer[r].num
        /\ \A s \in Requests : s # r => x[s] = e.xfer[s]
    <2>1. state \in TransferStates
      BY <1>2 DEF Transfers, TransferStates
    <2> HIDE DEF state
    <2> QED BY <1>2, <2>1 DEF Engines, Transfers
  <1>4. transfer_abort(e, r) = a
    BY <1>1 DEF transfer_abort
  <1>5. xdma_engine_stop(a) = b
    BY DEF xdma_engine_stop
  <1> HIDE DEF x
  <1>6. /\ a \in Engines /\ a.list = <<>> /\ a.xfer = x /\ a.used = e.used
        /\ a.shutdown = e.shutdown /\ a.count = e.count
    BY <1>1, <1>3 DEF Engines
  <1> HIDE DEF a
  <1>7. /\ b \in Engines /\ b.list = <<>> /\ b.xfer = x /\ b.used = e.used
        /\ ~b.running /\ ~b.busy /\ b.shutdown = e.shutdown /\ b.count = e.count
    BY <1>6 DEF Engines
  <1> HIDE DEF b
  <1>8. /\ Released(b, transfer_destroy(b, r), r) /\ Idle(transfer_destroy(b, r))
        /\ transfer_destroy(b, r).used = b.used - b.xfer[r].num
    BY <1>7, DestroyFields DEF ListKept, Idle
  <1>9. [x EXCEPT ![r] = NoTransfer] = [e.xfer EXCEPT ![r] = NoTransfer]
    BY <1>3 DEF Engines
  <1> QED BY <1>3, <1>4, <1>5, <1>7, <1>8, <1>9 DEF Released

\* A transfer that is not in flight has left the list.
LEMMA AnsweredIdle ==
    ASSUME IInv, NEW r \in Requests, pc[r] = "woken", engine.xfer[r].state # "SUBMITTED"
    PROVE  Idle(engine) /\ ~servicing /\ ~Dangling
  <1>1. \A s \in Requests : s # r => pc[s] \notin Holding
    BY OnlyHolder DEF Holding
  <1>2. engine.list = <<>> /\ ~Dangling
    BY <1>1 DEF IInv, ListInv, Answerable, Holding
  <1> QED BY <1>2 DEF IInv, RunInv, Idle

\* The caller gives back its transfer, and either leaves or goes on with the
\* rest of its request.  The list is empty then, or holds a freed transfer.
LEMMA ReleaseStep ==
    ASSUME IInv, NEW r \in Requests, pc[r] \in Built,
           Released(engine, engine', r),
           UNCHANGED <<pending, servicing, device, offline, resets, frozen>>,
           lost' \in {lost, lost \cup {"abort"}},
           \/ ~Dangling' /\ Idle(engine') /\ ~servicing
           \/ Dangling' /\ ~engine.busy /\ engine.list # <<>>
              /\ ListKept(engine, engine') /\ Return(r),
           \/ Return(r)
           \/ /\ engine.xfer[r].state = "COMPLETED" /\ pc[r] = "woken"
              /\ next[r] # total[r]
              /\ pc' = [pc EXCEPT ![r] = "init"]
              /\ done' = [done EXCEPT ![r] = next[r]]
              /\ UNCHANGED <<total, next, moved>>
    PROVE  IInv'
  <1>0. engine \in Engines /\ Progress(r)
    BY DEF IInv, Types
  <1>1. \A s \in Requests : s # r => pc[s] \notin Holding
    BY OnlyHolder DEF Built, Holding
  <1>2. engine'.xfer[r] = NoTransfer
        /\ \A s \in Requests : s # r => engine'.xfer[s] = engine.xfer[s]
    BY <1>0 DEF Released, Engines
  <1>3. Types'
    <2>1. 0 \in 0 .. MaxDescs /\ {} \in SUBSET (0 .. MaxDescs - 1)
      BY EngineAssumption
    <2>2. lost' \in SUBSET {"count", "abort"}
      BY DEF IInv, Types
    <2>3. CASE Return(r)
      BY <2>1, <2>2, <2>3 DEF IInv, Types, Released, Return
    <2>4. CASE ~Return(r)
      BY <2>2, <2>4 DEF IInv, Types, Holding, Released
    <2> QED BY <2>3, <2>4
  <1>4. pc'[r] \in {"out", "init"} /\ \A s \in Requests : s # r => pc'[s] = pc[s]
    BY DEF IInv, Types, Return
  <1>5. OneHolder'
    BY <1>1, <1>4 DEF OneHolder
  <1>6. ASSUME NEW s \in Requests PROVE Progress(s)'
    <2>0. Progress(s) /\ Counted' = Counted
      BY DEF IInv, Counted
    <2>1. CASE s = r /\ Return(r)
      <3>1. pc'[r] = "out" /\ total'[r] = 0 /\ next'[r] = 0 /\ done'[r] = 0
            /\ moved'[r] = {}
        BY <2>1 DEF IInv, Types, Return
      <3> QED BY <1>2, <2>1, <3>1 DEF Progress, Built, Answerable
    <2>2. CASE s = r /\ ~Return(r)
      <3>1. /\ pc'[r] = "init" /\ done'[r] = next[r] /\ pc[r] = "woken"
            /\ engine.xfer[r].state = "COMPLETED" /\ next[r] # total[r]
            /\ UNCHANGED <<total, next, moved>>
        BY <2>2 DEF IInv, Types
      <3>2. /\ next[r] \in Nat /\ total[r] \in Nat /\ done[r] \in Nat
            /\ next[r] <= total[r] /\ engine.xfer[r].num \in Nat
            /\ Counted => moved[r] = 0 .. done[r] + engine.count - 1
            /\ next[r] = done[r] + engine.xfer[r].num
            /\ Counted => engine.count = engine.xfer[r].num
        BY <1>0, <3>1, EngineAssumption
        DEF Progress, Built, Answerable, IInv, Types, Engines, Transfers
      <3>3. next[r] < total[r] /\ (Counted => moved[r] = 0 .. next[r] - 1)
        BY <3>1, <3>2
      <3> QED BY <1>2, <2>0, <2>2, <3>1, <3>3 DEF Progress, Built, Answerable
    <2>3. CASE s # r
      <3>1. /\ total'[s] = total[s] /\ next'[s] = next[s] /\ done'[s] = done[s]
            /\ moved'[s] = moved[s] /\ pc'[s] = pc[s] /\ pc[s] \notin Holding
        BY <1>1, <1>4, <2>3 DEF IInv, Types, Return
      <3> QED BY <1>2, <2>0, <2>3, <3>1 DEF Progress, Built, Answerable, Holding
    <2> QED BY <2>1, <2>2, <2>3
  <1>7. ChainsKept'
    BY <1>1, <1>4 DEF ChainsKept, Built, Holding
  <1>8. ListInv'
    <2>1. \A s \in Requests : s # r => engine'.xfer[s].state # "SUBMITTED"
      BY <1>1, <1>2 DEF IInv, Progress, Built, Holding, NoTransfer
    <2>2. \A s \in Requests : engine'.xfer[s].state # "SUBMITTED"
      BY <1>2, <2>1 DEF NoTransfer
    <2>3. CASE ~Dangling'
      BY <2>2, <2>3 DEF ListInv, Idle
    <2>4. CASE Dangling'
      <3>1. engine'.list = engine.list /\ engine.list # <<>>
            /\ engine'.dequeued = engine.dequeued /\ pc'[r] = "out"
        BY <2>4 DEF ListKept, Return, IInv, Types
      <3>2. \A s \in Requests : pc'[s] \notin Answerable
        BY <1>1, <1>4, <3>1 DEF Answerable, Holding
      <3> QED BY <2>2, <2>4, <3>1, <3>2 DEF IInv, ListInv
    <2> QED BY <2>3, <2>4
  <1>9. RunInv' /\ AdminInv'
    <2>1. CASE ~Dangling'
      BY <2>1 DEF IInv, RunInv, AdminInv, Released, Idle
    <2>2. CASE Dangling'
      BY <2>2 DEF IInv, RunInv, AdminInv, Released, ListKept
    <2> QED BY <2>1, <2>2
  <1> QED BY <1>3, <1>5, <1>6, <1>7, <1>8, <1>9 DEF IInv

\* transfer_queue refuses: the request is freed, its descriptors stay.
LEMMA QueueRefusedStep ==
    ASSUME IInv, NEW r \in Requests, QueueRefused(r)
    PROVE  IInv' /\ Released(engine, engine', r) /\ engine'.used = engine.used
  <1>1. engine \in Engines /\ pc[r] \in {"queue", "admit"} /\ pc[r] \in Built
    BY DEF IInv, Types, QueueRefused, Built
  <1>2. /\ ~engine.busy
        /\ ~Dangling => engine.list = <<>> /\ ~engine.running /\ ~servicing
    BY <1>1, IdleEngine
  <1>3. engine' = [engine EXCEPT !.xfer[r] = NoTransfer]
    BY DEF QueueRefused
  <1>4. Released(engine, engine', r) /\ ListKept(engine, engine')
        /\ engine'.used = engine.used
    BY <1>1, <1>3, NoTransferType DEF Released, ListKept, Engines
  <1>5. /\ UNCHANGED <<pending, servicing, device, offline, resets, frozen, lost>>
        /\ Dangling' = Dangling /\ Return(r)
    BY DEF QueueRefused, admin, channel, Dangling
  <1>6. Dangling => engine.list # <<>>
    BY DEF IInv, ListInv
  <1>7. ~Dangling => Idle(engine')
    BY <1>2, <1>4 DEF Idle, ListKept
  <1> QED BY <1>1, <1>2, <1>4, <1>5, <1>6, <1>7, ReleaseStep

\* A chunk that completed: its descriptors are free for the next one.
LEMMA CompletedStep ==
    ASSUME IInv, NEW r \in Requests, Completed(r)
    PROVE  /\ IInv' /\ Released(engine, engine', r)
           /\ engine'.used = engine.used - engine.xfer[r].num
  <1>1. engine \in Engines /\ pc[r] \in Built /\ pc[r] = "woken"
        /\ engine.xfer[r].state = "COMPLETED"
    BY DEF IInv, Types, Completed, Built
  <1>2. Idle(engine) /\ ~servicing /\ ~Dangling
    BY <1>1, AnsweredIdle
  <1>3. /\ Released(engine, engine', r) /\ Idle(engine')
        /\ engine'.used = engine.used - engine.xfer[r].num
    BY <1>1, <1>2, DestroyFields DEF Completed, Idle, ListKept
  <1>4. /\ UNCHANGED <<pending, servicing, device, offline, resets, frozen, lost>>
        /\ ~Dangling'
    BY <1>2 DEF Completed, admin, channel, Dangling
  <1>5. CASE next[r] = total[r]
    <2>1. Return(r)
      BY <1>5 DEF Completed
    <2> QED BY <1>1, <1>2, <1>3, <1>4, <2>1, ReleaseStep
  <1>6. CASE next[r] # total[r]
    <2>1. /\ pc' = [pc EXCEPT ![r] = "init"] /\ done' = [done EXCEPT ![r] = next[r]]
          /\ UNCHANGED <<total, next, moved>>
      BY <1>6 DEF Completed
    <2> QED BY <1>1, <1>2, <1>3, <1>4, <1>6, <2>1, ReleaseStep
  <1> QED BY <1>5, <1>6

\* A chunk that failed ends its request.
LEMMA FailedStep ==
    ASSUME IInv, NEW r \in Requests, Failed(r)
    PROVE  /\ IInv' /\ Released(engine, engine', r)
           /\ engine'.used = engine.used - engine.xfer[r].num
  <1>1. engine \in Engines /\ pc[r] \in Built /\ pc[r] = "woken"
        /\ engine.xfer[r].state = "FAILED"
    BY DEF IInv, Types, Failed, Built
  <1>2. Idle(engine) /\ ~servicing /\ ~Dangling
    BY <1>1, AnsweredIdle
  <1>3. /\ Released(engine, engine', r) /\ Idle(engine')
        /\ engine'.used = engine.used - engine.xfer[r].num
    BY <1>1, <1>2, DestroyFields DEF Failed, Idle, ListKept
  <1>4. /\ UNCHANGED <<pending, servicing, device, offline, resets, frozen, lost>>
        /\ ~Dangling' /\ Return(r)
    BY <1>2 DEF Failed, admin, channel, Dangling
  <1> QED BY <1>1, <1>2, <1>3, <1>4, ReleaseStep

\* A chunk that timed out is aborted and ends its request.
LEMMA AbortedStep ==
    ASSUME IInv, NEW r \in Requests, Aborted(r)
    PROVE  /\ IInv' /\ Released(engine, engine', r)
           /\ engine'.used = engine.used - engine.xfer[r].num
  <1>1. engine \in Engines /\ pc[r] \in Built /\ ~servicing
        /\ engine.xfer[r].state = "SUBMITTED"
    BY DEF IInv, Types, Aborted, Built, Answerable, Progress, lock_free
  <1>2. engine.list = <<r>>
    BY <1>1 DEF IInv, ListInv
  <1>3. /\ Released(engine, engine', r) /\ Idle(engine')
        /\ engine'.used = engine.used - engine.xfer[r].num
    BY <1>1, <1>2, AbortFields DEF Aborted
  <1>4. ~Dangling
    BY <1>1 DEF IInv, ListInv
  <1>5. /\ UNCHANGED <<pending, servicing, device, offline, resets, frozen, lost>>
        /\ ~Dangling' /\ Return(r)
    BY <1>4 DEF Aborted, admin, channel, Dangling
  <1> QED BY <1>1, <1>3, <1>5, ReleaseStep

\* One that timed out on a frozen channel leaves its transfer on the list.
LEMMA AbortedUnreadStep ==
    ASSUME IInv, NEW r \in Requests, AbortedUnread(r)
    PROVE  /\ IInv' /\ Released(engine, engine', r)
           /\ engine'.used = engine.used - engine.xfer[r].num
  <1>1. engine \in Engines /\ pc[r] \in Built /\ ~servicing /\ ~engine.busy
        /\ engine.xfer[r].state = "SUBMITTED"
    BY DEF IInv, Types, AbortedUnread, Built, Answerable, Progress, lock_free, RunInv
  <1>2. engine.list = <<r>> /\ engine.list # <<>>
    BY <1>1 DEF IInv, ListInv
  <1>3. /\ Released(engine, engine', r) /\ ListKept(engine, engine')
        /\ engine'.used = engine.used - engine.xfer[r].num
    BY <1>1, DestroyFields DEF AbortedUnread
  <1>4. /\ UNCHANGED <<pending, servicing, device, offline, resets, frozen>>
        /\ lost' = lost \cup {"abort"} /\ Dangling' /\ Return(r)
    BY DEF AbortedUnread, Dangling
  <1> QED BY <1>1, <1>2, <1>3, <1>4, ReleaseStep

-----------------------------------------------------------------------------
(* The invariant, and what follows from it *)

\* The invariant holds before the first request.
LEMMA InvInit == Init => IInv
  <1> SUFFICES ASSUME Init PROVE IInv
    OBVIOUS
  <1>1. engine = EngineInit
    BY DEF Init
  <1>2. /\ engine \in Engines /\ engine.list = <<>> /\ ~engine.running /\ ~engine.busy
        /\ engine.shutdown = {} /\ engine.xfer = [r \in Requests |-> NoTransfer]
    BY <1>1, NoTransferType, EngineAssumption
    DEF EngineInit, Engines, Slots, Descriptors
  <1>3. Types
    <2>1. 0 \in 0 .. MaxDescs /\ 0 \in 0 .. MaxResets
          /\ {} \in SUBSET (0 .. MaxDescs - 1)
      BY EngineAssumption, ResetAssumption
    <2>2. pc \in [Requests -> Holding \cup {"out", "enter"}]
          /\ lost \in SUBSET {"count", "abort"} /\ frozen \in BOOLEAN
      BY DEF Init
    <2> QED BY <1>2, <2>1, <2>2 DEF Init, Types
  <1>4. OneHolder /\ \A r \in Requests : Progress(r)
    BY <1>2 DEF Init, OneHolder, Progress, Built, Answerable, Holding
  <1>5. ChainsKept /\ ListInv /\ RunInv /\ AdminInv
    BY <1>2 DEF Init, ChainsKept, ListInv, RunInv, AdminInv, Built, NoTransfer, Dangling
  <1> QED BY <1>3, <1>4, <1>5 DEF IInv

\* Every step keeps it.
LEMMA InvNext == IInv /\ [Next]_vars => IInv'
  <1> SUFFICES ASSUME IInv, [Next]_vars PROVE IInv'
    OBVIOUS
  <1>1. ASSUME NEW r \in Requests, Caller(r) PROVE IInv'
    BY <1>1, PointStep, BuildStep, QueueStep, QueueRefusedStep, CompletedStep,
       FailedStep, AbortedStep, AbortedUnreadStep DEF Caller, Proceed
  <1>2. CASE UNCHANGED vars
    <2>0. UNCHANGED <<engine, pending, servicing, device, offline, resets, frozen,
                      lost, caller, moved>>
      BY <1>2 DEF vars, driver, admin, channel
    <2>1. Types'
      BY <2>0 DEF IInv, Types, caller
    <2>2. OneHolder' /\ (\A r \in Requests : Progress(r)') /\ ChainsKept' /\ ListInv'
      BY <2>0, TransfersKept DEF Kept
    <2>3. RunInv' /\ AdminInv'
      BY <2>0 DEF IInv, RunInv, AdminInv, Dangling
    <2> QED BY <2>1, <2>2, <2>3 DEF IInv
  <1> QED
    BY <1>1, <1>2, IsrStep, ServiceStatusStep, ServiceTransfersStep,
       ServiceStatusFrozenStep, ServiceTransfersFrozenStep, ResetStep,
       MoveStep, BusErrorStep, FreezeStep DEF Next

\* So it holds of the driver.
LEMMA InvHolds == Spec => []IInv
  BY InvInit, InvNext, PTL DEF Spec

\* No transfer on the engine's list belongs to a request that was freed, for
\* any number of callers, whoever times out or is refused when, unless one of
\* them has timed out on a frozen channel.
THEOREM ListAlwaysLive == Spec => []ListIsLive
  <1>1. IInv => ListIsLive
    <2> SUFFICES ASSUME IInv, ~Dangling, NEW i \in 1 .. Len(engine.list)
                 PROVE  /\ pc[engine.list[i]] \in {"wait", "woken"}
                        /\ engine.xfer[engine.list[i]].state = "SUBMITTED"
      BY DEF ListIsLive
    <2>1. engine.list # <<>>
      BY DEF IInv, Types, Engines
    <2>2. PICK r \in Requests : engine.list = <<r>> /\ engine.xfer[r].state = "SUBMITTED"
      BY <2>1 DEF IInv, ListInv
    <2>3. engine.list[i] = r
      BY <2>2
    <2> QED BY <2>2, <2>3 DEF IInv, ListInv, Answerable
  <1> QED BY <1>1, InvHolds, PTL

\* The hardware works only on the transfer at the head of the list, whose chain
\* is in the ring as transfer_init wrote it, unless a caller has timed out on a
\* frozen channel.
THEOREM HardwareAlwaysOnHead == Spec => []HardwareOnHead
  <1>1. IInv => HardwareOnHead
    <2> SUFFICES ASSUME IInv, engine.busy PROVE HardwareOnHead
      BY DEF HardwareOnHead
    <2>1. PICK r \in Requests :
             /\ engine.list = <<r>> /\ engine.xfer[r].state = "SUBMITTED"
             /\ pc[r] \in Answerable
             /\ engine.pos = engine.xfer[r].first + engine.count
             /\ engine.count < engine.xfer[r].num
      BY BusyFacts
    <2> DEFINE x == engine.xfer[r]
               end == x.first + x.num - 1
    <2>2. Head(engine.list) = r /\ engine.list # <<>> /\ engine.running
      BY <2>1 DEF IInv, RunInv
    <2>3. x.first \in Nat /\ x.num \in Nat /\ engine.count \in Nat
      BY EngineAssumption DEF IInv, Types, Engines, Transfers, Slots
    <2>4. Chained(r)
      BY <2>1 DEF IInv, ChainsKept, Answerable, Built
    <2>5. engine.pos \in x.first .. end
      BY <2>1, <2>3
    <2>6. \A i \in engine.pos .. end : i \in x.first .. end
      BY <2>3, <2>5
    <2>7. \A i \in engine.pos .. end :
             /\ engine.ring[i].magic
             /\ engine.ring[i].req = r
             /\ engine.ring[i].last = (i = end)
      BY <2>4, <2>6 DEF Chained
    <2> QED BY <2>1, <2>2, <2>5, <2>7 DEF HardwareOnHead
  <1> QED BY <1>1, InvHolds, PTL

\* Nothing starts an engine that xdma_device_offline has stopped.
THEOREM OfflineAlwaysQuiet == Spec => []OfflineIsQuiet
  <1>1. IInv => OfflineIsQuiet
    BY DEF IInv, AdminInv, RunInv, OfflineIsQuiet
  <1> QED BY <1>1, InvHolds, PTL

\* What xdma_xfer_submit counts as transferred the hardware has moved, for any
\* ring, any length of the requests and any interleaving of their timeouts, as
\* long as no count was read from a frozen device.
THEOREM CountedAlwaysMoved == Spec => []CountedIsMoved
  <1>1. IInv => CountedIsMoved
    <2> SUFFICES ASSUME IInv, Counted, NEW r \in Requests
                 PROVE  /\ 0 .. done[r] - 1 \subseteq moved[r]
                        /\ engine.xfer[r].state = "COMPLETED"
                              => 0 .. next[r] - 1 \subseteq moved[r]
      BY DEF CountedIsMoved, Counted
    <2>1. Progress(r) /\ pc[r] \in Holding \cup {"out", "enter"}
          /\ done[r] \in Nat /\ engine.count \in Nat /\ engine.xfer[r].num \in Nat
      BY EngineAssumption DEF IInv, Types, Engines, Transfers
    <2>2. CASE pc[r] \in {"out", "enter"}
      BY <2>1, <2>2 DEF Progress, Built, NoTransfer
    <2>3. CASE pc[r] \in {"init", "queue", "admit"}
      BY <2>1, <2>3 DEF Progress, Built, NoTransfer
    <2>4. CASE pc[r] \in Answerable
      <3>1. moved[r] = 0 .. done[r] + engine.count - 1 /\ next[r] = done[r] + engine.xfer[r].num
            /\ (engine.xfer[r].state = "COMPLETED" => engine.count = engine.xfer[r].num)
        BY <2>1, <2>4 DEF Progress, Built, Answerable
      <3> QED BY <2>1, <3>1
    <2> QED BY <2>1, <2>2, <2>3, <2>4 DEF Holding, Answerable
  <1> QED BY <1>1, InvHolds, PTL

-----------------------------------------------------------------------------
(* XdmaSync implements CopyService *)

\* A step that moves no caller in or out of the driver, nothing in hardware and
\* credits nobody leaves the service alone.
LEMMA ServiceStutter ==
    ASSUME \A r \in Requests : /\ pc'[r] = "enter" <=> pc[r] = "enter"
                               /\ pc'[r] \in Holding <=> pc[r] \in Holding
                               /\ Credited(r)' = Credited(r),
           UNCHANGED <<total, moved, lost>>
    PROVE  UNCHANGED Service!vars
  <1>1. {r \in Requests : pc'[r] = "enter"} = {r \in Requests : pc[r] = "enter"}
    OBVIOUS
  <1>2. {r \in Requests : pc'[r] \in Holding} = {r \in Requests : pc[r] \in Holding}
    OBVIOUS
  <1>3. [r \in Requests |-> Credited(r)'] = [r \in Requests |-> Credited(r)]
    OBVIOUS
  <1> QED BY <1>1, <1>2, <1>3 DEF Service!vars

\* A register of a frozen device that is taken for what it reads breaks the
\* service, and it stays broken.
LEMMA ServiceBreaks ==
    ASSUME lost' # {}
    PROVE  Service!Next
  BY DEF Service!Next, Service!Break

\* A caller that leaves the driver ends its service.
LEMMA ServiceLeave ==
    ASSUME IInv, NEW r \in Requests, pc[r] \in Holding, lost' = lost,
           engine'.xfer = [engine.xfer EXCEPT ![r] = NoTransfer], Return(r)
    PROVE  Service!Next
  <1>1. \A s \in Requests : s # r => pc[s] \notin Holding
    BY OnlyHolder
  <1>2. pc' = [pc EXCEPT ![r] = "out"] /\ pc \in [Requests -> Holding \cup {"out", "enter"}]
    BY DEF Return, IInv, Types
  <1>3. {s \in Requests : pc'[s] \in Holding} = {}
    BY <1>1, <1>2 DEF Holding
  <1>4. {s \in Requests : pc'[s] = "enter"} = {s \in Requests : pc[s] = "enter"}
    BY <1>2 DEF Holding
  <1>5. engine'.xfer[r].state # "COMPLETED"
        /\ \A s \in Requests : s # r => engine'.xfer[s] = engine.xfer[s]
    BY DEF IInv, Types, Engines, NoTransfer
  <1>6. /\ done'[r] = 0
        /\ \A s \in Requests : s # r => done'[s] = done[s] /\ next'[s] = next[s]
    BY DEF Return, IInv, Types
  <1>7. [s \in Requests |-> Credited(s)'] =
           [[s \in Requests |-> Credited(s)] EXCEPT ![r] = 0]
    BY <1>5, <1>6 DEF Credited
  <1>8. Service!Leave(r)
    BY <1>3, <1>4, <1>7 DEF Service!Leave, Return
  <1> QED BY <1>8 DEF Service!Next

\* What ServiceTransfers does to the transfer of the list, and to no other.
LEMMA ServiceTransfersEffect ==
    ASSUME IInv, ServiceTransfers
    PROVE  /\ engine'.used = engine.used
           /\ \A s \in Requests : engine'.xfer[s].num = engine.xfer[s].num
           /\ \E r \in Requests :
              /\ pc[r] \in Answerable /\ engine.xfer[r].state = "SUBMITTED"
              /\ \/ engine'.xfer = engine.xfer
                 \/ \E state \in {"COMPLETED", "FAILED"} :
                       /\ state = "COMPLETED" => engine.count = engine.xfer[r].num
                       /\ engine'.xfer[r].state = state
                       /\ \A s \in Requests : s # r => engine'.xfer[s] = engine.xfer[s]
  <1>0. servicing /\ ~Dangling
    BY DEF ServiceTransfers
  <1>1. PICK r \in Requests :
              /\ engine.list = <<r>> /\ engine.xfer[r].state = "SUBMITTED"
              /\ pc[r] \in Answerable /\ engine.dequeued = 0
              /\ engine.count \in 0 .. engine.xfer[r].num
              /\ engine.busy => engine.running
    BY <1>0, ServicedList
  <1>2. engine \in Engines
    BY DEF IInv, Types
  <1> DEFINE f == service_transfers(engine)
  <1>3. \/ f = engine
        \/ \E state \in {"COMPLETED", "FAILED"} :
              /\ state = "COMPLETED" => engine.count = engine.xfer[r].num
              /\ f \in Engines
              /\ f.xfer = [engine.xfer EXCEPT ![r] = [@ EXCEPT !.state = state]]
              /\ f.used = engine.used
    BY <1>1, <1>2, ServicedFields DEF service_transfers
  <1>4. engine' = [f EXCEPT !.irq = TRUE]
    BY DEF ServiceTransfers
  <1> HIDE DEF f
  <1>5. CASE f = engine
    <2>1. engine'.xfer = engine.xfer /\ engine'.used = engine.used
      BY <1>2, <1>4, <1>5 DEF Engines
    <2> QED BY <1>1, <1>2, <2>1
  <1>6. ASSUME NEW state \in {"COMPLETED", "FAILED"},
               state = "COMPLETED" => engine.count = engine.xfer[r].num,
               f \in Engines,
               f.xfer = [engine.xfer EXCEPT ![r] = [@ EXCEPT !.state = state]],
               f.used = engine.used
        PROVE  /\ engine'.used = engine.used
               /\ \A s \in Requests : engine'.xfer[s].num = engine.xfer[s].num
               /\ engine'.xfer[r].state = state
               /\ \A s \in Requests : s # r => engine'.xfer[s] = engine.xfer[s]
    <2>1. engine'.xfer = f.xfer /\ engine'.used = f.used
      BY <1>4, <1>6 DEF Engines
    <2> QED BY <1>2, <1>6, <2>1 DEF Engines, Transfers
  <1> QED BY <1>1, <1>2, <1>3, <1>5, <1>6

\* A count read from a frozen device changes no more than the state of the
\* transfer of the list.
LEMMA FrozenEffect ==
    ASSUME IInv, ServiceTransfersFrozen
    PROVE  /\ engine'.used = engine.used
           /\ \A s \in Requests : engine'.xfer[s].num = engine.xfer[s].num
  <1>1. /\ ~Dangling /\ servicing /\ engine' = answer_transfers(engine, AllOnes)
    BY DEF ServiceTransfersFrozen
  <1>2. PICK r \in Requests :
              /\ engine.list = <<r>> /\ engine.xfer[r].state = "SUBMITTED"
              /\ engine.dequeued = 0 /\ (engine.busy => engine.running)
    BY <1>1, ServicedList
  <1>3. engine \in Engines /\ engine.xfer[r].num \in Nat
    BY EngineAssumption DEF IInv, Types, Engines, Transfers
  <1>4. AllOnes \in Nat /\ AllOnes # 0
    BY DEF AllOnes, Unsigned
  <1>5. \E state \in {"COMPLETED", "FAILED"} :
           /\ engine'.xfer = [engine.xfer EXCEPT ![r] = [@ EXCEPT !.state = state]]
           /\ engine'.used = engine.used
    <2>1. CASE AllOnes > engine.xfer[r].num
      BY <1>1, <1>2, <1>3, <1>4, <2>1, OvercountFields
    <2>2. CASE ~(AllOnes > engine.xfer[r].num)
      <3>1. AllOnes \in 0 .. engine.xfer[r].num
        BY <1>3, <1>4, <2>2
      <3> QED BY <1>1, <1>2, <1>3, <1>4, <3>1, ServicedFields
    <2> QED BY <2>1, <2>2
  <1> QED BY <1>3, <1>5 DEF Engines, Transfers

\* Interrupts, resets and errors leave every transfer and every caller as it is.
LEMMA TransfersStay ==
    ASSUME IInv,
           \/ xdma_isr \/ ServiceStatus \/ ServiceStatusFrozen \/ Reset
           \/ BusError \/ Freeze \/ SlotReset
    PROVE  /\ engine'.xfer = engine.xfer /\ engine'.used = engine.used
           /\ UNCHANGED <<caller, moved, lost>>
  <1>0. engine \in Engines
    BY DEF IInv, Types
  <1>1. CASE xdma_isr
    BY <1>0, <1>1 DEF xdma_isr, Engines, admin, channel
  <1>2. CASE ServiceStatus
    <2> DEFINE f == service_status(engine)
    <2>1. f \in Engines /\ f.xfer = engine.xfer /\ f.used = engine.used
      <3> DEFINE read == engine_status_read(engine)
      <3>1. read \in Engines /\ read.xfer = engine.xfer /\ read.used = engine.used
        BY <1>0 DEF engine_status_read, Engines
      <3>2. f = read \/ f = [read EXCEPT !.running = FALSE, !.busy = FALSE]
        BY <1>0 DEF service_status, engine_service_shutdown, xdma_engine_stop, Engines
      <3> HIDE DEF read, f
      <3> QED BY <3>1, <3>2 DEF Engines
    <2>2. \E irq \in BOOLEAN : engine' = [f EXCEPT !.irq = irq]
      BY <1>2, <2>1 DEF ServiceStatus, Engines
    <2>3. UNCHANGED <<caller, moved, lost>>
      BY <1>2 DEF ServiceStatus, admin, channel
    <2> HIDE DEF f
    <2> QED BY <2>1, <2>2, <2>3 DEF Engines
  <1>3. CASE Reset
    <2>1. UNCHANGED <<caller, moved, lost>>
      BY <1>3 DEF Reset, OfflineFlag, OfflineStop, OfflineInterrupts, OnlineEngine,
                  OnlineFlag, channel
    <2>2. CASE OfflineFlag
      BY <2>1, <2>2 DEF OfflineFlag, driver
    <2>3. CASE OfflineStop
      BY <1>0, <2>1, <2>3 DEF OfflineStop, xdma_engine_stop, Engines
    <2>4. CASE OfflineInterrupts \/ OnlineEngine
      BY <1>0, <2>1, <2>4 DEF OfflineInterrupts, OnlineEngine, Engines
    <2>5. CASE OnlineFlag
      <3> DEFINE f == [engine EXCEPT !.irq = TRUE]
                 g == [f EXCEPT !.busy = FALSE, !.irq = FALSE, !.events = {}]
      <3>1. f \in Engines /\ f.xfer = engine.xfer /\ f.used = engine.used
        BY <1>0 DEF Engines
      <3>2. engine' = f \/ engine' = g
        BY <2>5 DEF OnlineFlag, Reach
      <3> HIDE DEF f
      <3> QED BY <2>1, <3>1, <3>2 DEF Engines
    <2> QED BY <1>3, <2>2, <2>3, <2>4, <2>5 DEF Reset
  <1>4. CASE BusError
    BY <1>0, <1>4 DEF BusError, HwError, Engines, admin, channel
  <1>5. CASE ServiceStatusFrozen
    BY <1>0, <1>5 DEF ServiceStatusFrozen, Engines, admin, channel
  <1>6. CASE Freeze
    BY <1>0, <1>6 DEF Freeze, Engines
  <1>7. CASE SlotReset
    BY <1>7 DEF SlotReset, driver
  <1> QED BY <1>1, <1>2, <1>3, <1>4, <1>5, <1>6, <1>7

\* A request that enters the driver asks, and one that takes desc_lock is served.
LEMMA ServiceEnter ==
    ASSUME IInv, NEW r \in Requests,
           (\E n \in 1 .. MaxDescs : Submit(r, n)) \/ LockRing(r)
    PROVE  Service!Next
  <1>0. pc \in [Requests -> Holding \cup {"out", "enter"}]
    BY DEF IInv, Types
  <1>1. UNCHANGED <<engine, next, done, moved, lost>>
    BY DEF Submit, LockRing, driver, admin, channel
  <1>2. [s \in Requests |-> Credited(s)'] = [s \in Requests |-> Credited(s)]
    BY <1>1 DEF Credited
  <1>3. ASSUME NEW n \in 1 .. MaxDescs, Submit(r, n) PROVE Service!Ask(r, n)
    <2>1. pc[r] = "out" /\ pc' = [pc EXCEPT ![r] = "enter"]
          /\ total' = [total EXCEPT ![r] = n]
      BY <1>3 DEF Submit
    <2>2. {s \in Requests : pc'[s] = "enter"} = {s \in Requests : pc[s] = "enter"} \cup {r}
      BY <1>0, <2>1
    <2>3. {s \in Requests : pc'[s] \in Holding} = {s \in Requests : pc[s] \in Holding}
      BY <1>0, <2>1 DEF Holding
    <2>4. r \notin {s \in Requests : pc[s] = "enter"} \cup {s \in Requests : pc[s] \in Holding}
      BY <2>1 DEF Holding
    <2> QED BY <1>1, <1>2, <2>1, <2>2, <2>3, <2>4 DEF Service!Ask
  <1>4. ASSUME LockRing(r) PROVE Service!Serve(r)
    <2>1. pc[r] = "enter" /\ pc' = [pc EXCEPT ![r] = "init"] /\ desc_lock_free
          /\ UNCHANGED total
      BY <1>4 DEF LockRing
    <2>2. {s \in Requests : pc'[s] = "enter"} = {s \in Requests : pc[s] = "enter"} \ {r}
      BY <1>0, <2>1
    <2>3. {s \in Requests : pc[s] \in Holding} = {}
      BY <2>1 DEF desc_lock_free
    <2>4. {s \in Requests : pc'[s] \in Holding} = {r}
      BY <1>0, <2>1 DEF Holding, desc_lock_free
    <2>5. r \in {s \in Requests : pc[s] = "enter"}
      BY <2>1
    <2> QED BY <1>1, <1>2, <2>1, <2>2, <2>3, <2>4, <2>5 DEF Service!Serve
  <1> QED BY <1>3, <1>4 DEF Service!Next

\* Building, queueing, waiting and waking up: nobody is credited, and the ring
\* stays with its holder.
LEMMA ServiceWithin ==
    ASSUME IInv, NEW r \in Requests,
           Build(r) \/ CheckOnline(r) \/ Queue(r) \/ Wake(r) \/ Timeout(r)
    PROVE  UNCHANGED Service!vars
  <1>0. pc \in [Requests -> Holding \cup {"out", "enter"}] /\ engine \in Engines
        /\ next \in [Requests -> 0 .. MaxDescs] /\ Progress(r)
    BY DEF IInv, Types
  <1>1. UNCHANGED <<total, done, moved, lost>>
    BY DEF Build, CheckOnline, Queue, Wake, Timeout, admin, channel
  <1>2. /\ pc[r] \in Holding /\ pc'[r] \in Holding
        /\ \A s \in Requests : s # r => pc'[s] = pc[s]
    BY <1>0 DEF Build, CheckOnline, Queue, Wake, Timeout, Holding
  <1>3. \A s \in Requests : /\ pc'[s] = "enter" <=> pc[s] = "enter"
                            /\ pc'[s] \in Holding <=> pc[s] \in Holding
    BY <1>2 DEF Holding
  <1>4. CASE CheckOnline(r) \/ Wake(r) \/ Timeout(r)
    <2>1. UNCHANGED <<engine, next>>
      BY <1>4 DEF CheckOnline, Wake, Timeout, driver
    <2>2. \A s \in Requests : Credited(s)' = Credited(s)
      BY <1>1, <2>1 DEF Credited
    <2> QED BY <1>1, <1>3, <2>2, ServiceStutter
  <1>5. CASE Build(r)
    <2> DEFINE num == ChainLength(engine, total[r] - next[r])
    <2>1. pc[r] = "init" /\ next[r] < total[r] /\ next[r] \in Nat
          /\ total[r] \in 0 .. MaxDescs /\ engine.xfer[r].state # "COMPLETED"
      BY <1>0, <1>5, EngineAssumption DEF Build, Progress, Built, IInv, Types, NoTransfer
    <2>2. Initialised(engine, engine', r, next[r], num)
      BY <1>0, <1>5, <2>1, InitFields DEF Build
    <2>3. engine'.xfer[r].state = "NEW"
          /\ \A s \in Requests : s # r => engine'.xfer[s] = engine.xfer[s]
      BY <1>0, <2>2 DEF Initialised, Engines
    <2>4. \A s \in Requests : s # r => next'[s] = next[s]
      BY <1>0, <1>5 DEF Build
    <2>5. \A s \in Requests : Credited(s)' = Credited(s)
      BY <1>1, <2>1, <2>3, <2>4 DEF Credited
    <2> QED BY <1>1, <1>3, <2>5, ServiceStutter
  <1>6. CASE Queue(r)
    <2>1. pc[r] = "admit" /\ engine.xfer[r].state = "NEW" /\ UNCHANGED next
          /\ ~Dangling
      BY <1>0, <1>6 DEF Queue, Progress
    <2>2. engine.list = <<>> /\ ~engine.running
      BY <2>1, IdleEngine
    <2>3. Started(engine, engine', r)
      BY <1>0, <1>6, <2>2, QueueFields DEF Queue
    <2>4. engine'.xfer[r].state = "SUBMITTED"
          /\ \A s \in Requests : s # r => engine'.xfer[s] = engine.xfer[s]
      BY <1>0, <2>3 DEF Started, Engines, Transfers
    <2>5. \A s \in Requests : Credited(s)' = Credited(s)
      BY <1>1, <2>1, <2>4 DEF Credited
    <2> QED BY <1>1, <1>3, <2>5, ServiceStutter
  <1> QED BY <1>4, <1>5, <1>6

\* A caller that ends its transfer leaves, or has been credited with it already.
LEMMA ServiceEnd ==
    ASSUME IInv, NEW r \in Requests,
           QueueRefused(r) \/ Completed(r) \/ Failed(r) \/ Aborted(r)
    PROVE  [Service!Next]_(Service!vars)
  <1>0. lost' = lost
    BY DEF QueueRefused, Completed, Failed, Aborted, admin, channel
  <1>1. Released(engine, engine', r)
    BY QueueRefusedStep, CompletedStep, FailedStep, AbortedStep
  <1>2. pc[r] \in Holding /\ engine'.xfer = [engine.xfer EXCEPT ![r] = NoTransfer]
    BY <1>1 DEF Released, QueueRefused, Completed, Failed, Aborted, Holding
  <1>3. CASE Return(r)
    BY <1>0, <1>2, <1>3, ServiceLeave
  <1>4. CASE ~Return(r)
    <2>1. /\ engine.xfer[r].state = "COMPLETED"
          /\ pc' = [pc EXCEPT ![r] = "init"]
          /\ done' = [done EXCEPT ![r] = next[r]]
          /\ UNCHANGED <<total, next, moved>>
      BY <1>4 DEF QueueRefused, Completed, Failed, Aborted
    <2>2. engine'.xfer[r].state # "COMPLETED"
          /\ \A s \in Requests : s # r => engine'.xfer[s] = engine.xfer[s]
      BY <1>2 DEF IInv, Types, Engines, NoTransfer
    <2>3. done'[r] = next[r] /\ \A s \in Requests : s # r => done'[s] = done[s]
      BY <2>1 DEF IInv, Types
    <2>4. \A s \in Requests : Credited(s)' = Credited(s)
      BY <2>1, <2>2, <2>3 DEF Credited
    <2>5. pc'[r] = "init" /\ \A s \in Requests : s # r => pc'[s] = pc[s]
      BY <2>1 DEF IInv, Types
    <2>6. \A s \in Requests : /\ pc'[s] = "enter" <=> pc[s] = "enter"
                              /\ pc'[s] \in Holding <=> pc[s] \in Holding
      BY <1>2, <2>5 DEF Holding
    <2>7. UNCHANGED Service!vars
      BY <1>0, <2>1, <2>4, <2>6, ServiceStutter
    <2> QED BY <2>7
  <1> QED BY <1>3, <1>4

\* A transfer answered as completed credits its request, and no other, with
\* what the hardware has moved for it.
LEMMA ServiceCredit ==
    ASSUME IInv, ServiceTransfers, lost = {}
    PROVE  [Service!Next]_(Service!vars)
  <1>1. PICK r \in Requests :
           /\ pc[r] \in Answerable /\ engine.xfer[r].state = "SUBMITTED"
           /\ \/ engine'.xfer = engine.xfer
              \/ \E state \in {"COMPLETED", "FAILED"} :
                    /\ state = "COMPLETED" => engine.count = engine.xfer[r].num
                    /\ engine'.xfer[r].state = state
                    /\ \A s \in Requests : s # r => engine'.xfer[s] = engine.xfer[s]
    BY ServiceTransfersEffect
  <1>2. UNCHANGED <<pc, total, next, done, moved, lost>> /\ Counted
    BY DEF ServiceTransfers, caller, admin, channel, Counted
  <1>3. CASE engine'.xfer = engine.xfer
    <2>1. \A s \in Requests : Credited(s)' = Credited(s)
      BY <1>2, <1>3 DEF Credited
    <2>2. UNCHANGED Service!vars
      BY <1>2, <2>1, ServiceStutter
    <2> QED BY <2>2
  <1>4. CASE engine'.xfer[r].state = "FAILED"
             /\ \A s \in Requests : s # r => engine'.xfer[s] = engine.xfer[s]
    <2>1. \A s \in Requests : Credited(s)' = Credited(s)
      BY <1>1, <1>2, <1>4 DEF Credited
    <2>2. UNCHANGED Service!vars
      BY <1>2, <2>1, ServiceStutter
    <2> QED BY <2>2
  <1>5. CASE engine'.xfer[r].state = "COMPLETED" /\ engine.count = engine.xfer[r].num
             /\ \A s \in Requests : s # r => engine'.xfer[s] = engine.xfer[s]
    <2> DEFINE num == engine.xfer[r].num
    <2>1. Progress(r) /\ done[r] \in Nat /\ next[r] \in 0 .. MaxDescs
          /\ num \in Nat /\ MaxDescs \in Nat
      BY EngineAssumption DEF IInv, Types, Engines, Transfers
    <2>2. num > 0 /\ next[r] = done[r] + num /\ moved[r] = 0 .. done[r] + num - 1
      BY <1>1, <1>2, <1>5, <2>1 DEF Progress, Built, Answerable
    <2> HIDE DEF num
    <2>3. next[r] \in 1 .. MaxDescs /\ done[r] < next[r] /\ moved[r] = 0 .. next[r] - 1
      BY <2>1, <2>2
    <2>4. Credited(r) = done[r] /\ Credited(r)' = next[r]
          /\ \A s \in Requests : s # r => Credited(s)' = Credited(s)
      BY <1>1, <1>2, <1>5 DEF Credited
    <2>5. [s \in Requests |-> Credited(s)'] =
             [[s \in Requests |-> Credited(s)] EXCEPT ![r] = next[r]]
      BY <2>4
    <2>6. [s \in Requests |-> Credited(s)][r] < next[r]
      BY <2>3, <2>4
    <2>7. r \in {s \in Requests : pc[s] \in Holding}
      BY <1>1 DEF Answerable, Holding
    <2>8. Service!Credit(r, next[r])
      BY <1>2, <2>3, <2>5, <2>6, <2>7 DEF Service!Credit
    <2> QED BY <2>3, <2>8 DEF Service!Next
  <1> QED BY <1>1, <1>3, <1>4, <1>5

\* The hardware moves the next item of the request that is served.
LEMMA ServiceCopy ==
    ASSUME IInv, Move, lost = {}
    PROVE  Service!Next
  <1>0. engine \in Engines /\ engine.busy
    BY DEF IInv, Types, Move
  <1>1. PICK r \in Requests :
           /\ engine.list = <<r>> /\ pc[r] \in Answerable
           /\ engine.count < engine.xfer[r].num
           /\ engine.ring[engine.pos].req = r
           /\ engine.ring[engine.pos].index = done[r] + engine.count
    BY <1>0, BusyFacts
  <1> DEFINE k == done[r] + engine.count
  <1>2. moved' = [moved EXCEPT ![r] = @ \cup {k}]
    BY <1>1 DEF Move
  <1>3. /\ Progress(r) /\ done[r] \in Nat /\ engine.count \in Nat
        /\ engine.xfer[r].num \in Nat /\ total[r] \in 0 .. MaxDescs /\ MaxDescs \in Nat
    BY EngineAssumption DEF IInv, Types, Engines, Transfers
  <1>4. /\ next[r] = done[r] + engine.xfer[r].num /\ next[r] <= total[r]
        /\ moved[r] = 0 .. k - 1
    BY <1>1, <1>3 DEF Progress, Built, Answerable, Counted
  <1>5. k \in 0 .. MaxDescs - 1 /\ k < total[r] /\ k \in Nat
    BY <1>1, <1>3, <1>4
  <1> HIDE DEF k
  <1>6. (0 .. k - 1) \cup {k} = 0 .. k
    BY <1>5
  <1>7. moved' = [moved EXCEPT ![r] = 0 .. k]
    BY <1>2, <1>4, <1>6
  <1>8. UNCHANGED <<pc, total, next, done, lost>>
    BY DEF Move, caller, admin, channel
  <1>9. engine'.xfer = engine.xfer
    BY <1>0 DEF Move, HwMove, Engines
  <1>10. [s \in Requests |-> Credited(s)'] = [s \in Requests |-> Credited(s)]
    BY <1>8, <1>9 DEF Credited
  <1>11. r \in {s \in Requests : pc[s] \in Holding}
    BY <1>1 DEF Answerable, Holding
  <1>12. Service!Copy(r, k)
    BY <1>4, <1>5, <1>7, <1>8, <1>10, <1>11 DEF Service!Copy
  <1> QED BY <1>5, <1>12 DEF Service!Next

\* Every step of the driver is a step of the service, or leaves it alone.
LEMMA ServiceStep == IInv /\ [Next]_vars => [Service!Next]_(Service!vars)
  <1> SUFFICES ASSUME IInv, [Next]_vars PROVE [Service!Next]_(Service!vars)
    OBVIOUS
  <1>0. ASSUME NEW r \in Requests, AbortedUnread(r) PROVE Service!Next
    BY <1>0, ServiceBreaks DEF AbortedUnread
  <1>1. ASSUME NEW r \in Requests, Caller(r) PROVE [Service!Next]_(Service!vars)
    BY <1>0, <1>1, ServiceEnter, ServiceWithin, ServiceEnd DEF Caller, Proceed
  <1>2. ASSUME \/ UNCHANGED vars \/ xdma_isr \/ ServiceStatus \/ ServiceStatusFrozen
               \/ Reset \/ BusError \/ Freeze \/ SlotReset
        PROVE  UNCHANGED Service!vars
    <2>1. engine'.xfer = engine.xfer /\ UNCHANGED <<pc, total, next, done, moved, lost>>
      BY <1>2, TransfersStay DEF vars, driver, caller, admin, channel
    <2>2. \A s \in Requests : Credited(s)' = Credited(s)
      BY <2>1 DEF Credited
    <2> QED BY <2>1, <2>2, ServiceStutter
  <1>3. ASSUME ServiceTransfers \/ Move PROVE [Service!Next]_(Service!vars)
    <2>1. lost' = lost
      BY <1>3 DEF ServiceTransfers, Move, admin, channel
    <2> QED BY <1>3, <2>1, ServiceCredit, ServiceCopy, ServiceBreaks
  <1>4. ASSUME ServiceTransfersFrozen PROVE Service!Next
    BY <1>4, ServiceBreaks DEF ServiceTransfersFrozen
  <1> QED BY <1>1, <1>2, <1>3, <1>4 DEF Next

\* Nobody is waiting, served or credited at first.
LEMMA ServiceInit == Init => Service!Init
  <1> SUFFICES ASSUME Init PROVE Service!Init
    OBVIOUS
  <1>1. {r \in Requests : pc[r] = "enter"} = {} /\ {r \in Requests : pc[r] \in Holding} = {}
    BY DEF Init, Holding
  <1>2. \A r \in Requests : Credited(r) = 0
    BY DEF Init, EngineInit, NoTransfer, Credited
  <1>3. [r \in Requests |-> Credited(r)] = [r \in Requests |-> 0]
    BY <1>2
  <1> QED BY <1>1, <1>3 DEF Init, Service!Init

\* The driver implements CopyService for any number of callers, any ring, any
\* length of the requests and any number of resets: one request at a time has
\* the engine, its descriptors are moved in order, and no request is credited
\* with what the hardware did not move for it.  Only a register read from a
\* frozen device breaks the service: the count that answers a transfer, and the
\* status without which a transfer is freed and not aborted.
THEOREM DriverImplementsService == Spec => ServiceImplemented
  BY ServiceInit, ServiceStep, InvHolds, PTL DEF Spec, Service!Spec, ServiceImplemented

-----------------------------------------------------------------------------
(* desc_used: every transfer gives back what it took, except a refused one *)

\* The product grows with its first factor.
LEMMA ProductGrows ==
    ASSUME NEW a, NEW b, NEW d, a \in Int, b \in Int, d \in Nat, a <= b
    PROVE  a * d \in Int /\ b * d \in Int /\ a * d <= b * d
  OBVIOUS

\* One refusal less to come is room for the descriptors of one more transfer.
LEMMA ProductStep ==
    ASSUME NEW a, NEW b, NEW d, a \in Int, b \in Int, d \in Nat, a + 1 <= b
    PROVE  a * d + d <= b * d
  <1>1. (a + 1) * d <= b * d
    BY ProductGrows
  <1>2. (a + 1) * d = a * d + d
    OBVIOUS
  <1>3. a * d \in Int /\ b * d \in Int
    OBVIOUS
  <1> QED BY <1>1, <1>2, <1>3

\* The callers in the driver are finitely many.
LEMMA LeaksType ==
    ASSUME NEW n, NEW off, NEW S, n \in Nat, S \in SUBSET Requests
    PROVE  /\ IsFiniteSet(S) /\ Cardinality(S) \in Nat
           /\ Cardinality(Requests) \in Nat /\ Cardinality(S) <= Cardinality(Requests)
           /\ n * Cardinality(Requests) \in Nat
           /\ Leaks(n, off, S) \in Int /\ Leaks(n, off, S) <= n * Cardinality(Requests)
  <1>1. /\ IsFiniteSet(S) /\ Cardinality(S) \in Nat
        /\ Cardinality(Requests) \in Nat /\ Cardinality(S) <= Cardinality(Requests)
    BY ResetAssumption, FS_Subset, FS_CardinalityType
  <1>2. n * Cardinality(Requests) \in Nat
    BY <1>1
  <1> QED BY <1>1, <1>2 DEF Leaks

\* Nobody enters or leaves the driver, and no device goes offline or online.
LEMMA LeaksKept ==
    ASSUME Types, \A r \in Requests : pc'[r] = "out" <=> pc[r] = "out",
           UNCHANGED <<offline, resets>>
    PROVE  Leaks(resets, offline, Inside)' = Leaks(resets, offline, Inside)
  <1>1. Inside' = Inside
    BY DEF Inside
  <1> QED BY <1>1

\* A caller leaves the driver: a device that is offline can refuse one less.
LEMMA LeaksLeave ==
    ASSUME Types, NEW r \in Requests, pc[r] # "out", pc' = [pc EXCEPT ![r] = "out"],
           UNCHANGED <<offline, resets>>
    PROVE  LET before == Leaks(resets, offline, Inside)
               after == Leaks(resets, offline, Inside)'
           IN  /\ before \in Int /\ after \in Int /\ before <= after
               /\ offline => before + 1 <= after
  <1>0. resets \in Nat /\ Inside \in SUBSET Requests /\ Inside' \in SUBSET Requests
        /\ offline \in BOOLEAN
    BY ResetAssumption DEF Types, Inside
  <1>1. Inside' = Inside \ {r} /\ r \in Inside
    BY DEF Types, Inside
  <1>2. IsFiniteSet(Inside) /\ Cardinality(Inside) \in Nat
        /\ Cardinality(Inside') = Cardinality(Inside) - 1
    BY <1>0, <1>1, LeaksType, FS_RemoveElement
  <1>3. resets * Cardinality(Requests) \in Nat
    BY <1>0, LeaksType
  <1>4. Leaks(resets, offline, Inside)' =
          resets * Cardinality(Requests) - (IF offline THEN Cardinality(Inside') ELSE 0)
    BY DEF Leaks
  <1> QED BY <1>0, <1>2, <1>3, <1>4 DEF Leaks

\* The device goes offline, and may refuse every caller; it comes back, and
\* refuses none any more.
LEMMA LeaksReset ==
    ASSUME IInv, OfflineFlag \/ OnlineFlag
    PROVE  LET before == Leaks(resets, offline, Inside)
               after == Leaks(resets, offline, Inside)'
           IN  before \in Int /\ after \in Int /\ before <= after
  <1> DEFINE n == Cardinality(Requests)
             k == Cardinality(Inside)
  <1>0. resets \in Nat /\ Inside \in SUBSET Requests /\ offline \in BOOLEAN
    BY ResetAssumption DEF IInv, Types, Inside
  <1>1. n \in Nat /\ k \in Nat /\ k <= n /\ resets * n \in Nat
    BY <1>0, LeaksType
  <1>2. Inside' = Inside
    BY DEF OfflineFlag, OnlineFlag, Inside, caller
  <1>3. Leaks(resets, offline, Inside)' =
          resets' * n - (IF offline' THEN k ELSE 0)
    BY <1>2 DEF Leaks
  <1>4. Leaks(resets, offline, Inside) = resets * n - (IF offline THEN k ELSE 0)
    BY DEF Leaks
  <1> HIDE DEF n, k
  <1>5. CASE OfflineFlag
    <2>1. ~offline /\ offline' /\ resets' = resets + 1
      BY <1>5 DEF OfflineFlag, IInv, AdminInv
    <2>2. (resets + 1) * n = resets * n + n
      BY <1>0, <1>1
    <2> QED BY <1>1, <1>3, <1>4, <2>1, <2>2
  <1>6. CASE OnlineFlag
    <2>1. ~offline' /\ resets' = resets
      BY <1>6 DEF OnlineFlag
    <2> QED BY <1>0, <1>1, <1>3, <1>4, <2>1
  <1> QED BY <1>5, <1>6

\* A step in which nobody builds or gives back a transfer.
LEMMA UsedKept ==
    ASSUME IInv, UsedInv, engine'.used = engine.used,
           Leaks(resets, offline, Inside)' \in Int,
           Leaks(resets, offline, Inside) <= Leaks(resets, offline, Inside)',
           \A r \in Requests : /\ pc'[r] \in Built <=> pc[r] \in Built
                               /\ engine'.xfer[r].num = engine.xfer[r].num
    PROVE  UsedInv'
  <1> DEFINE l == Leaks(resets, offline, Inside)
  <1>1. PICK leaked \in Nat :
           /\ leaked <= l * DescMax
           /\ \A r \in Requests :
                 pc[r] \in Built => engine.used = leaked + engine.xfer[r].num
           /\ (\A r \in Requests : pc[r] \notin Built) => engine.used = leaked
    BY DEF UsedInv
  <1>2. l \in Int /\ DescMax \in Nat
    <2>1. resets \in Nat /\ Inside \in SUBSET Requests
      BY ResetAssumption DEF IInv, Types, Inside
    <2> QED BY <2>1, LeaksType, EngineAssumption
  <1> HIDE DEF l
  <1>3. l * DescMax \in Int /\ l' * DescMax \in Int /\ l * DescMax <= l' * DescMax
    BY <1>2, ProductGrows DEF l
  <1>4. leaked <= l' * DescMax
    BY <1>1, <1>3
  <1> QED BY <1>1, <1>4 DEF UsedInv, l

\* The transfer of r ends: it gives its descriptors back, or leaks them because
\* it was refused.
LEMMA UsedRelease ==
    ASSUME IInv, UsedInv, NEW r \in Requests, pc[r] \in Built,
           pc'[r] \notin Built, \A s \in Requests : s # r => pc'[s] = pc[s],
           Leaks(resets, offline, Inside)' \in Int,
           \/ /\ engine'.used = engine.used - engine.xfer[r].num
              /\ Leaks(resets, offline, Inside) <= Leaks(resets, offline, Inside)'
           \/ /\ engine'.used = engine.used
              /\ Leaks(resets, offline, Inside) + 1 <= Leaks(resets, offline, Inside)'
    PROVE  UsedInv'
  <1> DEFINE l == Leaks(resets, offline, Inside)
             num == engine.xfer[r].num
  <1>1. PICK leaked \in Nat : leaked <= l * DescMax /\ engine.used = leaked + num
    BY DEF UsedInv
  <1>2. l \in Int /\ DescMax \in Nat /\ num \in 0 .. DescMax
    <2>1. resets \in Nat /\ Inside \in SUBSET Requests
      BY ResetAssumption DEF IInv, Types, Inside
    <2> QED BY <2>1, LeaksType, EngineAssumption DEF IInv, Types, Engines, Transfers
  <1>3. \A s \in Requests : pc'[s] \notin Built
    <2>1. \A s \in Requests : s # r => pc[s] \notin Holding
      BY OnlyHolder DEF Built, Holding
    <2> QED BY <2>1 DEF Built, Holding
  <1> HIDE DEF l, num
  <1>4. l * DescMax \in Int /\ l' * DescMax \in Int
    BY <1>2 DEF l
  <1>5. CASE engine'.used = engine.used - num /\ l <= l'
    <2>1. l * DescMax <= l' * DescMax
      BY <1>2, <1>5, ProductGrows DEF l
    <2>2. engine'.used = leaked /\ leaked <= l' * DescMax
      BY <1>1, <1>2, <1>4, <1>5, <2>1
    <2> QED BY <1>3, <2>2 DEF UsedInv, l
  <1>6. CASE engine'.used = engine.used /\ l + 1 <= l'
    <2>1. l * DescMax + DescMax <= l' * DescMax
      BY <1>2, <1>6, ProductStep DEF l
    <2>2. engine'.used = leaked + num /\ leaked + num \in Nat
          /\ leaked + num <= l' * DescMax
      BY <1>1, <1>2, <1>4, <1>6, <2>1
    <2> QED BY <1>3, <2>2 DEF UsedInv, l
  <1> QED BY <1>5, <1>6 DEF l, num

\* transfer_init takes the descriptors of the chain.
LEMMA UsedBuild ==
    ASSUME IInv, UsedInv, NEW r \in Requests, Build(r)
    PROVE  UsedInv'
  <1> DEFINE num == ChainLength(engine, total[r] - next[r])
  <1>0. engine \in Engines /\ Types /\ pc[r] = "init" /\ Progress(r)
    BY DEF IInv, Types, Build
  <1>1. next[r] < total[r] /\ next[r] \in Nat /\ total[r] \in 0 .. MaxDescs
    BY <1>0, EngineAssumption DEF Progress, Types
  <1>2. Initialised(engine, engine', r, next[r], num)
    BY <1>0, <1>1, InitFields DEF Build
  <1>3. \A s \in Requests : s # r => pc[s] \notin Holding
    BY <1>0, OnlyHolder DEF Holding
  <1>4. pc'[r] = "queue" /\ \A s \in Requests : s # r => pc'[s] = pc[s]
    BY <1>0 DEF Build, Types
  <1>5. \A s \in Requests : pc[s] \notin Built
    BY <1>0, <1>3 DEF Built, Holding
  <1>6. PICK leaked \in Nat :
           leaked <= Leaks(resets, offline, Inside) * DescMax /\ engine.used = leaked
    BY <1>5 DEF UsedInv
  <1>7. Leaks(resets, offline, Inside)' = Leaks(resets, offline, Inside)
    <2>1. \A s \in Requests : pc'[s] = "out" <=> pc[s] = "out"
      BY <1>0, <1>4
    <2>2. UNCHANGED <<offline, resets>>
      BY DEF Build, admin, channel
    <2> QED BY <1>0, <2>1, <2>2, LeaksKept
  <1>8. engine'.used = leaked + engine'.xfer[r].num
    BY <1>0, <1>2, <1>6 DEF Initialised, Engines
  <1>9. \A s \in Requests : pc'[s] \in Built => s = r
    BY <1>4, <1>5
  <1>10. pc'[r] \in Built
    BY <1>4 DEF Built
  <1> QED BY <1>6, <1>7, <1>8, <1>9, <1>10 DEF UsedInv

\* A caller that ends its transfer: only a refused one does not return its
\* descriptors, and then the device is offline.
LEMMA UsedEnd ==
    ASSUME IInv, UsedInv, NEW r \in Requests,
           \/ QueueRefused(r) \/ Completed(r) \/ Failed(r)
           \/ Aborted(r) \/ AbortedUnread(r)
    PROVE  UsedInv'
  <1> DEFINE before == Leaks(resets, offline, Inside)
  <1>0. Types /\ pc \in [Requests -> Holding \cup {"out", "enter"}]
    BY DEF IInv, Types
  <1>1. pc[r] \in Built /\ pc[r] # "out"
    BY DEF QueueRefused, Completed, Failed, Aborted, AbortedUnread, Built
  <1>2. UNCHANGED <<offline, resets>>
    BY DEF QueueRefused, Completed, Failed, Aborted, AbortedUnread, admin, channel
  <1>3. CASE Return(r)
    <2>0. pc' = [pc EXCEPT ![r] = "out"]
      BY <1>3 DEF Return
    <2>1. before \in Int /\ before' \in Int /\ before <= before'
          /\ (offline => before + 1 <= before')
      BY <1>0, <1>1, <1>2, <2>0, LeaksLeave
    <2>2. pc'[r] \notin Built /\ \A s \in Requests : s # r => pc'[s] = pc[s]
      BY <1>0, <2>0 DEF Built
    <2>3. CASE QueueRefused(r)
      <3>1. offline
        BY <2>3 DEF QueueRefused, Accepts, IInv, AdminInv
      <3>2. engine'.used = engine.used
        BY <2>3, QueueRefusedStep
      <3> QED BY <1>1, <2>1, <2>2, <3>1, <3>2, UsedRelease
    <2>4. CASE ~QueueRefused(r)
      <3>1. engine'.used = engine.used - engine.xfer[r].num
        BY <2>4, CompletedStep, FailedStep, AbortedStep, AbortedUnreadStep
      <3> QED BY <1>1, <2>1, <2>2, <3>1, UsedRelease
    <2> QED BY <2>3, <2>4
  <1>4. CASE ~Return(r)
    <2>1. Completed(r) /\ pc' = [pc EXCEPT ![r] = "init"]
      BY <1>4 DEF QueueRefused, Completed, Failed, Aborted, AbortedUnread
    <2>2. pc'[r] \notin Built /\ \A s \in Requests : s # r => pc'[s] = pc[s]
      BY <1>0, <2>1 DEF Built
    <2>3. before' = before
      <3>1. \A s \in Requests : pc'[s] = "out" <=> pc[s] = "out"
        BY <1>0, <1>1, <2>1
      <3> QED BY <1>0, <1>2, <3>1, LeaksKept
    <2>4. before \in Int
      <3>1. resets \in Nat /\ Inside \in SUBSET Requests
        BY <1>0, ResetAssumption DEF Types, Inside
      <3> QED BY <3>1, LeaksType
    <2>5. engine'.used = engine.used - engine.xfer[r].num
      BY <2>1, CompletedStep
    <2>6. before <= before'
      BY <2>3, <2>4
    <2> HIDE DEF before
    <2>7. before' \in Int
      BY <2>3, <2>4
    <2> QED BY <1>1, <2>2, <2>5, <2>6, <2>7, UsedRelease DEF before
  <1> QED BY <1>3, <1>4

\* All other steps of a caller: it enters, waits for the lock, or waits for the
\* transfer it has queued.
LEMMA UsedPoint ==
    ASSUME IInv, UsedInv, NEW r \in Requests,
           \/ \E n \in 1 .. MaxDescs : Submit(r, n)
           \/ LockRing(r) \/ CheckOnline(r) \/ Queue(r) \/ Wake(r) \/ Timeout(r)
    PROVE  UsedInv'
  <1> DEFINE l == Leaks(resets, offline, Inside)
  <1>0. Types /\ engine \in Engines /\ pc \in [Requests -> Holding \cup {"out", "enter"}]
        /\ resets \in Nat /\ Inside \in SUBSET Requests /\ Inside' \in SUBSET Requests
    BY ResetAssumption DEF IInv, Types, Inside
  <1>1. UNCHANGED <<offline, resets>>
    BY DEF Submit, LockRing, CheckOnline, Queue, Wake, Timeout, admin, channel
  <1>2. l \in Int
    BY <1>0, LeaksType
  <1>3. l' = l
    <2>1. CASE \E n \in 1 .. MaxDescs : Submit(r, n)
      BY <1>1, <2>1 DEF Submit, Leaks
    <2>2. CASE ~ \E n \in 1 .. MaxDescs : Submit(r, n)
      <3>1. \A s \in Requests : pc'[s] = "out" <=> pc[s] = "out"
        BY <1>0, <2>2 DEF LockRing, CheckOnline, Queue, Wake, Timeout
      <3> QED BY <1>0, <1>1, <3>1, LeaksKept
    <2> QED BY <2>1, <2>2
  <1>4. \A s \in Requests : pc'[s] \in Built <=> pc[s] \in Built
    BY <1>0 DEF Submit, LockRing, CheckOnline, Queue, Wake, Timeout, Built
  <1>5. /\ engine'.used = engine.used
        /\ \A s \in Requests : engine'.xfer[s].num = engine.xfer[s].num
    <2>1. CASE Queue(r)
      <3>1. engine.list = <<>> /\ ~engine.running
        BY <2>1, IdleEngine DEF Queue
      <3>2. Started(engine, engine', r)
        BY <1>0, <2>1, <3>1, QueueFields DEF Queue
      <3> QED BY <1>0, <3>2 DEF Started, Engines, Transfers
    <2>2. CASE ~Queue(r)
      BY <2>2 DEF Submit, LockRing, CheckOnline, Wake, Timeout, driver
    <2> QED BY <2>1, <2>2
  <1> HIDE DEF l
  <1>6. l' \in Int /\ l <= l'
    BY <1>2, <1>3
  <1> QED BY <1>4, <1>5, <1>6, UsedKept DEF l

\* Interrupts, resets and the hardware take and give back no descriptor.
LEMMA UsedDriver ==
    ASSUME IInv, UsedInv,
           \/ xdma_isr \/ ServiceStatus \/ ServiceStatusFrozen
           \/ ServiceTransfers \/ ServiceTransfersFrozen
           \/ Reset \/ Move \/ BusError \/ Freeze \/ SlotReset
           \/ UNCHANGED vars
    PROVE  UsedInv'
  <1> DEFINE l == Leaks(resets, offline, Inside)
  <1>0. Types /\ engine \in Engines /\ resets \in Nat /\ Inside \in SUBSET Requests
    BY ResetAssumption DEF IInv, Types, Inside
  <1>1. l \in Int
    BY <1>0, LeaksType
  <1>2. /\ engine'.used = engine.used /\ pc' = pc
        /\ \A s \in Requests : engine'.xfer[s].num = engine.xfer[s].num
    <2>1. CASE ServiceTransfers
      BY <2>1, ServiceTransfersEffect DEF ServiceTransfers, caller
    <2>2. CASE Move
      <3>1. engine'.used = engine.used /\ engine'.xfer = engine.xfer
        BY <1>0, <2>2 DEF Move, HwMove, Engines
      <3> QED BY <2>2, <3>1 DEF Move, caller
    <2>3. CASE \/ xdma_isr \/ ServiceStatus \/ ServiceStatusFrozen \/ Reset
               \/ BusError \/ Freeze \/ SlotReset
      BY <2>3, TransfersStay DEF caller
    <2>4. CASE UNCHANGED vars
      BY <2>4 DEF vars, driver, caller
    <2>5. CASE ServiceTransfersFrozen
      BY <2>5, FrozenEffect DEF ServiceTransfersFrozen, caller
    <2> QED BY <2>1, <2>2, <2>3, <2>4, <2>5
  <1>3. l' \in Int /\ l <= l'
    <2>1. CASE OfflineFlag \/ OnlineFlag
      BY <2>1, LeaksReset
    <2>2. CASE ~(OfflineFlag \/ OnlineFlag)
      <3>1. UNCHANGED <<offline, resets>>
        BY <2>2 DEF xdma_isr, ServiceStatus, ServiceTransfers, ServiceStatusFrozen,
           ServiceTransfersFrozen, Freeze, SlotReset, Reset, OfflineStop,
           OfflineInterrupts, OnlineEngine, Move, BusError, vars, admin, channel
      <3>2. l' = l
        BY <1>0, <1>2, <3>1, LeaksKept
      <3> HIDE DEF l
      <3> QED BY <1>1, <3>2
    <2> QED BY <2>1, <2>2
  <1> QED BY <1>2, <1>3, UsedKept

\* desc_used is what the transfer in the ring takes plus what has leaked.
LEMMA UsedHolds == Spec => []UsedInv
  <1>1. Init => UsedInv
    <2> SUFFICES ASSUME Init PROVE UsedInv
      OBVIOUS
    <2>1. engine.used = 0 /\ resets = 0 /\ ~offline
          /\ \A r \in Requests : pc[r] \notin Built
      BY DEF Init, EngineInit, Built
    <2>2. Cardinality(Requests) \in Nat /\ DescMax \in Nat
      BY ResetAssumption, EngineAssumption, FS_CardinalityType
    <2>3. Leaks(resets, offline, Inside) * DescMax = 0
      BY <2>1, <2>2 DEF Leaks
    <2>4. 0 <= Leaks(resets, offline, Inside) * DescMax
      BY <2>3
    <2> QED BY <2>1, <2>4 DEF UsedInv
  <1>2. IInv /\ UsedInv /\ [Next]_vars => UsedInv'
    <2> SUFFICES ASSUME IInv, UsedInv, [Next]_vars PROVE UsedInv'
      OBVIOUS
    <2>1. ASSUME NEW r \in Requests, Caller(r) PROVE UsedInv'
      BY <2>1, UsedPoint, UsedBuild, UsedEnd DEF Caller, Proceed
    <2> QED BY <2>1, UsedDriver DEF Next
  <1> QED BY <1>1, <1>2, InvHolds, PTL DEF Spec

\* The engine and the requests keep their types: desc_used never falls below
\* zero, and exceeds the ring only by what refused transfers have leaked.
THEOREM TypeCorrect == Spec => []TypeOK
  <1>1. IInv /\ UsedInv => TypeOK
    <2> SUFFICES ASSUME IInv, UsedInv PROVE engine.used \in 0 .. MaxUsed
      BY DEF IInv, Types, Engines, TypeOK
    <2> DEFINE n == Cardinality(Requests)
               l == Leaks(resets, offline, Inside)
    <2>1. /\ resets \in Nat /\ MaxResets \in Nat /\ resets <= MaxResets
          /\ Inside \in SUBSET Requests /\ DescMax \in Nat
      BY ResetAssumption, EngineAssumption DEF IInv, Types, Inside
    <2>2. n \in Nat /\ l \in Int /\ l <= resets * n /\ resets * n \in Nat
      BY <2>1, LeaksType
    <2>3. PICK leaked \in Nat :
             /\ leaked <= l * DescMax
             /\ \A r \in Requests :
                   pc[r] \in Built => engine.used = leaked + engine.xfer[r].num
             /\ (\A r \in Requests : pc[r] \notin Built) => engine.used = leaked
      BY DEF UsedInv
    <2> HIDE DEF n, l
    <2>4. MaxResets * n \in Int /\ resets * n <= MaxResets * n
      BY <2>1, <2>2, ProductGrows
    <2>5. l + 1 <= MaxResets * n + 1 /\ l + 1 \in Int /\ MaxResets * n + 1 \in Int
      BY <2>2, <2>4
    <2>6. l * DescMax + DescMax <= (MaxResets * n + 1) * DescMax
      BY <2>1, <2>2, <2>5, ProductStep
    <2>7. (MaxResets * n + 1) * DescMax = MaxUsed
      BY DEF MaxUsed, n
    <2>8. l * DescMax \in Int /\ MaxUsed \in Int
      BY <2>1, <2>2, <2>5, <2>7
    <2>9. PICK k \in 0 .. DescMax : engine.used = leaked + k
      <3>1. CASE \E r \in Requests : pc[r] \in Built
        BY <2>3, <3>1 DEF IInv, Types, Engines, Transfers
      <3>2. CASE \A r \in Requests : pc[r] \notin Built
        <4>1. 0 \in 0 .. DescMax /\ leaked = leaked + 0
          BY <2>1
        <4> QED BY <2>3, <3>2, <4>1
      <3> QED BY <3>1, <3>2
    <2> QED BY <2>1, <2>3, <2>6, <2>7, <2>8, <2>9
  <1> QED BY <1>1, InvHolds, UsedHolds, PTL
=============================================================================
