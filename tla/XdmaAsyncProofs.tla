--------------------------- MODULE XdmaAsyncProofs --------------------------
(***************************************************************************)
(* Asynchronous requests: for any number of iocbs, segments, descriptors,  *)
(* ring size and faults, what is on the list of the engine has not been    *)
(* freed, its descriptors have not been overwritten as long as the ring is *)
(* not overrun, no more is reported than the hardware has moved, and the   *)
(* driver's counts keep within their bounds, however submitters,           *)
(* completions and resets interleave.                                      *)
(***************************************************************************)
EXTENDS XdmaAsync, FiniteSetTheorems, SequenceTheorems, WellFoundedInduction, TLAPS

-----------------------------------------------------------------------------
(* The inductive invariant *)

Engines ==
    [running : BOOLEAN, shutdown : SUBSET {"REQUEST", "IDLE"},
     list : Seq(Xfers), dequeued : Nat, idx : Slots, used : Int,
     status : SUBSET {"BUSY", "STOPPED", "ERROR"},
     ring : [Slots -> Descriptors], xfer : [Xfers -> Transfers],
     busy : BOOLEAN, pos : Int, count : Nat,
     events : SUBSET {"STOPPED", "ERROR"}, irq : BOOLEAN]

Caios(i) ==
    [live : BOOLEAN, req_cnt : 0 .. MaxSegs[i], cmpl_cnt : Nat, res : Nat, told : BOOLEAN]

Reqs == [live : BOOLEAN, total : 0 .. MaxDescs, next : 0 .. MaxDescs, tfer : 0 .. MaxTfer]

Points == {"out", "seg", "build", "queue", "admit", "wake", "queued", "failed"}

Types ==
    /\ engine \in Engines
    /\ wb \in [count : Nat, err : BOOLEAN] /\ got \in [count : Nat, err : BOOLEAN]
    /\ pc \in [Iocbs -> Points]
    /\ cur \in [Iocbs -> Nat] /\ \A i \in Iocbs : cur[i] \in 1 .. MaxSegs[i]
    /\ DOMAIN caio = Iocbs /\ \A i \in Iocbs : caio[i] \in Caios(i)
    /\ req \in [Segs -> Reqs]

\* Submitters between AioStart and Wakeup, and with a request.
Preparing == {"seg", "build", "queue", "admit"}
Busy == {"build", "queue", "admit"}

\* The segments that the submitter has not come to.
Ahead(s) == \/ s[2] > cur[s[1]]
            \/ s[2] = cur[s[1]] /\ pc[s[1]] \in {"out", "seg"}

\* How far each submitter is: a segment ahead has no request, the present one
\* has what was built of it.
Submitting ==
    /\ \A s \in Segs : Ahead(s) => req[s] = NoReq
    /\ \A s \in Segs : req[s].live => req[s].total > 0
    /\ \A i \in Iocbs :
          /\ pc[i] # "out" => cur[i] <= caio[i].req_cnt
          /\ pc[i] = "out" => caio[i] = NoCaio /\ cur[i] = 1
          /\ pc[i] \in Busy => req[Seg(i)].live /\ req[Seg(i)].next <= req[Seg(i)].total
          /\ pc[i] = "build" => req[Seg(i)].next < req[Seg(i)].total
          /\ pc[i] \in {"queue", "admit"} => req[Seg(i)].tfer > 0

\* A transfer that its submitter has built and not yet queued.
Unqueued(x) == /\ x[1] = Seg(x[1][1]) /\ pc[x[1][1]] \in {"queue", "admit"}
               /\ x[2] = req[x[1]].tfer - 1

\* What is on the list was queued, for a request that is neither completed nor
\* freed, unless a later transfer of it was refused; in the order of building.
Listed ==
    /\ \A k \in 1 .. Len(engine.list) :
          LET x == engine.list[k]
          IN  /\ ~Ahead(x[1]) /\ ~Unqueued(x)
              /\ \/ req[x[1]].live /\ x[2] < req[x[1]].tfer
                 \/ req[x[1]] = NoReq
    /\ \A k, l \in 1 .. Len(engine.list) :
          k < l /\ engine.list[k][1] = engine.list[l][1] =>
              engine.list[k][2] < engine.list[l][2]

\* The segments of i that were completed.
Completed(i) == {s \in Segs : s[1] = i /\ ~req[s].live /\ req[s].total > 0}

\* The caio has counted them; it is there as long as one is missing.
Awaited ==
    \A i \in Iocbs :
        /\ caio[i].cmpl_cnt = Cardinality(Completed(i))
        /\ pc[i] \in Preparing => caio[i].live
        /\ pc[i] # "failed" =>
              \A k \in 1 .. Len(engine.list) : engine.list[k][1][1] = i => caio[i].live

IInv == Types /\ Submitting /\ Listed /\ Awaited

-----------------------------------------------------------------------------
(* Segments, transfers, and the sum of a list *)

\* The numbers of the driver.
LEMMA Numbers ==
    /\ MaxDescs \in Nat \ {0} /\ DescMax \in Nat \ {0} /\ MaxDescs <= DescMax
    /\ \A i \in Iocbs : MaxSegs[i] \in Nat \ {0}
    /\ MaxTfer = 2 /\ 0 \in Slots
  BY AsyncAssumption DEF MaxTfer, Slots

\* A segment is an iocb and a number.
LEMMA SegParts ==
    ASSUME NEW s \in Segs
    PROVE  /\ s[1] \in Iocbs /\ s[2] \in 1 .. MaxSegs[s[1]] /\ s[2] \in Nat
           /\ s = <<s[1], s[2]>>
  <1>1. PICK i \in Iocbs : s \in {i} \X (1 .. MaxSegs[i])
    BY DEF Segs
  <1>2. MaxSegs[i] \in Nat
    BY Numbers
  <1> QED BY <1>1, <1>2

\* And each such pair is a segment.
LEMMA SegOf ==
    ASSUME NEW i \in Iocbs, NEW n \in 1 .. MaxSegs[i]
    PROVE  <<i, n>> \in Segs /\ <<i, n>>[1] = i /\ <<i, n>>[2] = n
  BY DEF Segs

\* A transfer is a segment and 0 or 1.
LEMMA XferParts ==
    ASSUME NEW x \in Xfers
    PROVE  x[1] \in Segs /\ x[2] \in {0, 1} /\ x = <<x[1], x[2]>>
  BY DEF Xfers

\* And each such pair is a transfer.
LEMMA XferOf ==
    ASSUME NEW s \in Segs, NEW t \in {0, 1}
    PROVE  <<s, t>> \in Xfers /\ <<s, t>>[1] = s /\ <<s, t>>[2] = t
  BY DEF Xfers

\* A set of naturals has a least element.
LEMMA Least ==
    ASSUME NEW T, T \subseteq Nat, T # {}
    PROVE  \E m \in T : \A y \in T : m <= y
  <1> DEFINE R == OpToRel(<, Nat)
  <1>1. \E x \in T : \A y \in T : ~(<<y, x>> \in R)
    BY NatLessThanWellFounded, WFMin
  <1>2. \A x, y \in T : ~(<<y, x>> \in R) => x <= y
    BY DEF OpToRel
  <1> QED BY <1>1, <1>2

\* Sums of naturals, defined by recursion as DescSum is, exist and are naturals.
Sums(num, k, f) == f = [j \in 0 .. k |-> IF j = 0 THEN 0 ELSE f[j - 1] + num[j]]

\* A function that satisfies the recursion has naturals as values.
LEMMA SumNatural ==
    ASSUME NEW n \in Nat, NEW num \in [1 .. n -> Nat], NEW k \in 0 .. n,
           NEW f, Sums(num, k, f)
    PROVE  \A j \in 0 .. k : f[j] \in Nat
  <1> DEFINE T == {j \in 0 .. k : f[j] \notin Nat}
  <1>1. T \subseteq Nat
    OBVIOUS
  <1>2. SUFFICES ASSUME T # {} PROVE FALSE
    OBVIOUS
  <1>3. PICK m \in T : \A y \in T : m <= y
    BY <1>1, <1>2, Least
  <1>4. f = [j \in 0 .. k |-> IF j = 0 THEN 0 ELSE f[j - 1] + num[j]]
    BY DEF Sums
  <1>5. m \in 0 .. k /\ f[m] \notin Nat
    OBVIOUS
  <1>6. f[m] = IF m = 0 THEN 0 ELSE f[m - 1] + num[m]
    BY <1>4, <1>5
  <1>7. m # 0
    BY <1>5, <1>6
  <1>8. m - 1 \in 0 .. k /\ m - 1 \notin T /\ m \in 1 .. n
    BY <1>1, <1>3, <1>5, <1>7
  <1>9. f[m - 1] \in Nat /\ num[m] \in Nat
    BY <1>8
  <1> QED BY <1>5, <1>6, <1>7, <1>9

\* And there is one.
LEMMA SumExists ==
    ASSUME NEW n \in Nat, NEW num \in [1 .. n -> Nat], NEW k \in 0 .. n
    PROVE  \E f : Sums(num, k, f)
  <1> DEFINE T == {j \in 0 .. n : ~\E f : Sums(num, j, f)}
  <1>1. T \subseteq Nat
    OBVIOUS
  <1>2. SUFFICES ASSUME T # {} PROVE FALSE
    OBVIOUS
  <1>3. PICK m \in T : \A y \in T : m <= y
    BY <1>1, <1>2, Least
  <1>4. m \in 0 .. n /\ ~\E f : Sums(num, m, f)
    OBVIOUS
  <1>5. m # 0
    <2> DEFINE z == [j \in 0 .. 0 |-> 0]
    <2>1. Sums(num, 0, z)
      BY DEF Sums
    <2> QED BY <1>4, <2>1
  <1>6. m - 1 \in 0 .. n /\ m - 1 \notin T
    BY <1>1, <1>3, <1>4, <1>5
  <1>7. PICK f : Sums(num, m - 1, f)
    BY <1>6
  <1> DEFINE g == [j \in 0 .. m |-> IF j = m THEN f[m - 1] + num[m] ELSE f[j]]
  <1>8. f = [j \in 0 .. m - 1 |-> IF j = 0 THEN 0 ELSE f[j - 1] + num[j]]
    BY <1>7 DEF Sums
  <1>9. ASSUME NEW j \in 0 .. m PROVE g[j] = IF j = 0 THEN 0 ELSE g[j - 1] + num[j]
    <2>1. CASE j = m
      <3>1. m - 1 \in 0 .. m /\ m - 1 # m
        BY <1>4, <1>5
      <3>2. g[m - 1] = f[m - 1] /\ g[m] = f[m - 1] + num[m]
        BY <3>1, <1>4
      <3> QED BY <1>5, <2>1, <3>2
    <2>2. CASE j # m
      <3>1. j \in 0 .. m - 1 /\ g[j] = f[j]
        BY <1>4, <2>2
      <3>2. f[j] = IF j = 0 THEN 0 ELSE f[j - 1] + num[j]
        BY <1>8, <3>1
      <3>3. j # 0 => j - 1 \in 0 .. m /\ j - 1 # m
        BY <1>4, <3>1
      <3>4. j # 0 => g[j - 1] = f[j - 1]
        BY <3>3
      <3> HIDE DEF g
      <3> QED BY <3>1, <3>2, <3>4
    <2> QED BY <2>1, <2>2
  <1>10. g = [j \in 0 .. m |-> IF j = 0 THEN 0 ELSE g[j - 1] + num[j]]
    <2>1. g = [j \in 0 .. m |-> g[j]]
      OBVIOUS
    <2> HIDE DEF g
    <2>2. [j \in 0 .. m |-> g[j]] = [j \in 0 .. m |-> IF j = 0 THEN 0 ELSE g[j - 1] + num[j]]
      BY <1>9
    <2> QED BY <2>1, <2>2
  <1>11. Sums(num, m, g)
    BY <1>10 DEF Sums
  <1> QED BY <1>4, <1>11

\* So the descriptors of the first transfers of a list are a natural number,
\* which the recursion gives.
LEMMA DescSumType ==
    ASSUME NEW e \in Engines, NEW k \in 0 .. Len(e.list)
    PROVE  /\ DescSum(e, k) \in Nat
           /\ \E f : /\ DescSum(e, k) = f[k]
                    /\ f = [j \in 0 .. k |-> IF j = 0 THEN 0
                                            ELSE f[j - 1] + e.xfer[e.list[j]].num]
  <1> DEFINE n == Len(e.list)
             num == [j \in 1 .. n |-> e.xfer[e.list[j]].num]
             Rec(f) == f = [j \in 0 .. k |-> IF j = 0 THEN 0
                                           ELSE f[j - 1] + e.xfer[e.list[j]].num]
             s == CHOOSE f : Rec(f)
  <1>1. n \in Nat /\ e.list \in Seq(Xfers) /\ e.xfer \in [Xfers -> Transfers]
    BY LenProperties DEF Engines
  <1>2. num \in [1 .. n -> Nat]
    <2>1. \A j \in 1 .. n : e.list[j] \in Xfers
      BY <1>1, ElementOfSeq
    <2>2. \A j \in 1 .. n : e.xfer[e.list[j]].num \in Nat
      BY <1>1, <2>1, Numbers DEF Transfers
    <2> QED BY <2>2
  <1>3. ASSUME NEW f PROVE Rec(f) <=> Sums(num, k, f)
    <2>1. \A j \in 0 .. k : j # 0 => num[j] = e.xfer[e.list[j]].num
      BY <1>1
    <2> HIDE DEF num
    <2>2. [j \in 0 .. k |-> IF j = 0 THEN 0 ELSE f[j - 1] + e.xfer[e.list[j]].num]
            = [j \in 0 .. k |-> IF j = 0 THEN 0 ELSE f[j - 1] + num[j]]
      BY <2>1
    <2> QED BY <2>2 DEF Sums
  <1>4. \E f : Rec(f)
    <2> HIDE DEF num, n, Rec
    <2>1. k \in 0 .. n
      BY DEF n
    <2> QED BY <1>1, <1>2, <1>3, <2>1, SumExists
  <1>5. Rec(s)
    <2> HIDE DEF Rec
    <2> QED BY <1>4
  <1>6. s[k] \in Nat
    <2> HIDE DEF num, n, Rec, s
    <2>1. k \in 0 .. n /\ Sums(num, k, s)
      BY <1>3, <1>5 DEF n
    <2>2. \A j \in 0 .. k : s[j] \in Nat
      BY <1>1, <1>2, <2>1, SumNatural
    <2> QED BY <1>1, <2>1, <2>2
  <1>7. DescSum(e, k) = s[k]
    BY DEF DescSum
  <1>8. \E f : DescSum(e, k) = f[k] /\ Rec(f)
    <2> HIDE DEF Rec, s
    <2> QED BY <1>5, <1>7
  <1> QED BY <1>6, <1>7, <1>8

\* So the transfers that n descriptors cover can be found.
LEMMA CoveredIn ==
    ASSUME NEW e \in Engines, NEW n \in Int
    PROVE  Covered(e, n) \in 0 .. Len(e.list)
  <1> DEFINE len == Len(e.list)
             P(k) == /\ \A j \in 1 .. k : n > DescSum(e, j)
                     /\ k < len => n <= DescSum(e, k + 1)
             T == {j \in 1 .. len : n <= DescSum(e, j)}
  <1>1. len \in Nat
    BY LenProperties DEF Engines
  <1>2. \A j \in 1 .. len : DescSum(e, j) \in Nat
    BY <1>1, DescSumType
  <1> HIDE DEF len
  <1>3. \E k \in 0 .. len : P(k)
    <2>1. CASE T = {}
      <3>1. P(len)
        BY <1>1, <1>2, <2>1
      <3> QED BY <1>1, <3>1
    <2>2. CASE T # {}
      <3>1. T \subseteq Nat
        BY <1>1
      <3>2. PICK m \in T : \A y \in T : m <= y
        BY <2>2, <3>1, Least
      <3>3. m \in 1 .. len /\ n <= DescSum(e, m)
        BY <3>2
      <3>4. m - 1 \in 0 .. len /\ (m - 1) + 1 = m
        BY <1>1, <3>3
      <3>5. \A j \in 1 .. m - 1 : n > DescSum(e, j)
        <4>1. TAKE j \in 1 .. m - 1
        <4>2. j \in 1 .. len /\ ~(m <= j)
          BY <1>1, <3>3
        <4>3. j \notin T
          BY <3>2, <4>2
        <4> QED BY <1>2, <4>2, <4>3
      <3>6. P(m - 1)
        BY <3>3, <3>4, <3>5
      <3> QED BY <3>4, <3>6
    <2> QED BY <2>1, <2>2
  <1>4. (CHOOSE k \in 0 .. len : P(k)) \in 0 .. len
    <2> HIDE DEF P
    <2> QED BY <1>3
  <1> QED BY <1>4 DEF Covered, len

-----------------------------------------------------------------------------
(* What the functions of the engine do to its type and its list *)

\* List b is what is left of list a when its first transfers are answered.
Suffix(b, a) ==
    /\ Len(b) <= Len(a)
    /\ \A j \in 1 .. Len(b) : b[j] = a[Len(a) - Len(b) + j]

\* The chains of the transfers are the same in f as in e.
SameChains(f, e) ==
    /\ f.idx = e.idx /\ f.used = e.used /\ f.ring = e.ring
    /\ \A x \in Xfers : f.xfer[x].first = e.xfer[x].first /\ f.xfer[x].num = e.xfer[x].num

\* So are those on the list.
Kept(f, e) == f \in Engines /\ f.list = e.list /\ SameChains(f, e)

\* The list without its head.
LEMMA TailSuffix ==
    ASSUME NEW s \in Seq(Xfers), s # <<>>
    PROVE  Suffix(Tail(s), s)
  <1>1. Len(s) \in Nat /\ Len(Tail(s)) = Len(s) - 1
        /\ \A i \in 1 .. Len(Tail(s)) : Tail(s)[i] = s[i + 1]
    BY HeadTailProperties, LenProperties
  <1>2. Len(Tail(s)) <= Len(s) /\ Len(s) - Len(Tail(s)) = 1
    BY <1>1
  <1>3. \A i \in 1 .. Len(Tail(s)) : Len(s) - Len(Tail(s)) + i = i + 1
    BY <1>2
  <1> QED BY <1>1, <1>2, <1>3 DEF Suffix

\* So is the list without its first k.
LEMMA RestSuffix ==
    ASSUME NEW s \in Seq(Xfers), NEW k \in 0 .. Len(s)
    PROVE  LET rest == SubSeq(s, k + 1, Len(s))
           IN  rest \in Seq(Xfers) /\ Suffix(rest, s)
  <1> DEFINE rest == SubSeq(s, k + 1, Len(s))
             n == Len(s)
  <1>1. n \in Nat /\ k + 1 \in Int
    BY LenProperties
  <1>2. \A i \in k + 1 .. n : s[i] \in Xfers
    BY <1>1, ElementOfSeq
  <1>3. /\ rest \in Seq(Xfers)
        /\ Len(rest) = IF k + 1 <= n THEN n - (k + 1) + 1 ELSE 0
        /\ \A i \in 1 .. n - (k + 1) + 1 : rest[i] = s[k + 1 + i - 1]
    BY <1>1, <1>2, SubSeqProperties
  <1> HIDE DEF rest
  <1>4. k \in 0 .. n
    OBVIOUS
  <1> HIDE DEF n
  <1>5. Len(rest) = n - k
    BY <1>1, <1>3, <1>4
  <1>6. n - (k + 1) + 1 = n - k /\ n - (n - k) = k /\ n - k <= n
    BY <1>1, <1>4
  <1>7. ASSUME NEW i \in 1 .. Len(rest) PROVE rest[i] = s[n - Len(rest) + i]
    <2>1. i \in 1 .. n - (k + 1) + 1 /\ k + 1 + i - 1 = n - Len(rest) + i
      BY <1>1, <1>4, <1>5, <1>6
    <2> QED BY <1>3, <2>1
  <1> QED BY <1>3, <1>5, <1>6, <1>7 DEF Suffix, n, rest

\* engine_start touches neither the list nor the chains.
LEMMA StartFields ==
    ASSUME NEW e \in Engines
    PROVE  Kept(engine_start(e), e)
  <1>1. CASE e.running \/ e.list = <<>>
    BY <1>1 DEF engine_start, Kept, SameChains
  <1>2. CASE ~(e.running \/ e.list = <<>>)
    <2> DEFINE status == e.events \cup {"BUSY"}
               pos == e.xfer[Head(e.list)].first
               f == [e EXCEPT !.shutdown = {}, !.dequeued = 0, !.running = TRUE,
                              !.busy = TRUE, !.count = 0, !.status = status,
                              !.pos = pos]
    <2>1. engine_start(e) = f
      BY <1>2 DEF engine_start
    <2>2. status \in SUBSET {"BUSY", "STOPPED", "ERROR"}
      BY DEF Engines
    <2>3. pos \in Int
      <3>1. Head(e.list) \in Xfers
        BY <1>2, HeadTailProperties DEF Engines
      <3> QED BY <3>1, Numbers DEF Engines, Transfers, Slots
    <2> HIDE DEF status, pos
    <2>4. Kept(f, e)
      BY <2>2, <2>3 DEF Engines, Kept, SameChains
    <2> QED BY <2>1, <2>4
  <1> QED BY <1>1, <1>2

\* Nor do the registers, the hardware and the interrupt.
LEMMA StatusFields ==
    ASSUME NEW e \in Engines
    PROVE  /\ Kept(engine_status_read(e), e) /\ Kept(xdma_engine_stop(e), e)
           /\ Kept(HwError(e), e)
           /\ \A b \in BOOLEAN : Kept([e EXCEPT !.irq = b], e)
           /\ \A d \in SUBSET {"REQUEST", "IDLE"} : Kept([e EXCEPT !.shutdown = d], e)
  <1>1. Kept(engine_status_read(e), e)
    <2> DEFINE status == e.events \cup (IF e.busy THEN {"BUSY"} ELSE {})
               f == [e EXCEPT !.status = status, !.events = {}]
    <2>1. status \in SUBSET {"BUSY", "STOPPED", "ERROR"}
      BY DEF Engines
    <2>2. engine_status_read(e) = f
      BY DEF engine_status_read
    <2> HIDE DEF status
    <2> QED BY <2>1, <2>2 DEF Engines, Kept, SameChains
  <1>2. Kept(xdma_engine_stop(e), e)
    BY DEF Engines, xdma_engine_stop, Kept, SameChains
  <1>3. Kept(HwError(e), e)
    BY DEF Engines, HwError, Kept, SameChains
  <1>4. \A b \in BOOLEAN : Kept([e EXCEPT !.irq = b], e)
    BY DEF Engines, Kept, SameChains
  <1>5. \A d \in SUBSET {"REQUEST", "IDLE"} : Kept([e EXCEPT !.shutdown = d], e)
    BY DEF Engines, Kept, SameChains
  <1> QED BY <1>1, <1>2, <1>3, <1>4, <1>5

\* One such function after another.
LEMMA KeptTransitive ==
    ASSUME NEW e, NEW f, NEW g, Kept(f, e), Kept(g, f)
    PROVE  Kept(g, e)
  BY DEF Kept, SameChains

\* A transfer in a state is a transfer.
LEMMA StateType ==
    ASSUME NEW x \in Transfers, NEW state \in TransferStates
    PROVE  [x EXCEPT !.state = state] \in Transfers
  BY DEF Transfers

\* The transfer at the head is answered.
LEMMA AnswerFields ==
    ASSUME NEW e \in Engines, e.list # <<>>, NEW state \in TransferStates, NEW d \in Nat
    PROVE  LET a == Answer(e, state, d)
           IN  a \in Engines /\ Suffix(a.list, e.list) /\ SameChains(a, e)
  <1> DEFINE h == Head(e.list)
             x == [e.xfer EXCEPT ![h] = [@ EXCEPT !.state = state]]
             a == [e EXCEPT !.xfer = x, !.dequeued = e.dequeued + d, !.list = Tail(e.list)]
  <1>1. h \in Xfers /\ Tail(e.list) \in Seq(Xfers) /\ Len(Tail(e.list)) = Len(e.list) - 1
        /\ Len(e.list) \in Nat
        /\ \A i \in 1 .. Len(Tail(e.list)) : Tail(e.list)[i] = e.list[i + 1]
    BY HeadTailProperties, LenProperties DEF Engines
  <1>2. Answer(e, state, d) = a
    BY DEF Answer
  <1>3. x \in [Xfers -> Transfers]
    <2>1. e.xfer \in [Xfers -> Transfers] /\ e.xfer[h] \in Transfers
      BY <1>1 DEF Engines
    <2>2. [e.xfer[h] EXCEPT !.state = state] \in Transfers
      BY <2>1, StateType
    <2> QED BY <1>1, <2>1, <2>2
  <1>4. e.dequeued + d \in Nat
    BY DEF Engines
  <1>5. \A r \in Xfers : x[r].first = e.xfer[r].first /\ x[r].num = e.xfer[r].num
    <2>1. e.xfer \in [Xfers -> Transfers] /\ e.xfer[h] \in Transfers
      BY <1>1 DEF Engines
    <2> QED BY <1>1, <2>1 DEF Transfers
  <1>6. a \in Engines /\ a.list = Tail(e.list) /\ SameChains(a, e)
    <2> HIDE DEF x, h
    <2> QED BY <1>1, <1>3, <1>4, <1>5 DEF Engines, SameChains
  <1>7. Suffix(Tail(e.list), e.list)
    BY TailSuffix DEF Engines
  <1> QED BY <1>2, <1>6, <1>7

\* Answered in two goes.
LEMMA SuffixTransitive ==
    ASSUME NEW a \in Seq(Xfers), NEW b \in Seq(Xfers), NEW c \in Seq(Xfers),
           Suffix(b, a), Suffix(c, b)
    PROVE  Suffix(c, a)
  <1>1. Len(a) \in Nat /\ Len(b) \in Nat /\ Len(c) \in Nat
    BY LenProperties
  <1>2. Len(b) <= Len(a) /\ Len(c) <= Len(b)
    BY DEF Suffix
  <1>3. ASSUME NEW j \in 1 .. Len(c) PROVE c[j] = a[Len(a) - Len(c) + j]
    <2> DEFINE l == Len(b) - Len(c) + j
    <2>1. l \in 1 .. Len(b) /\ Len(a) - Len(b) + l = Len(a) - Len(c) + j
      BY <1>1, <1>2
    <2>2. c[j] = b[l] 
      BY DEF Suffix
    <2> HIDE DEF l
    <2>3. b[l] = a[Len(a) - Len(b) + l]
      BY <2>1 DEF Suffix
    <2> QED BY <2>1, <2>2, <2>3
  <1> QED BY <1>1, <1>2, <1>3 DEF Suffix

\* The transfers that n completed descriptors cover are answered.
LEMMA TransferListFields ==
    ASSUME NEW e \in Engines, NEW n \in Int
    PROVE  LET f == engine_service_transfer_list(e, n)
           IN  f \in Engines /\ Suffix(f.list, e.list) /\ SameChains(f, e)
  <1> DEFINE k == Covered(e, n)
             x == [r \in Xfers |-> IF \E j \in 1 .. k : e.list[j] = r
                                   THEN [e.xfer[r] EXCEPT !.state = "COMPLETED"]
                                   ELSE e.xfer[r]]
             rest == SubSeq(e.list, k + 1, Len(e.list))
             f == [e EXCEPT !.xfer = x, !.dequeued = e.dequeued + DescSum(e, k),
                            !.list = rest]
  <1>1. k \in 0 .. Len(e.list) /\ Len(e.list) \in Nat /\ e.list \in Seq(Xfers)
    BY CoveredIn, LenProperties DEF Engines
  <1>2. engine_service_transfer_list(e, n) = f
    BY DEF engine_service_transfer_list
  <1>3. e.dequeued + DescSum(e, k) \in Nat
    BY <1>1, DescSumType DEF Engines
  <1> HIDE DEF k
  <1>4. x \in [Xfers -> Transfers]
    <2>1. \A r \in Xfers : [e.xfer[r] EXCEPT !.state = "COMPLETED"] \in Transfers
      BY StateType DEF Engines, TransferStates
    <2> QED BY <2>1 DEF Engines
  <1>5. rest \in Seq(Xfers) /\ Suffix(rest, e.list)
    BY <1>1, RestSuffix
  <1>6. \A r \in Xfers : x[r].first = e.xfer[r].first /\ x[r].num = e.xfer[r].num
    <2>1. \A r \in Xfers : e.xfer[r] \in Transfers
      BY DEF Engines
    <2> QED BY <2>1 DEF Transfers
  <1> DEFINE d == e.dequeued + DescSum(e, k)
  <1>7. f \in Engines /\ f.list = rest /\ SameChains(f, e)
    <2> HIDE DEF x, rest, d
    <2> QED BY <1>3, <1>4, <1>5, <1>6 DEF Engines, SameChains, d
  <1> QED BY <1>2, <1>5, <1>7

\* So is the one the engine stopped on.
LEMMA FinalTransferFields ==
    ASSUME NEW e \in Engines, NEW n \in Int
    PROVE  LET f == engine_service_final_transfer(e, n)
           IN  f \in Engines /\ Suffix(f.list, e.list) /\ SameChains(f, e)
  <1>1. CASE e.list = <<>>
    <2>1. engine_service_final_transfer(e, n) = e
      BY <1>1 DEF engine_service_final_transfer
    <2> QED BY <1>1, <2>1 DEF Suffix, SameChains
  <1>2. CASE e.list # <<>> /\ "ERROR" \in e.status
    <2> DEFINE a == Answer(e, "FAILED", 0)
    <2>1. engine_service_final_transfer(e, n) = xdma_engine_stop(a)
      BY <1>2 DEF engine_service_final_transfer
    <2>2. a \in Engines /\ Suffix(a.list, e.list) /\ SameChains(a, e)
      BY <1>2, AnswerFields DEF TransferStates
    <2> HIDE DEF a
    <2>3. Kept(xdma_engine_stop(a), a)
      BY <2>2, StatusFields
    <2> QED BY <2>1, <2>2, <2>3 DEF Kept, SameChains
  <1>3. CASE e.list # <<>> /\ "ERROR" \notin e.status
    <2> DEFINE num == e.xfer[Head(e.list)].num
               state == IF n < num THEN "FAILED" ELSE "COMPLETED"
    <2>1. engine_service_final_transfer(e, n) = Answer(e, state, num)
      BY <1>3 DEF engine_service_final_transfer
    <2>2. state \in TransferStates
      BY DEF TransferStates
    <2>3. num \in Nat
      <3>1. Head(e.list) \in Xfers
        BY <1>3, HeadTailProperties DEF Engines
      <3> QED BY <3>1, Numbers DEF Engines, Transfers
    <2> HIDE DEF num, state
    <2> QED BY <1>3, <2>1, <2>2, <2>3, AnswerFields
  <1> QED BY <1>1, <1>2, <1>3

\* engine_service_resume touches neither the list nor the chains.
LEMMA ResumeFields ==
    ASSUME NEW e \in Engines
    PROVE  Kept(engine_service_resume(e), e)
  <1>1. CASE ~e.running /\ e.list # <<>>
    BY <1>1, StartFields DEF engine_service_resume
  <1>2. CASE ~e.running /\ e.list = <<>> /\ "REQUEST" \in e.shutdown
    <2> DEFINE d == e.shutdown \cup {"IDLE"}
    <2>1. engine_service_resume(e) = [e EXCEPT !.shutdown = d]
      BY <1>2 DEF engine_service_resume
    <2>2. d \in SUBSET {"REQUEST", "IDLE"}
      BY DEF Engines
    <2> HIDE DEF d
    <2>3. Kept([e EXCEPT !.shutdown = d], e)
      BY <2>2, StatusFields
    <2> QED BY <2>1, <2>3
  <1>3. CASE e.running /\ e.list = <<>>
    <2>1. engine_service_resume(e) = xdma_engine_stop(e)
      BY <1>3 DEF engine_service_resume, engine_service_shutdown
    <2> QED BY <2>1, StatusFields
  <1>4. CASE \/ e.running /\ e.list # <<>>
             \/ ~e.running /\ e.list = <<>> /\ "REQUEST" \notin e.shutdown
    <2>1. engine_service_resume(e) = e
      BY <1>4 DEF engine_service_resume
    <2> QED BY <2>1 DEF Kept, SameChains
  <1>5. e.running \in BOOLEAN
    BY DEF Engines
  <1> QED BY <1>1, <1>2, <1>3, <1>4, <1>5

\* The transfers that the count covers leave the list from its head.
LEMMA AnsweredFields ==
    ASSUME NEW e \in Engines, NEW count \in Nat
    PROVE  LET f == answer_transfers(e, count)
           IN  f \in Engines /\ Suffix(f.list, e.list) /\ SameChains(f, e)
  <1>1. CASE count = 0
    <2>1. answer_transfers(e, count) = e
      BY <1>1 DEF answer_transfers
    <2>2. Len(e.list) \in Nat
      BY LenProperties DEF Engines
    <2> QED BY <2>1, <2>2 DEF Suffix, SameChains
  <1>2. CASE count # 0
    <2> DEFINE desc_count == Unsigned(count - e.dequeued)
               listed == engine_service_transfer_list(e, desc_count)
               rest == desc_count - (listed.dequeued - e.dequeued)
               final == engine_service_final_transfer(listed, rest)
               f == engine_service_resume(final)
    <2>1. answer_transfers(e, count) = f
      BY <1>2 DEF answer_transfers
    <2>2. desc_count \in Int /\ e.dequeued \in Nat
      BY DEF Unsigned, Engines
    <2> HIDE DEF desc_count
    <2>3. listed \in Engines /\ Suffix(listed.list, e.list) /\ SameChains(listed, e)
      BY <2>2, TransferListFields
    <2> HIDE DEF listed
    <2>4. rest \in Int
      BY <2>2, <2>3 DEF Engines
    <2> HIDE DEF rest
    <2>5. final \in Engines /\ Suffix(final.list, listed.list) /\ SameChains(final, listed)
      BY <2>3, <2>4, FinalTransferFields
    <2> HIDE DEF final
    <2>6. Kept(f, final)
      BY <2>5, ResumeFields
    <2> HIDE DEF f
    <2>7. Suffix(final.list, e.list)
      <3>1. e.list \in Seq(Xfers) /\ listed.list \in Seq(Xfers) /\ final.list \in Seq(Xfers)
        BY <2>3, <2>5 DEF Engines
      <3> QED BY <2>3, <2>5, <3>1, SuffixTransitive
    <2>8. SameChains(f, e)
      BY <2>3, <2>5, <2>6 DEF Kept, SameChains
    <2> QED BY <2>1, <2>6, <2>7, <2>8 DEF Kept
  <1> QED BY <1>1, <1>2

\* A chain is never longer than what is left of the request.
LEMMA ChainLengthBounds ==
    ASSUME NEW e \in Engines, NEW n \in Nat \ {0}
    PROVE  /\ ChainLength(e, n) \in 1 .. n /\ ChainLength(e, n) \in 1 .. DescMax
           /\ e.idx + ChainLength(e, n) <= DescMax
  <1>1. e.idx \in 0 .. DescMax - 1 /\ DescMax \in Nat
    BY Numbers DEF Engines, Slots
  <1> QED BY <1>1 DEF ChainLength, Smaller

\* f is e with a chain of num descriptors for r, from software descriptor k on,
\* at desc_idx, and that counted.
Inits(f, e, r, k, num) ==
    /\ f \in Engines /\ f.list = e.list
    /\ f.idx = (e.idx + num) % DescMax /\ f.used = e.used + num
    /\ f.xfer[r].first = e.idx /\ f.xfer[r].num = num /\ f.xfer[r].state = "NEW"
    /\ \A x \in Xfers : x # r => f.xfer[x] = e.xfer[x]
    /\ \A i \in e.idx .. e.idx + num - 1 :
          /\ f.ring[i].magic /\ f.ring[i].req = r
          /\ f.ring[i].last = (i = e.idx + num - 1)
          /\ f.ring[i].index = k + i - e.idx
    /\ \A i \in Slots : i \notin e.idx .. e.idx + num - 1 => f.ring[i] = e.ring[i]
    /\ f.running = e.running /\ f.busy = e.busy /\ f.pos = e.pos
    /\ f.count = e.count /\ f.dequeued = e.dequeued

\* That is all transfer_init does.
LEMMA InitFields ==
    ASSUME NEW e \in Engines, NEW r \in Xfers,
           NEW k \in Nat, NEW n \in 0 .. MaxDescs, k < n
    PROVE  Inits(transfer_init(e, r, k, n), e, r, k, ChainLength(e, n - k))
  <1> DEFINE num == ChainLength(e, n - k)
             Desc(i) == [magic |-> TRUE, req |-> r, index |-> k + i - e.idx,
                         last |-> i = e.idx + num - 1]
             ring == [i \in Slots |-> IF i \in e.idx .. e.idx + num - 1
                                      THEN Desc(i) ELSE e.ring[i]]
             x == [state |-> "NEW", first |-> e.idx, num |-> num]
             idx == (e.idx + num) % DescMax
             used == e.used + num
             f == [e EXCEPT !.ring = ring, !.xfer[r] = x, !.idx = idx, !.used = used]
  <1>1. e.idx \in 0 .. DescMax - 1 /\ DescMax \in Nat \ {0} /\ MaxDescs \in Nat /\ e.used \in Int
    BY Numbers DEF Engines, Slots
  <1>2. num \in 1 .. n - k /\ num \in 1 .. DescMax /\ e.idx + num <= DescMax
    <2>1. n - k \in Nat \ {0}
      BY <1>1
    <2> QED BY <2>1, ChainLengthBounds
  <1>3. transfer_init(e, r, k, n) = f
    BY DEF transfer_init
  <1> HIDE DEF num
  <1>4. x \in Transfers /\ x.first = e.idx /\ x.num = num /\ x.state = "NEW"
    BY <1>1, <1>2 DEF Transfers, TransferStates, Slots
  <1>5. ASSUME NEW i \in Slots, i \in e.idx .. e.idx + num - 1
        PROVE  Desc(i) \in Descriptors
    <2>1. k + i - e.idx \in 0 .. MaxDescs - 1
      BY <1>1, <1>2, <1>5
    <2> QED BY <2>1 DEF Descriptors
  <1>6. ring \in [Slots -> Descriptors]
    <2> HIDE DEF Desc
    <2> QED BY <1>5 DEF Engines
  <1>7. idx \in Slots /\ used \in Int
    BY <1>1, <1>2 DEF Slots
  <1>8. \A i \in e.idx .. e.idx + num - 1 :
            /\ ring[i].magic /\ ring[i].req = r /\ ring[i].last = (i = e.idx + num - 1)
            /\ ring[i].index = k + i - e.idx
    <2>1. \A i \in e.idx .. e.idx + num - 1 : i \in Slots
      BY <1>1, <1>2 DEF Slots
    <2> QED BY <2>1
  <1>9. \A i \in Slots : i \notin e.idx .. e.idx + num - 1 => ring[i] = e.ring[i]
    OBVIOUS
  <1>10. /\ f \in Engines /\ f.list = e.list /\ f.idx = idx /\ f.used = used /\ f.ring = ring
         /\ f.xfer = [e.xfer EXCEPT ![r] = x]
         /\ f.running = e.running /\ f.busy = e.busy /\ f.pos = e.pos
         /\ f.count = e.count /\ f.dequeued = e.dequeued
    <2> HIDE DEF ring, x, idx, used
    <2> QED BY <1>4, <1>6, <1>7 DEF Engines
  <1>11. f.xfer[r] = x /\ \A y \in Xfers : y # r => f.xfer[y] = e.xfer[y]
    <2> HIDE DEF f, x
    <2> QED BY <1>10 DEF Engines
  <1> HIDE DEF f, ring, x
  <1>12. Inits(f, e, r, k, num)
    BY <1>4, <1>8, <1>9, <1>10, <1>11 DEF Inits, idx, used
  <1> QED BY <1>3, <1>12 DEF num

\* transfer_queue puts the transfer at the end of the list.
LEMMA QueueFields ==
    ASSUME NEW e \in Engines, NEW r \in Xfers
    PROVE  LET f == transfer_queue(e, r)
           IN  f \in Engines /\ f.list = Append(e.list, r) /\ SameChains(f, e)
  <1> DEFINE x == [e.xfer EXCEPT ![r] = [@ EXCEPT !.state = "SUBMITTED"]]
             list == Append(e.list, r)
             q == [e EXCEPT !.xfer = x, !.list = list]
  <1>1. transfer_queue(e, r) = engine_start(q)
    BY DEF transfer_queue
  <1>2. x \in [Xfers -> Transfers]
    <2>1. e.xfer \in [Xfers -> Transfers] /\ e.xfer[r] \in Transfers
      BY DEF Engines
    <2>2. [e.xfer[r] EXCEPT !.state = "SUBMITTED"] \in Transfers
      BY <2>1, StateType DEF TransferStates
    <2> QED BY <2>1, <2>2
  <1>3. list \in Seq(Xfers)
    BY AppendProperties DEF Engines
  <1>4. \A y \in Xfers : x[y].first = e.xfer[y].first /\ x[y].num = e.xfer[y].num
    <2>1. e.xfer \in [Xfers -> Transfers] /\ e.xfer[r] \in Transfers
      BY DEF Engines
    <2> QED BY <2>1 DEF Transfers
  <1> HIDE DEF x, list
  <1>5. q \in Engines /\ q.list = list /\ SameChains(q, e)
    BY <1>2, <1>3, <1>4 DEF Engines, SameChains
  <1> HIDE DEF q
  <1>6. Kept(engine_start(q), q)
    BY <1>5, StartFields
  <1> QED BY <1>1, <1>5, <1>6 DEF list, Kept, SameChains

-----------------------------------------------------------------------------
(* Steps that leave the requests, the list and the chains alone *)

WriteBacks == [count : Nat, err : BOOLEAN]

Quiet == /\ Kept(engine', engine)
         /\ wb' \in WriteBacks /\ got' \in WriteBacks
         /\ UNCHANGED <<submit, requests>>

\* Such a step of the driver, the hardware or the polling thread keeps the
\* invariant.
LEMMA QuietStep == IInv /\ Quiet => IInv'
  <1> SUFFICES ASSUME IInv, Quiet PROVE IInv'
    OBVIOUS
  <1>1. /\ pc' = pc /\ cur' = cur /\ caio' = caio /\ req' = req
        /\ engine' \in Engines /\ engine'.list = engine.list
        /\ wb' \in WriteBacks /\ got' \in WriteBacks
    BY DEF Quiet, Kept, submit, requests
  <1>2. Types'
    BY <1>1 DEF IInv, Types, WriteBacks
  <1>3. Submitting'
    BY <1>1 DEF IInv, Submitting, Ahead, Seg
  <1>4. Listed'
    BY <1>1 DEF IInv, Listed, Ahead, Unqueued, Seg
  <1>5. Awaited'
    <2>1. \A i \in Iocbs : Completed(i)' = Completed(i)
      BY <1>1 DEF Completed
    <2> QED BY <1>1, <2>1 DEF IInv, Awaited
  <1> QED BY <1>2, <1>3, <1>4, <1>5 DEF IInv

\* What the invariant says of the types.
LEMMA TypesOf ==
    ASSUME IInv
    PROVE  /\ engine \in Engines /\ wb \in WriteBacks /\ got \in WriteBacks
           /\ NoWb \in WriteBacks /\ engine.count \in Nat /\ engine.list \in Seq(Xfers)
           /\ Len(engine.list) \in Nat
  <1>1. engine \in Engines
    BY DEF IInv, Types
  <1>2. engine.count \in Nat /\ engine.list \in Seq(Xfers)
    BY <1>1 DEF Engines
  <1> QED BY <1>1, <1>2, LenProperties DEF IInv, Types, WriteBacks, NoWb

\* Interrupt mode, up to the answer.
LEMMA IsrQuiet == IInv /\ xdma_isr => Quiet
  <1> SUFFICES ASSUME IInv, xdma_isr PROVE Quiet
    OBVIOUS
  <1>1. Kept(engine', engine)
    BY TypesOf, StatusFields DEF xdma_isr
  <1>2. wb' = wb /\ got' = got /\ UNCHANGED <<submit, requests>>
    BY DEF xdma_isr, poller
  <1> QED BY <1>1, <1>2, TypesOf DEF Quiet

\* The status is read, and an engine that is not busy is stopped.
LEMMA ServiceStatusQuiet == IInv /\ ServiceStatus => Quiet
  <1> SUFFICES ASSUME IInv, ServiceStatus PROVE Quiet
    OBVIOUS
  <1> DEFINE e == service_status(engine)
             b == IF engine.running THEN e.irq ELSE TRUE
  <1>1. Kept(e, engine)
    <2> DEFINE read == engine_status_read(engine)
    <2>1. Kept(read, engine) /\ read \in Engines
      BY TypesOf, StatusFields DEF Kept
    <2>2. e = read \/ e = xdma_engine_stop(read)
      <3>1. engine.running \in BOOLEAN /\ engine.busy \in BOOLEAN
        BY TypesOf DEF Engines
      <3> QED BY <3>1 DEF service_status, engine_service_shutdown
    <2> HIDE DEF read, e
    <2>3. Kept(xdma_engine_stop(read), read)
      BY <2>1, StatusFields
    <2> QED BY <2>1, <2>2, <2>3, KeptTransitive
  <1>2. engine' = [e EXCEPT !.irq = b]
    BY DEF ServiceStatus
  <1>3. b \in BOOLEAN
    BY <1>1 DEF Engines, Kept
  <1> HIDE DEF e, b
  <1>4. Kept(engine', e)
    BY <1>1, <1>2, <1>3, StatusFields DEF Kept
  <1>5. wb' = wb /\ got' = got /\ UNCHANGED <<submit, requests>>
    BY DEF ServiceStatus, poller
  <1>6. Kept(engine', engine)
    BY <1>1, <1>4, KeptTransitive
  <1> QED BY <1>5, <1>6, TypesOf DEF Quiet

\* The polling thread, up to the answer.
LEMMA PollQuiet ==
    ASSUME IInv, \/ PollCheck \/ PollWake \/ PollProc \/ PollRead \/ PollClear
                 \/ PollTimeout
    PROVE  Quiet
  <1>1. engine' = engine /\ UNCHANGED <<submit, requests>>
    BY DEF PollCheck, PollWake, PollProc, PollRead, PollClear, PollTimeout, driver
  <1>2. wb' \in {wb, NoWb} /\ got' \in {got, wb, NoWb}
    BY DEF PollCheck, PollWake, PollProc, PollRead, PollClear, PollTimeout, PollReturn
  <1>3. wb' \in WriteBacks /\ got' \in WriteBacks
    BY <1>2, TypesOf
  <1> QED BY <1>1, <1>3, TypesOf DEF Quiet, Kept, SameChains

\* The polling thread begins to service the engine.
LEMMA PollStatusQuiet == IInv /\ PollStatus => Quiet
  <1> SUFFICES ASSUME IInv, PollStatus PROVE Quiet
    OBVIOUS
  <1>1. Kept(engine_status_read(engine), engine)
    BY TypesOf, StatusFields
  <1>2. Kept(poll_status(engine), engine)
    <2> DEFINE read == IF got.err THEN engine_status_read(engine) ELSE engine
    <2>1. Kept(engine, engine)
      BY TypesOf DEF Kept, SameChains
    <2>2. Kept(read, engine) /\ read \in Engines
      BY <1>1, <2>1 DEF Kept
    <2>3. poll_status(engine) = read \/ poll_status(engine) = xdma_engine_stop(read)
      BY DEF poll_status, engine_service_shutdown
    <2> HIDE DEF read
    <2>4. Kept(xdma_engine_stop(read), read)
      BY <2>2, StatusFields
    <2> QED BY <2>2, <2>3, <2>4, KeptTransitive
  <1>3. Kept(engine', engine)
    BY <1>1, <1>2 DEF PollStatus
  <1>4. wb' = wb /\ got' \in {got, NoWb} /\ UNCHANGED <<submit, requests>>
    BY DEF PollStatus, PollReturn
  <1>5. got' \in WriteBacks
    BY <1>4, TypesOf
  <1> QED BY <1>3, <1>4, <1>5, TypesOf DEF Quiet

\* xdma_device_offline and xdma_device_online.
LEMMA ResetQuiet ==
    ASSUME IInv, OfflineFlag \/ OfflineStop \/ Online
    PROVE  Quiet
  <1>1. Kept(engine', engine)
    <2>1. CASE OfflineFlag
      BY <2>1, TypesOf DEF OfflineFlag, driver, Kept, SameChains
    <2>2. CASE OfflineStop
      <3> DEFINE e == xdma_engine_stop(engine)
                 d == e.shutdown \cup {"REQUEST"}
                 f == [e EXCEPT !.shutdown = d]
      <3>1. Kept(e, engine) /\ e \in Engines
        BY TypesOf, StatusFields DEF Kept
      <3> HIDE DEF e
      <3>2. d \in SUBSET {"REQUEST", "IDLE"}
        BY <3>1 DEF Engines
      <3>3. engine' = [f EXCEPT !.irq = FALSE]
        BY <2>2 DEF OfflineStop, e
      <3> HIDE DEF d
      <3>4. Kept(f, e) /\ f \in Engines
        BY <3>1, <3>2, StatusFields DEF Kept
      <3> HIDE DEF f
      <3>5. Kept(engine', f)
        BY <3>3, <3>4, StatusFields
      <3> QED BY <3>1, <3>4, <3>5, KeptTransitive
    <2>3. CASE Online
      <3> DEFINE d == engine.shutdown \ {"REQUEST"}
                 f == [engine EXCEPT !.shutdown = d]
      <3>1. d \in SUBSET {"REQUEST", "IDLE"}
        BY TypesOf DEF Engines
      <3>2. engine' = [f EXCEPT !.irq = TRUE]
        BY <2>3 DEF Online
      <3> HIDE DEF d
      <3>3. Kept(f, engine) /\ f \in Engines
        BY <3>1, TypesOf, StatusFields DEF Kept
      <3> HIDE DEF f
      <3>4. Kept(engine', f)
        BY <3>2, <3>3, StatusFields
      <3> QED BY <3>3, <3>4, KeptTransitive
    <2> QED BY <2>1, <2>2, <2>3
  <1>2. wb' \in {wb, NoWb} /\ got' = got /\ UNCHANGED <<submit, requests>>
    BY DEF OfflineFlag, OfflineStop, Online, poller
  <1>3. wb' \in WriteBacks
    BY <1>2, TypesOf
  <1> QED BY <1>1, <1>2, <1>3, TypesOf DEF Quiet

\* The hardware.
LEMMA HardwareQuiet ==
    ASSUME IInv, Move \/ BusError
    PROVE  Quiet
  <1>0. engine \in Engines /\ engine.count \in Nat /\ engine.count + 1 \in Nat
    BY TypesOf
  <1>1. Kept(engine', engine)
    <2>1. CASE Move
      <3> DEFINE events == engine.events \cup {"STOPPED"}
                 count == engine.count + 1
                 pos == engine.pos + 1
                 f == [engine EXCEPT !.count = count, !.busy = FALSE, !.events = events]
                 g == [engine EXCEPT !.count = count, !.pos = pos]
      <3>1. engine' = f \/ engine' = g
        BY <2>1 DEF Move, HwMove
      <3>2. events \in SUBSET {"STOPPED", "ERROR"} /\ count \in Nat /\ pos \in Int
        BY <1>0 DEF Engines
      <3> HIDE DEF events, count, pos
      <3>3. Kept(f, engine)
        BY <1>0, <3>2 DEF Engines, Kept, SameChains
      <3>4. Kept(g, engine)
        BY <1>0, <3>2 DEF Engines, Kept, SameChains
      <3> HIDE DEF f, g
      <3> QED BY <3>1, <3>3, <3>4
    <2>2. CASE BusError
      BY <1>0, <2>2, StatusFields DEF BusError
    <2> QED BY <2>1, <2>2
  <1>2. wb' \in WriteBacks
    <2>1. wb' \in {wb, [count |-> engine.count + 1, err |-> FALSE],
                    [count |-> engine.count, err |-> TRUE]}
      BY DEF Move, BusError
    <2>2. [count |-> engine.count + 1, err |-> FALSE] \in WriteBacks
          /\ [count |-> engine.count, err |-> TRUE] \in WriteBacks
      BY <1>0 DEF WriteBacks
    <2> QED BY <2>1, <2>2, TypesOf
  <1>3. got' = got /\ UNCHANGED <<submit, requests>>
    BY DEF Move, BusError, poller
  <1> QED BY <1>1, <1>2, <1>3, TypesOf DEF Quiet

\* All of them.
LEMMA OthersQuiet ==
    ASSUME IInv, \/ xdma_isr \/ ServiceStatus \/ PollStatus \/ PollTimeout
                 \/ PollCheck \/ PollWake \/ PollProc \/ PollRead \/ PollClear
                 \/ OfflineFlag \/ OfflineStop \/ Online \/ Hardware \/ UNCHANGED vars
    PROVE  Quiet
  <1>1. CASE xdma_isr \/ ServiceStatus \/ PollStatus
    BY <1>1, IsrQuiet, ServiceStatusQuiet, PollStatusQuiet
  <1>2. CASE PollTimeout \/ PollCheck \/ PollWake \/ PollProc \/ PollRead \/ PollClear
    BY <1>2, PollQuiet
  <1>3. CASE OfflineFlag \/ OfflineStop \/ Online \/ Hardware
    BY <1>3, ResetQuiet, HardwareQuiet DEF Hardware
  <1>4. CASE UNCHANGED vars
    <2>1. UNCHANGED <<engine, wb, got, submit, requests>>
      BY <1>4 DEF vars, driver, poller
    <2> QED BY <2>1, TypesOf DEF Quiet, Kept, SameChains
  <1> QED BY <1>1, <1>2, <1>3, <1>4

-----------------------------------------------------------------------------
(* The submitters *)

\* The present segment of a submitter, its request and its caio.
LEMMA SegFacts ==
    ASSUME IInv, NEW i \in Iocbs
    PROVE  /\ Seg(i) \in Segs /\ Seg(i)[1] = i /\ Seg(i)[2] = cur[i]
           /\ cur[i] \in 1 .. MaxSegs[i] /\ MaxSegs[i] \in Nat
           /\ req[Seg(i)] \in Reqs /\ caio[i] \in Caios(i) /\ pc[i] \in Points
           /\ pc \in [Iocbs -> Points] /\ cur \in [Iocbs -> Nat] /\ req \in [Segs -> Reqs]
  <1>1. cur[i] \in 1 .. MaxSegs[i] /\ MaxSegs[i] \in Nat
    BY Numbers DEF IInv, Types
  <1>2. Seg(i) \in Segs /\ Seg(i)[1] = i /\ Seg(i)[2] = cur[i]
    BY <1>1, SegOf DEF Seg
  <1> QED BY <1>1, <1>2 DEF IInv, Types

\* A step of the submitter of i, which has started: it goes on to point p at
\* segment c with request r, and completes nothing.
Advance(i, p, c, r) ==
    /\ pc' = [pc EXCEPT ![i] = p] /\ cur' = [cur EXCEPT ![i] = c]
    /\ req' = [req EXCEPT ![Seg(i)] = r]
    /\ p \in Points \ {"out"} /\ r \in Reqs
    /\ \/ c = cur[i] /\ p # "seg"
       \/ c = cur[i] + 1 /\ c <= caio[i].req_cnt /\ p = "seg"
    /\ r.live => r.total > 0
    /\ p \in Busy => r.live /\ r.next <= r.total
    /\ p = "build" => r.next < r.total
    /\ p \in {"queue", "admit"} => r.tfer > 0
    /\ ~r.live /\ r.total > 0 <=> ~req[Seg(i)].live /\ req[Seg(i)].total > 0

\* No counter of a caio changes.
SameCounts ==
    /\ DOMAIN caio' = Iocbs
    /\ \A j \in Iocbs :
          /\ caio'[j] \in Caios(j) /\ caio'[j].req_cnt = caio[j].req_cnt
          /\ caio'[j].cmpl_cnt = caio[j].cmpl_cnt
          /\ caio[j] = NoCaio /\ pc[j] = "out" => caio'[j] = NoCaio

\* What such a step does to the submitters and segments.
LEMMA AdvanceMoves ==
    ASSUME IInv, NEW i \in Iocbs, NEW p, NEW c, NEW r, pc[i] # "out", Advance(i, p, c, r)
    PROVE  /\ pc' \in [Iocbs -> Points] /\ cur' \in [Iocbs -> Nat] /\ req' \in [Segs -> Reqs]
           /\ pc'[i] = p /\ cur'[i] = c /\ req'[Seg(i)] = r
           /\ c \in 1 .. MaxSegs[i] /\ c <= caio[i].req_cnt
           /\ \A j \in Iocbs : j # i => pc'[j] = pc[j] /\ cur'[j] = cur[j]
           /\ \A s \in Segs : s # Seg(i) => req'[s] = req[s]
           /\ \A s \in Segs : Ahead(s)' => Ahead(s) /\ s # Seg(i)
  <1>1. c \in 1 .. MaxSegs[i] /\ c <= caio[i].req_cnt /\ c \in Nat
    <2>1. cur[i] <= caio[i].req_cnt /\ caio[i].req_cnt \in 0 .. MaxSegs[i]
      BY SegFacts DEF IInv, Submitting, Caios
    <2> QED BY <2>1, SegFacts DEF Advance
  <1>2. pc' \in [Iocbs -> Points] /\ cur' \in [Iocbs -> Nat] /\ req' \in [Segs -> Reqs]
    BY <1>1, SegFacts DEF Advance
  <1>3. /\ pc'[i] = p /\ cur'[i] = c /\ req'[Seg(i)] = r
        /\ \A j \in Iocbs : j # i => pc'[j] = pc[j] /\ cur'[j] = cur[j]
        /\ \A s \in Segs : s # Seg(i) => req'[s] = req[s]
    BY SegFacts DEF Advance
  <1>4. ASSUME NEW s \in Segs, Ahead(s)' PROVE Ahead(s) /\ s # Seg(i)
    <2>1. s[1] \in Iocbs /\ s[2] \in Nat
      BY SegParts
    <2>2. \/ s[2] > cur'[s[1]]
          \/ s[2] = cur'[s[1]] /\ pc'[s[1]] \in {"out", "seg"}
      BY <1>4 DEF Ahead
    <2>3. CASE s[1] # i
      BY <1>3, <2>1, <2>2, <2>3, SegFacts DEF Ahead
    <2>4. CASE s[1] = i
      <3>1. cur[i] \in Nat
        BY SegFacts
      <3>2. s[2] > cur[i]
        BY <1>3, <2>1, <2>2, <2>4, <3>1 DEF Advance
      <3> QED BY <2>1, <2>4, <3>1, <3>2, SegFacts DEF Ahead
    <2> QED BY <2>3, <2>4
  <1> QED BY <1>1, <1>2, <1>3, <1>4

\* It keeps the types and what is known of the submitters, and it completes no
\* segment.
LEMMA AdvanceKeeps ==
    ASSUME IInv, NEW i \in Iocbs, NEW p, NEW c, NEW r, pc[i] # "out", Advance(i, p, c, r),
           SameCounts, engine' \in Engines, wb' = wb, got' = got
    PROVE  Types' /\ Submitting' /\ \A j \in Iocbs : Completed(j)' = Completed(j)
  <1> DEFINE M == /\ pc' \in [Iocbs -> Points] /\ cur' \in [Iocbs -> Nat] /\ req' \in [Segs -> Reqs]
                  /\ pc'[i] = p /\ cur'[i] = c /\ req'[Seg(i)] = r
                  /\ c \in 1 .. MaxSegs[i] /\ c <= caio[i].req_cnt
                  /\ \A j \in Iocbs : j # i => pc'[j] = pc[j] /\ cur'[j] = cur[j]
                  /\ \A s \in Segs : s # Seg(i) => req'[s] = req[s]
                  /\ \A s \in Segs : Ahead(s)' => Ahead(s) /\ s # Seg(i)
  <1>1. M
    BY AdvanceMoves
  <1>2. Types'
    <2>1. \A j \in Iocbs : cur'[j] \in 1 .. MaxSegs[j]
      BY <1>1 DEF IInv, Types
    <2>2. DOMAIN caio' = Iocbs /\ \A j \in Iocbs : caio'[j] \in Caios(j)
      BY DEF SameCounts
    <2> QED BY <1>1, <2>1, <2>2 DEF IInv, Types
  <1>3. \A s \in Segs : Ahead(s)' => req'[s] = NoReq
    BY <1>1 DEF IInv, Submitting
  <1>4. \A s \in Segs : req'[s].live => req'[s].total > 0
    BY <1>1 DEF IInv, Submitting, Advance
  <1>5. ASSUME NEW j \in Iocbs
        PROVE  /\ pc'[j] # "out" => cur'[j] <= caio'[j].req_cnt
               /\ pc'[j] = "out" => caio'[j] = NoCaio /\ cur'[j] = 1
               /\ pc'[j] \in Busy => /\ req'[Seg(j)'].live
                                     /\ req'[Seg(j)'].next <= req'[Seg(j)'].total
               /\ pc'[j] = "build" => req'[Seg(j)'].next < req'[Seg(j)'].total
               /\ pc'[j] \in {"queue", "admit"} => req'[Seg(j)'].tfer > 0
    <2>1. CASE j = i
      <3>1. p # "seg" => Seg(i)' = Seg(i)
        BY <1>1 DEF Advance, Seg
      <3>2. p # "out" /\ (p \in Busy => p # "seg")
        BY DEF Advance, Busy
      <3>3. caio'[i].req_cnt = caio[i].req_cnt
        BY DEF SameCounts
      <3> QED BY <1>1, <2>1, <3>1, <3>2, <3>3 DEF Advance, Busy
    <2>2. CASE j # i
      <3>1. Seg(j)' = Seg(j) /\ Seg(j) # Seg(i) /\ Seg(j) \in Segs
        BY <1>1, <2>2, SegFacts DEF Seg
      <3>2. req'[Seg(j)'] = req[Seg(j)] /\ pc'[j] = pc[j] /\ cur'[j] = cur[j]
        BY <1>1, <2>2, <3>1
      <3>3. /\ caio'[j].req_cnt = caio[j].req_cnt
            /\ caio[j] = NoCaio /\ pc[j] = "out" => caio'[j] = NoCaio
        BY DEF SameCounts
      <3> QED BY <3>2, <3>3 DEF IInv, Submitting
    <2> QED BY <2>1, <2>2
  <1>6. Submitting'
    BY <1>3, <1>4, <1>5 DEF Submitting
  <1>7. ASSUME NEW j \in Iocbs PROVE Completed(j)' = Completed(j)
    <2>1. \A s \in Segs : ~req'[s].live /\ req'[s].total > 0 <=> ~req[s].live /\ req[s].total > 0
      BY <1>1 DEF Advance
    <2>2. Completed(j)' = {s \in Segs : s[1] = j /\ ~req'[s].live /\ req'[s].total > 0}
      BY DEF Completed
    <2> QED BY <2>1, <2>2 DEF Completed
  <1> QED BY <1>2, <1>6, <1>7

\* It keeps what is known of the list when this and the caio stay, and the
\* request is not behind its listed transfers.
LEMMA AdvanceStep ==
    ASSUME IInv, NEW i \in Iocbs, NEW p, NEW c, NEW r, pc[i] # "out", Advance(i, p, c, r),
           SameCounts, engine' \in Engines, engine'.list = engine.list, wb' = wb, got' = got,
           pc[i] # "failed",
           \A j \in Iocbs : caio'[j].live = caio[j].live \/ (j = i /\ p = "failed"),
           p \in Preparing => caio[i].live,
           \A k \in 1 .. Len(engine.list) :
               engine.list[k][1] = Seg(i) =>
                   /\ r = NoReq \/ (r.live /\ engine.list[k][2] < r.tfer)
                   /\ p \in {"queue", "admit"} => engine.list[k][2] # r.tfer - 1
    PROVE  IInv'
  <1>1. /\ pc'[i] = p /\ cur'[i] = c /\ req'[Seg(i)] = r
        /\ \A j \in Iocbs : j # i => pc'[j] = pc[j] /\ cur'[j] = cur[j]
        /\ \A s \in Segs : s # Seg(i) => req'[s] = req[s]
        /\ \A s \in Segs : Ahead(s)' => Ahead(s) /\ s # Seg(i)
    BY AdvanceMoves
  <1>2. Types' /\ Submitting' /\ \A j \in Iocbs : Completed(j)' = Completed(j)
    BY AdvanceKeeps
  <1>3. Listed'
    <2>1. ASSUME NEW k \in 1 .. Len(engine.list), NEW x, x = engine.list[k]
          PROVE  /\ ~Ahead(x[1])' /\ ~Unqueued(x)'
                 /\ \/ req'[x[1]].live /\ x[2] < req'[x[1]].tfer
                    \/ req'[x[1]] = NoReq
      <3>1. x \in Xfers
        BY <2>1, TypesOf, ElementOfSeq
      <3>2. x[1] \in Segs /\ x[1][1] \in Iocbs
        BY <3>1, XferParts, SegParts
      <3>3. /\ ~Ahead(x[1]) /\ ~Unqueued(x)
            /\ (req[x[1]].live /\ x[2] < req[x[1]].tfer) \/ req[x[1]] = NoReq
        BY <2>1 DEF IInv, Listed
      <3>4. x[1] = Seg(i) => /\ r = NoReq \/ (r.live /\ x[2] < r.tfer)
                             /\ p \in {"queue", "admit"} => x[2] # r.tfer - 1
        BY <2>1
      <3>5. ~Ahead(x[1])'
        BY <1>1, <3>2, <3>3
      <3>6. (req'[x[1]].live /\ x[2] < req'[x[1]].tfer) \/ req'[x[1]] = NoReq
        BY <1>1, <3>2, <3>3, <3>4
      <3>7. ASSUME Unqueued(x)' PROVE FALSE
        <4>1. /\ x[1] = <<x[1][1], cur'[x[1][1]]>> /\ pc'[x[1][1]] \in {"queue", "admit"}
              /\ x[2] = req'[x[1]].tfer - 1
          BY <3>7 DEF Unqueued, Seg
        <4>2. CASE x[1][1] = i
          <5>1. p \in {"queue", "admit"} /\ x[1] = <<i, c>>
            BY <1>1, <4>1, <4>2
          <5>2. c = cur[i]
            BY <5>1 DEF Advance
          <5>3. x[1] = Seg(i)
            BY <5>1, <5>2 DEF Seg
          <5> QED BY <1>1, <3>4, <4>1, <5>1, <5>3
        <4>3. CASE x[1][1] # i
          <5>1. x[1] = Seg(x[1][1]) /\ pc[x[1][1]] \in {"queue", "admit"}
            BY <1>1, <3>2, <4>1, <4>3 DEF Seg
          <5>2. x[1] # Seg(i)
            BY <4>3, SegFacts
          <5>3. req'[x[1]] = req[x[1]]
            BY <1>1, <3>2, <5>2
          <5> QED BY <3>3, <4>1, <5>1, <5>3 DEF Unqueued
        <4> QED BY <4>2, <4>3
      <3> QED BY <3>5, <3>6, <3>7
    <2>2. \A k, l \in 1 .. Len(engine.list) :
            k < l /\ engine.list[k][1] = engine.list[l][1] =>
                engine.list[k][2] < engine.list[l][2]
      BY DEF IInv, Listed
    <2>3. engine'.list = engine.list
      OBVIOUS
    <2> QED BY <2>1, <2>2, <2>3 DEF Listed
  <1>4. Awaited'
    <2> SUFFICES ASSUME NEW j \in Iocbs
                 PROVE  /\ caio'[j].cmpl_cnt = Cardinality(Completed(j)')
                        /\ pc'[j] \in Preparing => caio'[j].live
                        /\ pc'[j] # "failed" =>
                              \A k \in 1 .. Len(engine'.list) :
                                  engine'.list[k][1][1] = j => caio'[j].live
      BY DEF Awaited
    <2>1. caio'[j].cmpl_cnt = Cardinality(Completed(j)')
      <3>1. caio'[j].cmpl_cnt = caio[j].cmpl_cnt
        BY DEF SameCounts
      <3>2. caio[j].cmpl_cnt = Cardinality(Completed(j))
        BY DEF IInv, Awaited
      <3> QED BY <1>2, <3>1, <3>2
    <2>2. pc'[j] \in Preparing => caio'[j].live
      BY <1>1 DEF IInv, Awaited, Preparing
    <2>3. ASSUME pc'[j] # "failed", NEW k \in 1 .. Len(engine.list), engine.list[k][1][1] = j
          PROVE  caio'[j].live
      <3>1. CASE j # i
        BY <1>1, <2>3, <3>1 DEF IInv, Awaited
      <3>2. CASE j = i
        <4>1. p # "failed" /\ caio'[i].live = caio[i].live
          BY <1>1, <2>3, <3>2
        <4>2. pc[i] # "failed" => caio[i].live
          BY <2>3, <3>2 DEF IInv, Awaited
        <4> QED BY <3>2, <4>1, <4>2
      <3> QED BY <3>1, <3>2
    <2> QED BY <2>1, <2>2, <2>3
  <1> QED BY <1>2, <1>3, <1>4 DEF IInv

\* A caio that stays, and one that is freed, keeps its counts.
LEMMA CountsKept ==
    ASSUME IInv, \/ caio' = caio
                 \/ \E i \in Iocbs : pc[i] # "out" /\ caio' = [caio EXCEPT ![i].live = FALSE]
    PROVE  SameCounts
  <1>1. CASE caio' = caio
    BY <1>1 DEF SameCounts, IInv, Types
  <1>2. CASE \E i \in Iocbs : pc[i] # "out" /\ caio' = [caio EXCEPT ![i].live = FALSE]
    <2>1. PICK i \in Iocbs : pc[i] # "out" /\ caio' = [caio EXCEPT ![i].live = FALSE]
      BY <1>2
    <2>2. DOMAIN caio = Iocbs /\ \A j \in Iocbs : caio[j] \in Caios(j)
      BY DEF IInv, Types
    <2>3. DOMAIN caio' = Iocbs /\ \A j \in Iocbs : j # i => caio'[j] = caio[j]
      BY <2>1, <2>2
    <2>4. caio'[i] = [caio[i] EXCEPT !.live = FALSE]
      BY <2>1, <2>2
    <2>5. /\ caio'[i] \in Caios(i) /\ caio'[i].req_cnt = caio[i].req_cnt
          /\ caio'[i].cmpl_cnt = caio[i].cmpl_cnt
      BY <2>2, <2>4 DEF Caios
    <2> QED BY <2>1, <2>2, <2>3, <2>5 DEF SameCounts
  <1> QED BY <1>1, <1>2

\* The loop of cdev_aio_read goes on.
LEMMA NextSegmentMoves ==
    ASSUME IInv, NEW i \in Iocbs, NextSegment(i)
    PROVE  \E p \in {"seg", "wake"}, c \in Nat :
              /\ pc' = [pc EXCEPT ![i] = p] /\ cur' = [cur EXCEPT ![i] = c]
              /\ \/ c = cur[i] /\ p = "wake"
                 \/ c = cur[i] + 1 /\ c <= caio[i].req_cnt /\ p = "seg"
  <1>1. cur[i] \in Nat /\ caio[i].req_cnt \in Nat /\ cur \in [Iocbs -> Nat]
    BY SegFacts DEF Caios
  <1>2. CASE cur[i] < caio[i].req_cnt
    BY <1>1, <1>2 DEF NextSegment
  <1>3. CASE ~(cur[i] < caio[i].req_cnt)
    BY <1>1, <1>3 DEF NextSegment
  <1> QED BY <1>2, <1>3

\* What a step of a submitter leaves alone.
LEMMA Unmoved ==
    ASSUME IInv, NEW i \in Iocbs
    PROVE  cur = [cur EXCEPT ![i] = cur[i]] /\ req = [req EXCEPT ![Seg(i)] = req[Seg(i)]]
  BY SegFacts

\* The list, for a submitter that keeps or frees its request.
LEMMA ListedStays ==
    ASSUME IInv, NEW i \in Iocbs
    PROVE  \A k \in 1 .. Len(engine.list) :
              engine.list[k][1] = Seg(i) =>
                  \/ req[Seg(i)] = NoReq
                  \/ req[Seg(i)].live /\ engine.list[k][2] < req[Seg(i)].tfer
  BY DEF IInv, Listed

\* An iocb is submitted: none of its segments has come to anything.
LEMMA AioStartStep ==
    ASSUME IInv, NEW i \in Iocbs, NEW n \in 1 .. MaxSegs[i], AioStart(i, n)
    PROVE  IInv'
  <1> DEFINE new == [NoCaio EXCEPT !.live = TRUE, !.req_cnt = n]
  <1>1. pc[i] = "out" /\ caio[i] = NoCaio /\ cur[i] = 1
    BY DEF AioStart, IInv, Submitting
  <1>2. new \in Caios(i) /\ new.live /\ new.req_cnt = n /\ new.cmpl_cnt = 0 /\ n >= 1
        /\ NoCaio.cmpl_cnt = 0
    <2>1. MaxSegs[i] \in Nat
      BY Numbers
    <2>2. NoCaio \in Caios(i) /\ NoCaio.cmpl_cnt = 0
      BY <2>1 DEF NoCaio, Caios
    <2>3. n \in 0 .. MaxSegs[i] /\ n >= 1
      BY <2>1
    <2> QED BY <2>2, <2>3 DEF Caios
  <1> HIDE DEF new
  <1>3. /\ pc'[i] = "seg" /\ caio'[i] = new /\ cur' = cur /\ req' = req
        /\ \A j \in Iocbs : j # i => pc'[j] = pc[j] /\ caio'[j] = caio[j]
        /\ pc' \in [Iocbs -> Points] /\ DOMAIN caio' = Iocbs
        /\ engine' = engine /\ wb' = wb /\ got' = got
    BY DEF AioStart, IInv, Types, Points, driver, poller, new
  <1>4. Types'
    BY <1>2, <1>3 DEF IInv, Types
  <1>5. \A s \in Segs : Ahead(s)' <=> Ahead(s)
    BY <1>1, <1>3, SegParts DEF Ahead
  <1>6. \A j \in Iocbs : Seg(j)' = Seg(j)
    BY <1>3 DEF Seg
  <1>7. Submitting'
    <2>1. \A s \in Segs : Ahead(s)' => req'[s] = NoReq
      BY <1>3, <1>5 DEF IInv, Submitting
    <2> QED BY <1>1, <1>2, <1>3, <1>6, <2>1 DEF IInv, Submitting, Busy
  <1>8. Listed'
    <2>1. ASSUME NEW k \in 1 .. Len(engine.list), NEW x, x = engine.list[k]
          PROVE  /\ ~Ahead(x[1])' /\ ~Unqueued(x)'
                 /\ \/ req'[x[1]].live /\ x[2] < req'[x[1]].tfer
                    \/ req'[x[1]] = NoReq
      <3>1. x \in Xfers /\ x[1] \in Segs /\ x[1][1] \in Iocbs
        BY <2>1, TypesOf, ElementOfSeq, XferParts, SegParts
      <3>2. /\ ~Ahead(x[1]) /\ ~Unqueued(x)
            /\ (req[x[1]].live /\ x[2] < req[x[1]].tfer) \/ req[x[1]] = NoReq
        BY <2>1 DEF IInv, Listed
      <3>3. ~Unqueued(x)'
        <4>1. pc'[x[1][1]] \in {"queue", "admit"} => pc[x[1][1]] = pc'[x[1][1]]
          BY <1>3, <3>1
        <4> QED BY <1>3, <1>6, <3>1, <3>2, <4>1 DEF Unqueued
      <3> QED BY <1>3, <1>5, <3>1, <3>2, <3>3
    <2>2. \A k, l \in 1 .. Len(engine.list) :
            k < l /\ engine.list[k][1] = engine.list[l][1] =>
                engine.list[k][2] < engine.list[l][2]
      BY DEF IInv, Listed
    <2> QED BY <1>3, <2>1, <2>2 DEF Listed
  <1>9. Awaited'
    <2>1. \A j \in Iocbs : Completed(j)' = Completed(j)
      BY <1>3 DEF Completed
    <2>2. \A j \in Iocbs : caio'[j].cmpl_cnt = Cardinality(Completed(j)')
      BY <1>1, <1>2, <1>3, <2>1 DEF IInv, Awaited
    <2> QED BY <1>2, <1>3, <2>2 DEF IInv, Awaited
  <1> QED BY <1>4, <1>7, <1>8, <1>9 DEF IInv

\* A submission that fails; the transfers of earlier segments stay listed.
LEMMA FailedStep ==
    ASSUME IInv, NEW i \in Iocbs, AlignFailed(i) \/ MapFailed(i)
    PROVE  IInv'
  <1> DEFINE r == req[Seg(i)]
  <1>1. /\ pc[i] = "seg" /\ pc' = [pc EXCEPT ![i] = "failed"] /\ cur' = cur /\ req' = req
        /\ engine' = engine /\ wb' = wb /\ got' = got
        /\ \/ caio' = caio
           \/ caio' = [caio EXCEPT ![i].live = FALSE]
    BY DEF AlignFailed, MapFailed, driver, poller, requests
  <1>2. SameCounts
    BY <1>1, CountsKept
  <1>3. r \in Reqs /\ (r.live => r.total > 0)
    BY SegFacts DEF IInv, Submitting
  <1>4. Advance(i, "failed", cur[i], r)
    BY <1>1, <1>3, Unmoved DEF Advance, Points, Busy
  <1>5. \A j \in Iocbs : caio'[j].live = caio[j].live \/ j = i
    BY <1>1 DEF IInv, Types
  <1>6. \A k \in 1 .. Len(engine.list) :
            engine.list[k][1] = Seg(i) => r = NoReq \/ (r.live /\ engine.list[k][2] < r.tfer)
    BY ListedStays
  <1>7. engine' \in Engines /\ engine'.list = engine.list
    BY <1>1, TypesOf
  <1> HIDE DEF r
  <1> QED BY <1>1, <1>2, <1>4, <1>5, <1>6, <1>7, AdvanceStep DEF Preparing

\* A segment without a request: the loop goes on.
LEMMA SubmitRefusedStep ==
    ASSUME IInv, NEW i \in Iocbs, SubmitRefused(i)
    PROVE  IInv'
  <1> DEFINE r == req[Seg(i)]
  <1>1. /\ pc[i] = "seg" /\ caio' = caio /\ req' = req /\ NextSegment(i)
        /\ engine' = engine /\ wb' = wb /\ got' = got
    BY DEF SubmitRefused, driver, poller, requests
  <1>2. SameCounts /\ caio[i].live
    BY <1>1, CountsKept DEF IInv, Awaited, Preparing
  <1>3. r \in Reqs /\ (r.live => r.total > 0)
    BY SegFacts DEF IInv, Submitting
  <1>4. PICK p \in {"seg", "wake"}, c \in Nat :
              /\ pc' = [pc EXCEPT ![i] = p] /\ cur' = [cur EXCEPT ![i] = c]
              /\ \/ c = cur[i] /\ p = "wake"
                 \/ c = cur[i] + 1 /\ c <= caio[i].req_cnt /\ p = "seg"
    BY <1>1, NextSegmentMoves
  <1>5. Advance(i, p, c, r)
    BY <1>1, <1>3, <1>4, Unmoved DEF Advance, Points, Busy
  <1>6. \A k \in 1 .. Len(engine.list) :
            engine.list[k][1] = Seg(i) => r = NoReq \/ (r.live /\ engine.list[k][2] < r.tfer)
    BY ListedStays
  <1>7. engine' \in Engines /\ engine'.list = engine.list
    BY <1>1, TypesOf
  <1> HIDE DEF r
  <1> QED BY <1>1, <1>2, <1>4, <1>5, <1>6, <1>7, AdvanceStep

\* A request for the present segment, which had none.
LEMMA SubmitStep ==
    ASSUME IInv, NEW i \in Iocbs, NEW n \in 1 .. MaxDescs, Submit(i, n)
    PROVE  IInv'
  <1> DEFINE r == [NoReq EXCEPT !.live = TRUE, !.total = n]
  <1>1. /\ pc[i] = "seg" /\ caio' = caio /\ cur' = cur
        /\ pc' = [pc EXCEPT ![i] = "build"] /\ req' = [req EXCEPT ![Seg(i)] = r]
        /\ engine' = engine /\ wb' = wb /\ got' = got
    BY DEF Submit, driver, poller
  <1>2. SameCounts /\ caio[i].live
    BY <1>1, CountsKept DEF IInv, Awaited, Preparing
  <1>3. r \in Reqs /\ r.live /\ r.total = n /\ r.next = 0 /\ n > 0
    <2>1. n \in 0 .. MaxDescs /\ 0 \in 0 .. MaxDescs /\ 0 \in 0 .. MaxTfer /\ n > 0
      BY Numbers
    <2>2. NoReq \in Reqs /\ NoReq.next = 0
      BY <2>1 DEF NoReq, Reqs
    <2> QED BY <2>1, <2>2 DEF Reqs
  <1> HIDE DEF r
  <1>4. Ahead(Seg(i)) /\ req[Seg(i)] = NoReq
    BY <1>1, SegFacts DEF Ahead, IInv, Submitting
  <1>5. Advance(i, "build", cur[i], r)
    BY <1>1, <1>3, <1>4, Unmoved DEF Advance, Points, Busy, NoReq
  <1>6. \A k \in 1 .. Len(engine.list) : engine.list[k][1] # Seg(i)
    BY <1>4 DEF IInv, Listed
  <1>7. engine' \in Engines /\ engine'.list = engine.list
    BY <1>1, TypesOf
  <1> QED BY <1>1, <1>2, <1>5, <1>6, <1>7, AdvanceStep

\* The next transfer of a request: its number is above those on the list.
LEMMA BuildStep ==
    ASSUME IInv, NEW i \in Iocbs, Build(i)
    PROVE  IInv'
  <1> DEFINE s == Seg(i)
             q == req[s]
             num == ChainLength(engine, q.total - q.next)
             r == [q EXCEPT !.next = @ + num, !.tfer = @ + 1]
  <1>1. /\ pc[i] = "build" /\ caio' = caio /\ cur' = cur /\ wb' = wb /\ got' = got
        /\ pc' = [pc EXCEPT ![i] = "queue"] /\ q.tfer < MaxTfer
        /\ engine' = transfer_init(engine, <<s, q.tfer>>, q.next, q.total)
        /\ req' = [req EXCEPT ![s].next = @ + num, ![s].tfer = @ + 1]
    BY DEF Build, poller
  <1>2. s \in Segs /\ req \in [Segs -> Reqs]
    BY SegFacts
  <1>3. q \in Reqs /\ q.live /\ q.total > 0 /\ q.next < q.total
    BY <1>1, <1>2 DEF IInv, Submitting, Busy
  <1>4. /\ q.total \in 0 .. MaxDescs /\ q.next \in Nat /\ q.next \in 0 .. MaxDescs
        /\ q.tfer \in {0, 1} /\ q.tfer \in Nat
        /\ MaxDescs \in Nat /\ q.total \in Nat
    BY <1>1, <1>3, Numbers DEF Reqs
  <1>5. req' = [req EXCEPT ![s] = r]
    BY <1>1, <1>2, <1>3 DEF Reqs
  <1>6. num \in 1 .. q.total - q.next
    <2>1. q.total - q.next \in Nat \ {0}
      BY <1>3, <1>4
    <2> QED BY <2>1, TypesOf, ChainLengthBounds
  <1>7. engine' \in Engines /\ engine'.list = engine.list
    <2>1. <<s, q.tfer>> \in Xfers
      BY <1>2, <1>4, XferOf
    <2> HIDE DEF s, q
    <2>2. Inits(engine', engine, <<s, q.tfer>>, q.next, num)
      BY <1>1, <1>3, <1>4, <2>1, TypesOf, InitFields
    <2> QED BY <2>2 DEF Inits
  <1> HIDE DEF num
  <1>8. /\ r \in Reqs /\ r.live /\ r.total = q.total /\ r.next = q.next + num
        /\ r.tfer = q.tfer + 1 /\ r.next <= r.total /\ r.tfer > 0
    <2>1. q.next + num \in 0 .. MaxDescs /\ q.next + num <= q.total
      BY <1>4, <1>6
    <2>2. q.tfer + 1 \in 0 .. MaxTfer /\ q.tfer + 1 > 0
      BY <1>4, Numbers
    <2> HIDE DEF q
    <2> QED BY <1>3, <2>1, <2>2 DEF Reqs
  <1>9. \A k \in 1 .. Len(engine.list) : engine.list[k][1] = s => engine.list[k][2] < q.tfer
    BY <1>3, ListedStays DEF NoReq
  <1>10. \A k \in 1 .. Len(engine.list) : engine.list[k][2] \in {0, 1}
    BY TypesOf, ElementOfSeq, XferParts
  <1> HIDE DEF r
  <1>11. Advance(i, "queue", cur[i], r)
    BY <1>1, <1>3, <1>5, <1>8, Unmoved DEF Advance, Points, Busy
  <1>12. SameCounts /\ caio[i].live
    BY <1>1, CountsKept DEF IInv, Awaited, Preparing
  <1>13. \A k \in 1 .. Len(engine.list) : engine.list[k][1] = s =>
            engine.list[k][2] < r.tfer /\ engine.list[k][2] # r.tfer - 1
    BY <1>4, <1>8, <1>9, <1>10
  <1> HIDE DEF q
  <1> QED BY <1>1, <1>7, <1>8, <1>11, <1>12, <1>13, AdvanceStep

\* A built transfer, about to be queued, stays off the list.
LEMMA CheckOnlineStep ==
    ASSUME IInv, NEW i \in Iocbs, CheckOnline(i)
    PROVE  IInv'
  <1> DEFINE r == req[Seg(i)]
  <1>1. /\ pc[i] = "queue" /\ pc' = [pc EXCEPT ![i] = "admit"] /\ cur' = cur /\ req' = req
        /\ caio' = caio /\ engine' = engine /\ wb' = wb /\ got' = got
    BY DEF CheckOnline, driver, poller, requests
  <1>2. SameCounts /\ caio[i].live
    BY <1>1, CountsKept DEF IInv, Awaited, Preparing
  <1>3. r \in Reqs /\ r.live /\ r.total > 0 /\ r.next <= r.total /\ r.tfer > 0
    BY <1>1, SegFacts DEF IInv, Submitting, Busy
  <1>4. Advance(i, "admit", cur[i], r)
    BY <1>1, <1>3, Unmoved DEF Advance, Points, Busy
  <1>5. \A k \in 1 .. Len(engine.list) :
            engine.list[k][1] = Seg(i) => /\ r = NoReq \/ (r.live /\ engine.list[k][2] < r.tfer)
                                          /\ engine.list[k][2] # r.tfer - 1
    <2>1. TAKE k \in 1 .. Len(engine.list)
    <2>2. HAVE engine.list[k][1] = Seg(i)
    <2>3. ~Unqueued(engine.list[k])
      BY DEF IInv, Listed
    <2> QED BY <1>1, <2>2, <2>3, ListedStays, SegFacts DEF Unqueued
  <1>6. engine' \in Engines /\ engine'.list = engine.list
    BY <1>1, TypesOf
  <1> HIDE DEF r
  <1> QED BY <1>1, <1>2, <1>4, <1>5, <1>6, AdvanceStep

\* The submission is over.
LEMMA WakeupStep ==
    ASSUME IInv, NEW i \in Iocbs, Wakeup(i)
    PROVE  IInv'
  <1> DEFINE r == req[Seg(i)]
  <1>1. /\ pc[i] = "wake" /\ pc' = [pc EXCEPT ![i] = "queued"] /\ cur' = cur /\ req' = req
        /\ caio' = caio /\ engine' = engine /\ wb' = wb /\ got' = got
    BY DEF Wakeup, driver, requests
  <1>2. SameCounts
    BY <1>1, CountsKept
  <1>3. r \in Reqs /\ (r.live => r.total > 0)
    BY SegFacts DEF IInv, Submitting
  <1>4. Advance(i, "queued", cur[i], r)
    BY <1>1, <1>3, Unmoved DEF Advance, Points, Busy
  <1>5. \A k \in 1 .. Len(engine.list) :
            engine.list[k][1] = Seg(i) => r = NoReq \/ (r.live /\ engine.list[k][2] < r.tfer)
    BY ListedStays
  <1>6. engine' \in Engines /\ engine'.list = engine.list
    BY <1>1, TypesOf
  <1> HIDE DEF r
  <1> QED BY <1>1, <1>2, <1>4, <1>5, <1>6, AdvanceStep DEF Preparing

\* A refused transfer frees its request: earlier transfers of it stay listed.
LEMMA QueueRefusedStep ==
    ASSUME IInv, NEW i \in Iocbs, QueueRefused(i)
    PROVE  IInv'
  <1>1. /\ pc[i] \in {"queue", "admit"} /\ caio' = caio /\ wb' = wb /\ got' = got
        /\ engine' = [engine EXCEPT !.xfer[Xfer(i)] = NoTransfer]
        /\ req' = [req EXCEPT ![Seg(i)] = NoReq] /\ NextSegment(i)
    BY DEF QueueRefused, poller
  <1>2. SameCounts /\ caio[i].live
    BY <1>1, CountsKept DEF IInv, Awaited, Preparing
  <1>3. req[Seg(i)].live
    BY <1>1 DEF IInv, Submitting, Busy
  <1>4. NoReq \in Reqs /\ ~NoReq.live /\ NoReq.total = 0
    BY Numbers DEF NoReq, Reqs
  <1>5. PICK p \in {"seg", "wake"}, c \in Nat :
              /\ pc' = [pc EXCEPT ![i] = p] /\ cur' = [cur EXCEPT ![i] = c]
              /\ \/ c = cur[i] /\ p = "wake"
                 \/ c = cur[i] + 1 /\ c <= caio[i].req_cnt /\ p = "seg"
    BY <1>1, NextSegmentMoves
  <1>6. Advance(i, p, c, NoReq)
    BY <1>1, <1>3, <1>4, <1>5 DEF Advance, Points, Busy
  <1>7. engine' \in Engines /\ engine'.list = engine.list
    <2>1. NoTransfer \in Transfers
      BY Numbers DEF NoTransfer, Transfers, TransferStates
    <2> DEFINE x == [engine.xfer EXCEPT ![Xfer(i)] = NoTransfer]
    <2>2. x \in [Xfers -> Transfers]
      BY <2>1, TypesOf DEF Engines
    <2>3. engine' = [engine EXCEPT !.xfer = x]
      BY <1>1
    <2> HIDE DEF x
    <2> QED BY <2>2, <2>3, TypesOf DEF Engines
  <1> QED BY <1>1, <1>2, <1>5, <1>6, <1>7, AdvanceStep

\* A transfer is queued behind the earlier one of its request.
LEMMA QueueStep ==
    ASSUME IInv, NEW i \in Iocbs, Queue(i)
    PROVE  IInv'
  <1> DEFINE s == Seg(i)
             r == req[s]
             old == engine.list
             new == engine'.list
             n == Len(old)
  <1>1. /\ pc[i] = "admit" /\ caio' = caio /\ req' = req /\ wb' = wb /\ got' = got
        /\ engine' = transfer_queue(engine, Xfer(i))
    BY DEF Queue, poller, requests
  <1>2. /\ s \in Segs /\ s[1] = i /\ r \in Reqs /\ r.live /\ r.total > 0 /\ r.next <= r.total
        /\ r.tfer > 0
    BY <1>1, SegFacts DEF IInv, Submitting, Busy
  <1>3. r.tfer \in Nat /\ r.tfer - 1 \in {0, 1} /\ r.next \in Nat /\ r.total \in Nat
    BY <1>2, Numbers DEF Reqs
  <1>4. PICK p \in {"build", "seg", "wake"}, c \in Nat :
              /\ pc' = [pc EXCEPT ![i] = p] /\ cur' = [cur EXCEPT ![i] = c]
              /\ \/ c = cur[i] /\ p \in {"build", "wake"}
                 \/ c = cur[i] + 1 /\ c <= caio[i].req_cnt /\ p = "seg"
              /\ p = "build" => r.next < r.total
    <2>1. CASE r.next < r.total
      <3>1. pc' = [pc EXCEPT ![i] = "build"] /\ cur' = cur
        BY <2>1 DEF Queue
      <3>2. cur[i] \in Nat /\ cur = [cur EXCEPT ![i] = cur[i]]
        BY SegFacts, Unmoved
      <3> HIDE DEF r
      <3> QED BY <2>1, <3>1, <3>2
    <2>2. CASE ~(r.next < r.total)
      <3>1. NextSegment(i)
        BY <2>2 DEF Queue
      <3> QED BY <3>1, NextSegmentMoves
    <2> QED BY <2>1, <2>2
  <1>5. Advance(i, p, c, r)
    BY <1>1, <1>2, <1>4, Unmoved DEF Advance, Points, Busy
  <1>6. SameCounts /\ caio[i].live
    BY <1>1, CountsKept DEF IInv, Awaited, Preparing
  <1>7. /\ engine' \in Engines /\ new = Append(old, Xfer(i)) /\ Xfer(i) = <<s, r.tfer - 1>>
        /\ Xfer(i) \in Xfers
    <2>1. Xfer(i) = <<s, r.tfer - 1>>
      BY DEF Xfer
    <2>2. Xfer(i) \in Xfers
      BY <1>2, <1>3, <2>1, XferOf
    <2> QED BY <1>1, <2>1, <2>2, TypesOf, QueueFields
  <1>8. /\ Len(new) = n + 1 /\ n \in Nat /\ new[n + 1] = <<s, r.tfer - 1>>
        /\ \A k \in 1 .. n : new[k] = old[k]
    BY <1>7, TypesOf, AppendProperties
  <1>9. /\ pc'[i] = p /\ cur'[i] = c
        /\ \A j \in Iocbs : j # i => pc'[j] = pc[j] /\ cur'[j] = cur[j]
        /\ \A t \in Segs : Ahead(t)' => Ahead(t) /\ t # s
    BY <1>1, <1>5, AdvanceMoves
  <1>10. Types' /\ Submitting' /\ \A j \in Iocbs : Completed(j)' = Completed(j)
    BY <1>1, <1>5, <1>6, <1>7, AdvanceKeeps
  <1>11. ASSUME NEW k \in 1 .. n, NEW x, x = old[k]
         PROVE  /\ x \in Xfers /\ x[1] \in Segs /\ x[1][1] \in Iocbs /\ x[2] \in {0, 1}
                /\ ~Ahead(x[1]) /\ ~Unqueued(x)
                /\ (req[x[1]].live /\ x[2] < req[x[1]].tfer) \/ req[x[1]] = NoReq
    <2>1. x \in Xfers /\ x[1] \in Segs /\ x[1][1] \in Iocbs /\ x[2] \in {0, 1}
      BY <1>11, TypesOf, ElementOfSeq, XferParts, SegParts
    <2> QED BY <1>11, <2>1 DEF IInv, Listed
  <1>12. ASSUME NEW k \in 1 .. n + 1, NEW x, x = new[k]
         PROVE  /\ ~Ahead(x[1])' /\ ~Unqueued(x)'
                /\ \/ req'[x[1]].live /\ x[2] < req'[x[1]].tfer
                   \/ req'[x[1]] = NoReq
    <2>1. CASE k = n + 1
      <3>1. x = <<s, r.tfer - 1>>
        BY <1>8, <1>12, <2>1
      <3>2. x[1] = s /\ x[2] = r.tfer - 1
        BY <3>1
      <3>3. ~Ahead(x[1])'
        BY <1>2, <1>9, <3>2
      <3>4. pc'[x[1][1]] = p /\ p \notin {"queue", "admit"}
        BY <1>2, <1>4, <1>9, <3>2
      <3>5. ~Unqueued(x)'
        BY <3>4 DEF Unqueued
      <3>6. req'[x[1]].live /\ x[2] < req'[x[1]].tfer
        BY <1>1, <1>2, <1>3, <3>2
      <3> QED BY <3>3, <3>5, <3>6
    <2>2. CASE k # n + 1
      <3>1. k \in 1 .. n /\ x = old[k]
        BY <1>8, <1>12, <2>2
      <3>2. /\ x[1] \in Segs /\ x[1][1] \in Iocbs /\ ~Ahead(x[1]) /\ ~Unqueued(x)
            /\ (req[x[1]].live /\ x[2] < req[x[1]].tfer) \/ req[x[1]] = NoReq
        BY <1>11, <3>1
      <3>3. ~Ahead(x[1])'
        BY <1>9, <3>2
      <3>4. ~Unqueued(x)'
        <4>1. CASE x[1][1] = i
          <5>1. pc'[x[1][1]] \notin {"queue", "admit"}
            BY <1>4, <1>9, <4>1
          <5> QED BY <5>1 DEF Unqueued
        <4>2. CASE x[1][1] # i
          BY <1>1, <1>9, <3>2, <4>2 DEF Unqueued, Seg
        <4> QED BY <4>1, <4>2
      <3> QED BY <1>1, <3>2, <3>3, <3>4
    <2> QED BY <2>1, <2>2
  <1>13. ASSUME NEW k \in 1 .. n + 1, NEW l \in 1 .. n + 1, k < l, new[k][1] = new[l][1]
         PROVE  new[k][2] < new[l][2]
    <2>1. k \in 1 .. n /\ new[k] = old[k]
      BY <1>8, <1>13
    <2>2. CASE l = n + 1
      <3>1. new[l][1] = s /\ new[l][2] = r.tfer - 1
        BY <1>8, <2>2
      <3>2. PICK x : x = old[k]
        OBVIOUS
      <3>3. x[1] = s
        BY <1>13, <2>1, <3>1, <3>2
      <3>4. /\ x[2] \in {0, 1} /\ ~Unqueued(x)
            /\ (req[x[1]].live /\ x[2] < req[x[1]].tfer) \/ req[x[1]] = NoReq
        BY <1>11, <2>1, <3>2
      <3>5. x[2] < r.tfer
        BY <1>2, <3>3, <3>4 DEF NoReq
      <3>6. x[2] # r.tfer - 1
        BY <1>1, <1>2, <3>3, <3>4 DEF Unqueued
      <3>7. x[2] < r.tfer - 1
        BY <1>3, <3>4, <3>5, <3>6
      <3> QED BY <2>1, <3>1, <3>2, <3>7
    <2>3. CASE l # n + 1
      <3>1. l \in 1 .. n /\ new[l] = old[l]
        BY <1>8, <2>3
      <3> QED BY <1>13, <2>1, <3>1 DEF IInv, Listed
    <2> QED BY <2>2, <2>3
  <1>14. Listed'
    BY <1>8, <1>12, <1>13 DEF Listed
  <1>15. ASSUME NEW j \in Iocbs
         PROVE  /\ caio'[j].cmpl_cnt = Cardinality(Completed(j)')
                /\ pc'[j] \in Preparing => caio'[j].live
                /\ pc'[j] # "failed" =>
                      \A k \in 1 .. Len(new) : new[k][1][1] = j => caio'[j].live
    <2>1. caio'[j].cmpl_cnt = Cardinality(Completed(j)')
      BY <1>1, <1>10 DEF IInv, Awaited
    <2>2. CASE j = i
      BY <1>1, <1>6, <2>1, <2>2
    <2>3. CASE j # i
      <3>1. pc'[j] = pc[j] /\ (pc[j] \in Preparing => caio[j].live)
        BY <1>9, <2>3 DEF IInv, Awaited
      <3>2. ASSUME pc[j] # "failed", NEW k \in 1 .. n + 1, new[k][1][1] = j PROVE caio[j].live
        <4>1. k # n + 1
          BY <1>2, <1>8, <2>3, <3>2
        <4>2. k \in 1 .. n /\ old[k][1][1] = j
          BY <1>8, <3>2, <4>1
        <4> QED BY <3>2, <4>2 DEF IInv, Awaited
      <3> QED BY <1>1, <1>8, <2>1, <3>1, <3>2
    <2> QED BY <2>2, <2>3
  <1>16. Awaited'
    BY <1>15 DEF Awaited
  <1> QED BY <1>10, <1>14, <1>16 DEF IInv

-----------------------------------------------------------------------------
(* Completion *)

\* Of a list of n transfers m stay: the first n - m are answered.
LEMMA Positions ==
    ASSUME NEW n \in Nat, NEW m \in Nat, m <= n
    PROVE  /\ n - m \in 0 .. n
           /\ \A k \in 1 .. n - m : k \in 1 .. n
           /\ \A k \in 1 .. m : n - m + k \in 1 .. n
           /\ \A k \in 1 .. n - m, l \in 1 .. m : k < n - m + l
           /\ \A k, l \in 1 .. m : k < l => n - m + k < n - m + l
  OBVIOUS

\* The segments that are done have their last transfer among the answered ones.
LEMMA DoneIs ==
    ASSUME IInv, NEW e \in Engines, Suffix(e.list, engine.list)
    PROVE  LET d == Len(engine.list) - Len(e.list)
           IN  /\ d \in 0 .. Len(engine.list)
               /\ Done(e) = {s \in Segs : \E k \in 1 .. d :
                                engine.list[k][1] = s /\ IsLast(engine.list[k])}
  <1> DEFINE n == Len(engine.list)
             d == n - Len(e.list)
             answered == SubSeq(engine.list, 1, d)
  <1>1. n \in Nat /\ Len(e.list) \in Nat /\ engine.list \in Seq(Xfers)
    BY TypesOf, LenProperties DEF Engines
  <1>2. d \in 0 .. n
    BY <1>1, Positions DEF Suffix
  <1>3. \A k \in 1 .. n : engine.list[k] \in Xfers
    BY <1>1, ElementOfSeq
  <1> HIDE DEF n, d
  <1>4. 1 \in Int /\ d \in Int /\ \A k \in 1 .. d : engine.list[k] \in Xfers
    BY <1>1, <1>2, <1>3
  <1>5. /\ Len(answered) = IF 1 <= d THEN d - 1 + 1 ELSE 0
        /\ \A k \in 1 .. d - 1 + 1 : answered[k] = engine.list[1 + k - 1]
    BY <1>4, SubSeqProperties
  <1> HIDE DEF answered
  <1>6. Len(answered) = d
    BY <1>1, <1>2, <1>5
  <1>7. \A k \in 1 .. d : answered[k] = engine.list[k]
    <2>1. \A k \in 1 .. d : k \in 1 .. d - 1 + 1 /\ 1 + k - 1 = k
      BY <1>4
    <2> QED BY <1>5, <2>1
  <1>8. Done(e) = {s \in Segs : \E k \in 1 .. Len(answered) :
                      answered[k][1] = s /\ IsLast(answered[k])}
    BY DEF Done, answered, d, n
  <1>9. ASSUME NEW s \in Segs
        PROVE  (\E k \in 1 .. Len(answered) : answered[k][1] = s /\ IsLast(answered[k]))
                  <=> (\E k \in 1 .. d : engine.list[k][1] = s /\ IsLast(engine.list[k]))
    BY <1>6, <1>7
  <1>10. Done(e) = {s \in Segs : \E k \in 1 .. d :
                                engine.list[k][1] = s /\ IsLast(engine.list[k])}
    BY <1>8, <1>9
  <1> QED BY <1>2, <1>10 DEF d, n

\* They are finitely many.
LEMMA DoneFinite ==
    ASSUME IInv, NEW e \in Engines, Suffix(e.list, engine.list)
    PROVE  IsFiniteSet(Done(e))
  <1> DEFINE d == Len(engine.list) - Len(e.list)
             f == [k \in 1 .. d |-> engine.list[k][1]]
             T == {f[k] : k \in 1 .. d}
  <1>1. /\ d \in 0 .. Len(engine.list) /\ Len(engine.list) \in Nat
        /\ Done(e) = {s \in Segs : \E k \in 1 .. d :
                                engine.list[k][1] = s /\ IsLast(engine.list[k])}
    BY DoneIs, TypesOf
  <1> HIDE DEF d
  <1>2. IsFiniteSet(1 .. d)
    <2>1. d \in Int /\ 1 \in Int
      BY <1>1
    <2> QED BY <2>1, FS_Interval
  <1>3. f \in Surjection(1 .. d, T)
    BY DEF Surjection
  <1>4. IsFiniteSet(T)
    <2> HIDE DEF f, T
    <2> QED BY <1>2, <1>3, FS_Surjection
  <1>5. Done(e) \in SUBSET T
    <2> SUFFICES ASSUME NEW s \in Done(e) PROVE s \in T
      OBVIOUS
    <2>1. PICK k \in 1 .. d : engine.list[k][1] = s
      BY <1>1
    <2>2. f[k] = s
      BY <2>1
    <2> QED BY <2>2
  <1> HIDE DEF T
  <1> QED BY <1>4, <1>5, FS_Subset

\* A segment that is done was waiting for this: its request is there and built,
\* and no transfer of it stays on the list.
LEMMA DoneFacts ==
    ASSUME IInv, NEW e \in Engines, Suffix(e.list, engine.list), NEW s \in Done(e)
    PROVE  /\ s \in Segs /\ ~Ahead(s) /\ req[s].live /\ req[s].total > 0
           /\ \A i \in Iocbs : s = Seg(i) => pc[i] \notin Busy
           /\ \A k \in 1 .. Len(e.list) : e.list[k][1] # s
  <1> DEFINE n == Len(engine.list)
             d == n - Len(e.list)
  <1>0. n \in Nat /\ Len(e.list) \in Nat /\ Len(e.list) <= n
    BY TypesOf, LenProperties DEF Engines, Suffix
  <1>1. /\ d \in 0 .. n /\ n \in Nat
        /\ Done(e) = {t \in Segs : \E k \in 1 .. d :
                                engine.list[k][1] = t /\ IsLast(engine.list[k])}
    BY DoneIs, TypesOf
  <1>2. PICK k \in 1 .. d : engine.list[k][1] = s /\ IsLast(engine.list[k])
    BY <1>1
  <1>3. s \in Segs
    BY <1>1
  <1>4. PICK x : x = engine.list[k]
    OBVIOUS
  <1>5. k \in 1 .. n /\ x \in Xfers /\ x[1] = s /\ x[2] \in {0, 1}
    <2>1. k \in 1 .. n
      BY <1>0, <1>2, Positions
    <2>2. x \in Xfers
      BY <1>4, <2>1, TypesOf, ElementOfSeq
    <2> QED BY <1>2, <1>4, <2>1, <2>2, XferParts
  <1>6. /\ ~Ahead(s) /\ ~Unqueued(x)
        /\ (req[s].live /\ x[2] < req[s].tfer) \/ req[s] = NoReq
    BY <1>4, <1>5 DEF IInv, Listed
  <1>7. req[s].next = req[s].total /\ x[2] = req[s].tfer - 1
    BY <1>2, <1>4, <1>5 DEF IsLast
  <1>8. req[s] \in Reqs /\ req[s].tfer \in Nat /\ req[s].next \in Nat
    BY <1>3, Numbers DEF IInv, Types, Reqs
  <1>9. req[s].live /\ x[2] < req[s].tfer
    <2>1. req[s] # NoReq
      BY <1>5, <1>7 DEF NoReq
    <2> QED BY <1>6, <2>1
  <1>10. req[s].total > 0
    BY <1>3, <1>9 DEF IInv, Submitting
  <1>11. ASSUME NEW i \in Iocbs, s = Seg(i), pc[i] \in Busy PROVE FALSE
    <2>1. CASE pc[i] = "build"
      BY <1>7, <1>8, <1>11, <2>1 DEF IInv, Submitting
    <2>2. CASE pc[i] \in {"queue", "admit"}
      BY <1>5, <1>6, <1>7, <1>11, <2>2, SegFacts DEF Unqueued
    <2> QED BY <1>11, <2>1, <2>2 DEF Busy
  <1>12. ASSUME NEW l \in 1 .. Len(e.list), e.list[l][1] = s PROVE FALSE
    <2> DEFINE m == d + l
    <2>2. e.list[l] = engine.list[m]
      BY DEF Suffix
    <2>3. m \in 1 .. n /\ k < m
      BY <1>0, Positions
    <2>4. PICK y : y = engine.list[m]
      OBVIOUS
    <2> HIDE DEF m, d
    <2>5. y \in Xfers /\ y[1] = s /\ y[2] \in {0, 1}
      BY <1>12, <2>2, <2>3, <2>4, TypesOf, ElementOfSeq, XferParts
    <2>6. x[2] < y[2]
      BY <1>4, <1>5, <2>3, <2>4, <2>5 DEF IInv, Listed
    <2>7. y[2] < req[s].tfer
      <3>1. (req[s].live /\ y[2] < req[s].tfer) \/ req[s] = NoReq
        BY <2>3, <2>4, <2>5 DEF IInv, Listed
      <3> QED BY <1>9, <3>1 DEF NoReq
    <2> QED BY <1>5, <1>7, <1>8, <2>5, <2>6, <2>7
  <1> QED BY <1>3, <1>6, <1>9, <1>10, <1>11, <1>12

\* Some transfers of finitely many segments have finitely many descriptors.
LEMMA DescsFinite ==
    ASSUME NEW e \in Engines, NEW S, IsFiniteSet(S),
           NEW X, X \subseteq Xfers, X \subseteq S \X {0, 1}
    PROVE  /\ IsFiniteSet(Descs(e, X)) /\ Cardinality(Descs(e, X)) \in Nat
           /\ Descs(e, X) \subseteq (S \X {0, 1}) \X (1 .. DescMax)
  <1>1. DescMax \in Nat /\ IsFiniteSet(0 .. 1) /\ IsFiniteSet(1 .. DescMax) /\ 0 .. 1 = {0, 1}
    <2>1. DescMax \in Nat /\ 0 .. 1 = {0, 1} /\ 0 \in Int /\ 1 \in Int /\ DescMax \in Int
      BY Numbers
    <2> QED BY <2>1, FS_Interval
  <1>2. IsFiniteSet((S \X {0, 1}) \X (1 .. DescMax))
    BY <1>1, FS_Product
  <1>3. Descs(e, X) \subseteq (S \X {0, 1}) \X (1 .. DescMax)
    <2> SUFFICES ASSUME NEW y \in Descs(e, X) PROVE y \in (S \X {0, 1}) \X (1 .. DescMax)
      OBVIOUS
    <2>1. PICK x \in X : y \in {x} \X (1 .. e.xfer[x].num)
      BY DEF Descs
    <2>2. e.xfer[x].num \in 0 .. DescMax
      BY DEF Engines, Transfers
    <2> QED BY <1>1, <2>1, <2>2
  <1> QED BY <1>2, <1>3, FS_Subset, FS_CardinalityType

\* A request has at most two transfers to look at.
LEMMA LookedIn ==
    ASSUME IInv, NEW e, NEW s \in Segs
    PROVE  Looked(e, s) \subseteq {0, 1}
  <1>1. req[s].tfer \in 0 .. 2
    BY Numbers DEF IInv, Types, Reqs
  <1> QED BY <1>1 DEF Looked

\* Destroying the transfers does not touch the list.
LEMMA CompletionFields ==
    ASSUME IInv, NEW e \in Engines, Suffix(e.list, engine.list)
    PROVE  xdma_xfer_completion(e) \in Engines /\ xdma_xfer_completion(e).list = e.list
  <1> DEFINE gone == UNION {{s} \X Looked(e, s) : s \in Done(e)}
             Of(x) == e.xfer[x].first .. e.xfer[x].first + e.xfer[x].num - 1
             used == e.used - Cardinality(Descs(e, gone))
             ring == [i \in Slots |-> IF \E x \in gone : i \in Of(x)
                                      THEN NoDescriptor ELSE e.ring[i]]
             xfer == [x \in Xfers |-> IF x[1] \in Done(e) THEN NoTransfer ELSE e.xfer[x]]
             f == [e EXCEPT !.used = used, !.ring = ring, !.xfer = xfer]
  <1>1. xdma_xfer_completion(e) = f
    BY DEF xdma_xfer_completion
  <1>2. gone \subseteq Xfers /\ gone \subseteq Done(e) \X {0, 1}
    <2> SUFFICES ASSUME NEW x \in gone PROVE x \in Xfers /\ x \in Done(e) \X {0, 1}
      OBVIOUS
    <2>1. PICK s \in Done(e) : x \in {s} \X Looked(e, s)
      OBVIOUS
    <2>2. s \in Segs
      BY DEF Done
    <2> QED BY <2>1, <2>2, LookedIn DEF Xfers
  <1> HIDE DEF gone
  <1>3. used \in Int
    <2>1. Cardinality(Descs(e, gone)) \in Nat
      BY <1>2, DoneFinite, DescsFinite
    <2> QED BY <2>1 DEF Engines
  <1>4. ring \in [Slots -> Descriptors]
    BY DEF Engines, Descriptors
  <1>5. xfer \in [Xfers -> Transfers]
    <2>1. NoTransfer \in Transfers
      BY Numbers DEF NoTransfer, Transfers, TransferStates
    <2> QED BY <2>1 DEF Engines
  <1> HIDE DEF used, ring, xfer
  <1>6. f \in Engines /\ f.list = e.list
    BY <1>3, <1>4, <1>5 DEF Engines
  <1> QED BY <1>1, <1>6

\* What is reported of some of the segments that are done is a number.
LEMMA ResultNatural ==
    ASSUME IInv, NEW e \in Engines, Suffix(e.list, engine.list), NEW T, T \subseteq Done(e)
    PROVE  Cardinality(UNION {Transferred(e, s) : s \in T}) \in Nat
  <1> DEFINE All == Done(e) \X {0, 1}
             U == UNION {Transferred(e, s) : s \in T}
  <1>1. ASSUME NEW s \in T PROVE Transferred(e, s) \subseteq All \X (1 .. DescMax)
    <2> DEFINE X == {x \in {s} \X Looked(e, s) : e.xfer[x].state = "COMPLETED"}
    <2>1. s \in Done(e) /\ s \in Segs
      BY DEF Done
    <2>2. X \subseteq Xfers /\ X \subseteq All
      BY <2>1, LookedIn DEF Xfers
    <2>3. Transferred(e, s) = Descs(e, X)
      BY DEF Transferred
    <2> HIDE DEF X
    <2> QED BY <2>2, <2>3, DoneFinite, DescsFinite
  <1>2. U \subseteq All \X (1 .. DescMax)
    <2> HIDE DEF All
    <2> QED BY <1>1
  <1>3. IsFiniteSet(All \X (1 .. DescMax))
    <2>1. DescMax \in Nat /\ 0 .. 1 = {0, 1} /\ 0 \in Int /\ 1 \in Int /\ DescMax \in Int
      BY Numbers
    <2>2. IsFiniteSet({0, 1}) /\ IsFiniteSet(1 .. DescMax)
      BY <2>1, FS_Interval
    <2> QED BY <2>2, DoneFinite, FS_Product
  <1>4. IsFiniteSet(U)
    <2> HIDE DEF U, All
    <2> QED BY <1>2, <1>3, FS_Subset
  <1> QED BY <1>4, FS_CardinalityType

\* Of n segments one is missing in C.
LEMMA OneMissing ==
    ASSUME NEW i, NEW n \in Nat, NEW C, C \subseteq {i} \X (1 .. n),
           NEW s \in {i} \X (1 .. n), s \notin C
    PROVE  IsFiniteSet(C) /\ Cardinality(C) \in Nat /\ Cardinality(C) < n
  <1> DEFINE A == {i} \X (1 .. n)
  <1>1. IsFiniteSet(1 .. n) /\ Cardinality(1 .. n) = n
    <2>1. 1 \in Int /\ n \in Int
      OBVIOUS
    <2>2. Cardinality(1 .. n) = IF 1 > n THEN 0 ELSE n - 1 + 1
      BY <2>1, FS_Interval
    <2>3. (IF 1 > n THEN 0 ELSE n - 1 + 1) = n
      OBVIOUS
    <2> QED BY <2>1, <2>2, <2>3, FS_Interval
  <1>2. IsFiniteSet({i}) /\ Cardinality({i}) = 1
    BY FS_Singleton
  <1>3. IsFiniteSet(A) /\ Cardinality(A) = n
    <2>1. IsFiniteSet(A) /\ Cardinality(A) = Cardinality({i}) * Cardinality(1 .. n)
      BY <1>1, <1>2, FS_Product
    <2>2. 1 * n = n
      OBVIOUS
    <2> QED BY <1>1, <1>2, <2>1, <2>2
  <1>4. /\ IsFiniteSet(C) /\ Cardinality(C) <= Cardinality(A)
        /\ (Cardinality(A) = Cardinality(C) => A = C)
    BY <1>3, FS_Subset
  <1>5. A # C
    OBVIOUS
  <1>6. Cardinality(C) \in Nat
    BY <1>4, FS_CardinalityType
  <1> HIDE DEF A
  <1> QED BY <1>3, <1>4, <1>5, <1>6

\* A segment of i that the submitter has come to is one of the iocb.
LEMMA Reached ==
    ASSUME IInv, NEW s \in Segs, ~Ahead(s)
    PROVE  /\ s \in {s[1]} \X (1 .. caio[s[1]].req_cnt)
           /\ caio[s[1]].req_cnt \in Nat
  <1>1. s[1] \in Iocbs /\ s[2] \in Nat /\ s[2] >= 1 /\ s = <<s[1], s[2]>>
    BY SegParts, Numbers
  <1>2. /\ cur[s[1]] \in Nat /\ caio[s[1]].req_cnt \in Nat
        /\ pc[s[1]] # "out" => cur[s[1]] <= caio[s[1]].req_cnt
        /\ pc[s[1]] = "out" => cur[s[1]] = 1
    BY <1>1, SegFacts DEF IInv, Submitting, Caios
  <1>3. s[2] <= cur[s[1]] /\ pc[s[1]] # "out"
    BY <1>1, <1>2 DEF Ahead
  <1>4. s[2] \in 1 .. caio[s[1]].req_cnt
    BY <1>1, <1>2, <1>3
  <1> QED BY <1>1, <1>2, <1>4

\* Completing the segments that are done: each is counted once, and a caio is
\* freed only when all segments of its iocb were.
LEMMA CompleteStep ==
    ASSUME IInv, NEW e \in Engines, Suffix(e.list, engine.list), Complete(e),
           UNCHANGED submit, wb' \in WriteBacks, got' \in WriteBacks
    PROVE  IInv'
  <1> DEFINE Of(i) == {s \in Done(e) : s[1] = i}
             cmpl(i) == caio[i].cmpl_cnt + Cardinality(Of(i))
             told(i) == Of(i) # {} /\ cmpl(i) = caio[i].req_cnt
             res(i) == caio[i].res + Cardinality(UNION {Transferred(e, s) : s \in Of(i)})
  <1>1. pc' = pc /\ cur' = cur /\ engine' \in Engines /\ engine'.list = e.list
    BY CompletionFields DEF submit, Complete
  <1>2. \A s \in Done(e) : /\ s \in Segs /\ ~Ahead(s) /\ req[s].live /\ req[s].total > 0
                           /\ \A i \in Iocbs : s = Seg(i) => pc[i] \notin Busy
                           /\ \A k \in 1 .. Len(e.list) : e.list[k][1] # s
    BY DoneFacts
  <1>3. /\ req' \in [Segs -> Reqs]
        /\ \A s \in Segs : s \notin Done(e) => req'[s] = req[s]
        /\ \A s \in Done(e) : ~req'[s].live /\ req'[s].total = req[s].total
    <2>1. req' = [s \in Segs |-> IF s \in Done(e) THEN [req[s] EXCEPT !.live = FALSE] ELSE req[s]]
      BY DEF Complete
    <2>2. req \in [Segs -> Reqs]
      BY DEF IInv, Types
    <2>3. \A s \in Segs : /\ [req[s] EXCEPT !.live = FALSE] \in Reqs
                          /\ ~[req[s] EXCEPT !.live = FALSE].live
                          /\ [req[s] EXCEPT !.live = FALSE].total = req[s].total
      BY <2>2 DEF Reqs
    <2> QED BY <1>2, <2>1, <2>2, <2>3
  <1>4. ASSUME NEW i \in Iocbs
        PROVE  /\ Of(i) \subseteq Done(e) /\ IsFiniteSet(Of(i)) /\ Cardinality(Of(i)) \in Nat
               /\ cmpl(i) \in Nat /\ res(i) \in Nat
    <2>1. Of(i) \in SUBSET Done(e)
      OBVIOUS
    <2> HIDE DEF Of
    <2>2. IsFiniteSet(Of(i)) /\ Cardinality(Of(i)) \in Nat
      BY <2>1, DoneFinite, FS_Subset, FS_CardinalityType
    <2>3. Cardinality(UNION {Transferred(e, s) : s \in Of(i)}) \in Nat
      BY <2>1, ResultNatural
    <2>4. caio[i].cmpl_cnt \in Nat /\ caio[i].res \in Nat
      BY SegFacts DEF Caios
    <2> QED BY <2>1, <2>2, <2>3, <2>4
  <1>5. /\ DOMAIN caio' = Iocbs
        /\ \A i \in Iocbs : caio'[i] = [caio[i] EXCEPT !.cmpl_cnt = cmpl(i), !.res = res(i),
                                           !.told = @ \/ told(i), !.live = @ /\ ~told(i)]
    BY DEF Complete, async_io_handler
  <1> HIDE DEF cmpl, res, told
  <1>6. ASSUME NEW i \in Iocbs
        PROVE  /\ caio'[i] \in Caios(i) /\ caio'[i].req_cnt = caio[i].req_cnt
               /\ caio'[i].cmpl_cnt = cmpl(i)
               /\ caio'[i].live = (caio[i].live /\ ~told(i))
    <2>1. caio[i] \in Caios(i) /\ cmpl(i) \in Nat /\ res(i) \in Nat /\ told(i) \in BOOLEAN
      BY <1>4, SegFacts DEF told
    <2>2. (caio[i].told \/ told(i)) \in BOOLEAN /\ (caio[i].live /\ ~told(i)) \in BOOLEAN
      OBVIOUS
    <2> QED BY <1>5, <2>1, <2>2 DEF Caios
  <1>7. Types'
    BY <1>1, <1>3, <1>5, <1>6 DEF IInv, Types, WriteBacks
  <1>8. \A s \in Segs : Ahead(s)' <=> Ahead(s)
    BY <1>1 DEF Ahead
  <1>9. Submitting'
    <2>1. \A s \in Segs : Ahead(s)' => req'[s] = NoReq
      BY <1>2, <1>3, <1>8 DEF IInv, Submitting
    <2>2. \A s \in Segs : req'[s].live => req'[s].total > 0
      BY <1>3 DEF IInv, Submitting
    <2>3. ASSUME NEW i \in Iocbs
          PROVE  /\ pc'[i] # "out" => cur'[i] <= caio'[i].req_cnt
                 /\ pc'[i] = "out" => caio'[i] = NoCaio /\ cur'[i] = 1
                 /\ pc'[i] \in Busy => /\ req'[Seg(i)'].live
                                       /\ req'[Seg(i)'].next <= req'[Seg(i)'].total
                 /\ pc'[i] = "build" => req'[Seg(i)'].next < req'[Seg(i)'].total
                 /\ pc'[i] \in {"queue", "admit"} => req'[Seg(i)'].tfer > 0
      <3>1. Seg(i)' = Seg(i)
        BY <1>1 DEF Seg
      <3>2. pc[i] \in Busy => req'[Seg(i)] = req[Seg(i)]
        BY <1>2, <1>3, SegFacts
      <3>3. ASSUME pc[i] = "out" PROVE caio'[i] = NoCaio
        <4>1. Of(i) = {}
          <5>1. \A s \in Segs : s[1] = i => Ahead(s)
            BY <3>3, SegParts, Numbers DEF Ahead, IInv, Submitting
          <5> QED BY <1>2, <5>1
        <4>2. caio[i] = NoCaio
          BY <3>3 DEF IInv, Submitting
        <4>3. told(i) = FALSE /\ cmpl(i) = 0 /\ res(i) = 0
          <5> HIDE DEF Of
          <5>1. {Transferred(e, s) : s \in Of(i)} = {} /\ UNION {} = {}
            BY <4>1
          <5>2. Cardinality(UNION {Transferred(e, s) : s \in Of(i)}) = 0 /\ Cardinality(Of(i)) = 0
            BY <4>1, <5>1, FS_EmptySet
          <5>3. caio[i].cmpl_cnt = 0 /\ caio[i].res = 0
            BY <4>2 DEF NoCaio
          <5> QED BY <4>1, <5>2, <5>3 DEF told, cmpl, res
        <4>4. PICK c : c = caio[i]
          OBVIOUS
        <4>5. c \in Caios(i) /\ c.cmpl_cnt = 0 /\ c.res = 0
          BY <4>2, <4>4, SegFacts DEF NoCaio
        <4>6. (c.told \/ FALSE) = c.told /\ (c.live /\ ~FALSE) = c.live
          BY <4>5 DEF Caios
        <4>7. caio'[i] = [c EXCEPT !.cmpl_cnt = c.cmpl_cnt, !.res = c.res,
                                   !.told = c.told, !.live = c.live]
          <5>1. caio'[i] = [c EXCEPT !.cmpl_cnt = cmpl(i), !.res = res(i),
                                     !.told = c.told \/ told(i), !.live = c.live /\ ~told(i)]
            BY <1>5, <4>4
          <5>2. cmpl(i) = c.cmpl_cnt /\ res(i) = c.res
            BY <4>3, <4>5
          <5>3. (c.told \/ told(i)) = c.told /\ (c.live /\ ~told(i)) = c.live
            BY <4>3, <4>6
          <5> QED BY <5>1, <5>2, <5>3, Zenon
        <4>8. caio'[i] = c
          BY <4>5, <4>7 DEF Caios
        <4> QED BY <4>2, <4>4, <4>8
      <3>4. caio'[i].req_cnt = caio[i].req_cnt
        BY <1>6
      <3> QED BY <1>1, <3>1, <3>2, <3>3, <3>4 DEF IInv, Submitting, Busy
    <2> QED BY <2>1, <2>2, <2>3 DEF Submitting
  <1>10. ASSUME NEW k \in 1 .. Len(e.list)
         PROVE  \E l \in 1 .. Len(engine.list) : e.list[k] = engine.list[l]
    <2>1. Len(engine.list) \in Nat /\ Len(e.list) \in Nat /\ Len(e.list) <= Len(engine.list)
      BY TypesOf, LenProperties DEF Engines, Suffix
    <2> QED BY <2>1, Positions DEF Suffix
  <1>11. Listed'
    <2>1. ASSUME NEW k \in 1 .. Len(e.list), NEW x, x = e.list[k]
          PROVE  /\ ~Ahead(x[1])' /\ ~Unqueued(x)'
                 /\ \/ req'[x[1]].live /\ x[2] < req'[x[1]].tfer
                    \/ req'[x[1]] = NoReq
      <3>1. PICK l \in 1 .. Len(engine.list) : x = engine.list[l]
        BY <1>10, <2>1
      <3>2. x[1] \in Segs /\ x[1][1] \in Iocbs
        BY <3>1, TypesOf, ElementOfSeq, XferParts, SegParts
      <3>3. req'[x[1]] = req[x[1]]
        BY <1>2, <1>3, <2>1, <3>2
      <3>4. /\ ~Ahead(x[1]) /\ ~Unqueued(x)
            /\ (req[x[1]].live /\ x[2] < req[x[1]].tfer) \/ req[x[1]] = NoReq
        BY <3>1 DEF IInv, Listed
      <3>5. ~Unqueued(x)'
        BY <1>1, <3>3, <3>4 DEF Unqueued, Seg
      <3> QED BY <1>8, <3>2, <3>3, <3>4, <3>5
    <2>2. ASSUME NEW k \in 1 .. Len(e.list), NEW l \in 1 .. Len(e.list),
                 k < l, e.list[k][1] = e.list[l][1]
          PROVE  e.list[k][2] < e.list[l][2]
      <3> DEFINE d == Len(engine.list) - Len(e.list)
      <3>1. /\ Len(engine.list) \in Nat /\ Len(e.list) \in Nat
            /\ Len(e.list) <= Len(engine.list)
        BY TypesOf, LenProperties DEF Engines, Suffix
      <3>2. d + k \in 1 .. Len(engine.list) /\ d + l \in 1 .. Len(engine.list)
        BY <3>1, Positions
      <3>3. d + k < d + l
        BY <2>2, <3>1, Positions
      <3>4. e.list[k] = engine.list[d + k] /\ e.list[l] = engine.list[d + l]
        BY DEF Suffix
      <3> HIDE DEF d
      <3> QED BY <2>2, <3>2, <3>3, <3>4 DEF IInv, Listed
    <2> QED BY <1>1, <2>1, <2>2 DEF Listed
  <1>12. ASSUME NEW i \in Iocbs
         PROVE  /\ Completed(i)' = Completed(i) \cup Of(i)
                /\ Completed(i) \cap Of(i) = {}
                /\ Completed(i)' \subseteq {i} \X (1 .. caio[i].req_cnt)
    <2>1. Completed(i)' = {s \in Segs : s[1] = i /\ ~req'[s].live /\ req'[s].total > 0}
      BY DEF Completed
    <2>2. Completed(i)' = Completed(i) \cup Of(i)
      BY <1>2, <1>3, <2>1 DEF Completed
    <2>3. Completed(i) \cap Of(i) = {}
      BY <1>2 DEF Completed
    <2>4. \A s \in Completed(i) : s \in Segs /\ s[1] = i /\ ~Ahead(s)
      BY DEF Completed, IInv, Submitting, NoReq
    <2>5. \A s \in Of(i) : s \in Segs /\ s[1] = i /\ ~Ahead(s)
      BY <1>2
    <2> QED BY <2>2, <2>3, <2>4, <2>5, Reached
  <1> HIDE DEF Of
  <1>13. ASSUME NEW i \in Iocbs PROVE cmpl(i) = Cardinality(Completed(i)')
    <2>1. caio[i].cmpl_cnt = Cardinality(Completed(i))
      BY DEF IInv, Awaited
    <2>2. IsFiniteSet(Completed(i)) /\ Cardinality(Completed(i)) \in Nat
      <3>1. caio[i].req_cnt \in Int /\ 1 \in Int
        BY SegFacts DEF Caios
      <3>2. IsFiniteSet(1 .. caio[i].req_cnt) /\ IsFiniteSet({i})
        <4>1. IsFiniteSet(1 .. caio[i].req_cnt)
          BY <3>1, FS_Interval
        <4> QED BY <4>1, FS_Singleton
      <3>3. IsFiniteSet({i} \X (1 .. caio[i].req_cnt))
        BY <3>2, FS_Product
      <3>4. Completed(i) \in SUBSET ({i} \X (1 .. caio[i].req_cnt))
        BY <1>12
      <3> QED BY <3>3, <3>4, FS_Subset, FS_CardinalityType
    <2>3. Cardinality(Completed(i) \cup Of(i)) =
            Cardinality(Completed(i)) + Cardinality(Of(i)) - Cardinality(Completed(i) \cap Of(i))
      BY <1>4, <2>2, FS_Union
    <2>4. Cardinality(Completed(i) \cap Of(i)) = 0
      BY <1>12, FS_EmptySet
    <2>5. Cardinality(Completed(i)') = Cardinality(Completed(i)) + Cardinality(Of(i))
      <3>1. Cardinality(Completed(i)') = Cardinality(Completed(i) \cup Of(i))
        BY <1>12
      <3>2. Cardinality(Of(i)) \in Nat
        BY <1>4
      <3> QED BY <2>2, <2>3, <2>4, <3>1, <3>2
    <2> QED BY <2>1, <2>5 DEF cmpl
  <1>14. ASSUME NEW i \in Iocbs, NEW s \in Segs, s[1] = i, ~Ahead(s), s \notin Completed(i)'
         PROVE  ~told(i)
    <2>1. s \in {i} \X (1 .. caio[i].req_cnt) /\ caio[i].req_cnt \in Nat
      BY <1>14, Reached
    <2>2. PICK C : C = Completed(i)'
      OBVIOUS
    <2>3. Cardinality(C) \in Nat /\ Cardinality(C) < caio[i].req_cnt
      BY <1>12, <1>14, <2>1, <2>2, OneMissing
    <2>4. cmpl(i) < caio[i].req_cnt /\ cmpl(i) \in Nat
      BY <1>13, <2>2, <2>3
    <2> QED BY <2>1, <2>4 DEF told
  <1>15. Awaited'
    <2> SUFFICES ASSUME NEW i \in Iocbs
                 PROVE  /\ caio'[i].cmpl_cnt = Cardinality(Completed(i)')
                        /\ pc'[i] \in Preparing => caio'[i].live
                        /\ pc'[i] # "failed" =>
                              \A k \in 1 .. Len(engine'.list) :
                                  engine'.list[k][1][1] = i => caio'[i].live
      BY DEF Awaited
    <2>1. caio'[i].cmpl_cnt = Cardinality(Completed(i)')
      BY <1>6, <1>13
    <2>2. Completed(i)' = {s \in Segs : s[1] = i /\ ~req'[s].live /\ req'[s].total > 0}
      BY DEF Completed
    <2>3. ASSUME pc[i] \in Preparing PROVE caio'[i].live
      <3>1. caio[i].live
        BY <2>3 DEF IInv, Awaited
      <3>2. /\ Seg(i) \in Segs /\ Seg(i)[1] = i /\ Seg(i)[2] = cur[i] /\ cur[i] \in Nat
            /\ pc[i] # "out" /\ cur[i] <= caio[i].req_cnt
        BY <2>3, SegFacts DEF IInv, Submitting, Preparing
      <3>3. Seg(i) \notin Completed(i)'
        <4>1. CASE pc[i] = "seg"
          <5>1. Ahead(Seg(i))
            BY <3>2, <4>1 DEF Ahead
          <5>2. req'[Seg(i)] = NoReq
            BY <1>2, <1>3, <3>2, <5>1 DEF IInv, Submitting
          <5> QED BY <2>2, <5>2 DEF NoReq
        <4>2. CASE pc[i] \in Busy
          <5>1. Seg(i) \notin Done(e)
            BY <1>2, <4>2
          <5>2. req'[Seg(i)].live
            BY <1>3, <3>2, <4>2, <5>1 DEF IInv, Submitting
          <5> QED BY <2>2, <5>2
        <4> QED BY <2>3, <4>1, <4>2 DEF Preparing, Busy
      <3>4. ~told(i)
        <4>1. PICK s : s = Seg(i)
          OBVIOUS
        <4>2. s \in {i} \X (1 .. caio[i].req_cnt) /\ caio[i].req_cnt \in Nat
          <5>1. cur[i] \in 1 .. caio[i].req_cnt /\ caio[i].req_cnt \in Nat
            BY <3>2, SegFacts DEF Caios
          <5> QED BY <4>1, <5>1 DEF Seg
        <4>3. PICK C : C = Completed(i)'
          OBVIOUS
        <4>4. Cardinality(C) \in Nat /\ Cardinality(C) < caio[i].req_cnt
          BY <1>12, <3>3, <4>1, <4>2, <4>3, OneMissing
        <4>5. cmpl(i) < caio[i].req_cnt /\ cmpl(i) \in Nat
          BY <1>13, <4>3, <4>4
        <4> QED BY <4>2, <4>5 DEF told
      <3> QED BY <1>6, <3>1, <3>4
    <2>4. ASSUME pc[i] # "failed", NEW k \in 1 .. Len(e.list), e.list[k][1][1] = i
          PROVE  caio'[i].live
      <3>1. PICK x : x = e.list[k]
        OBVIOUS
      <3>2. PICK l \in 1 .. Len(engine.list) : x = engine.list[l]
        BY <1>10, <3>1
      <3>3. x[1] \in Segs /\ x[1][1] = i
        BY <2>4, <3>1, <3>2, TypesOf, ElementOfSeq, XferParts
      <3>4. /\ ~Ahead(x[1])
            /\ (req[x[1]].live /\ x[2] < req[x[1]].tfer) \/ req[x[1]] = NoReq
        BY <3>2 DEF IInv, Listed
      <3>5. req'[x[1]] = req[x[1]]
        BY <1>2, <1>3, <3>1, <3>3
      <3>6. x[1] \notin Completed(i)'
        BY <2>2, <3>4, <3>5 DEF NoReq
      <3>7. ~told(i)
        BY <1>14, <3>3, <3>4, <3>6
      <3>8. caio[i].live
        BY <2>4, <3>2, <3>3 DEF IInv, Awaited
      <3> QED BY <1>6, <3>7, <3>8
    <2> QED BY <1>1, <2>1, <2>3, <2>4
  <1> QED BY <1>7, <1>9, <1>11, <1>15 DEF IInv

\* The bottom half of the interrupt.
LEMMA ServiceTransfersStep == IInv /\ ServiceTransfers => IInv'
  <1> SUFFICES ASSUME IInv, ServiceTransfers PROVE IInv'
    OBVIOUS
  <1> DEFINE e == answer_transfers(engine, engine.count)
             f == [e EXCEPT !.irq = TRUE]
  <1>1. e \in Engines /\ Suffix(e.list, engine.list)
    BY TypesOf, AnsweredFields
  <1>2. Complete(f)
    BY DEF ServiceTransfers, service_transfers
  <1> HIDE DEF e
  <1>3. f \in Engines /\ f.list = e.list
    BY <1>1, StatusFields DEF Kept
  <1>4. UNCHANGED submit /\ wb' = wb /\ got' = got
    BY DEF ServiceTransfers, poller
  <1> HIDE DEF f
  <1> QED BY <1>1, <1>2, <1>3, <1>4, TypesOf, CompleteStep

\* The polling thread, with the count of the write-back or of the hardware.
LEMMA PollAnswerStep == IInv /\ PollAnswer => IInv'
  <1> SUFFICES ASSUME IInv, PollAnswer PROVE IInv'
    OBVIOUS
  <1> DEFINE count == IF got.count # 0 THEN got.count ELSE engine.count
             e == answer_transfers(engine, count)
  <1>1. count \in Nat
    BY TypesOf DEF WriteBacks
  <1>2. Complete(e)
    BY DEF PollAnswer
  <1> HIDE DEF count
  <1>3. e \in Engines /\ Suffix(e.list, engine.list)
    BY <1>1, TypesOf, AnsweredFields
  <1>4. UNCHANGED submit /\ wb' = wb /\ got' = NoWb
    BY DEF PollAnswer, PollReturn
  <1> HIDE DEF e
  <1> QED BY <1>2, <1>3, <1>4, TypesOf, CompleteStep

-----------------------------------------------------------------------------
(* The theorem *)

\* The invariant holds initially,
LEMMA InvInit == Init => IInv
  <1> SUFFICES ASSUME Init PROVE IInv
    OBVIOUS
  <1>1. engine \in Engines /\ engine.list = <<>>
    <2>1. EngineInit \in Engines /\ EngineInit.list = <<>>
      <3>1. NoTransfer \in Transfers
        BY Numbers DEF NoTransfer, Transfers, TransferStates
      <3>2. [i \in Slots |-> NoDescriptor] \in [Slots -> Descriptors]
            /\ [x \in Xfers |-> NoTransfer] \in [Xfers -> Transfers] /\ <<>> \in Seq(Xfers)
        BY <3>1 DEF Descriptors
      <3> QED BY <3>2, Numbers DEF EngineInit, Engines
    <2>2. DescMax - 1 \in Slots
      BY Numbers DEF Slots
    <2>3. engine = [EngineInit EXCEPT !.idx = DescMax - 1]
      BY DEF Init
    <2> QED BY <2>1, <2>2, <2>3 DEF Engines
  <1>2. /\ pc = [i \in Iocbs |-> "out"] /\ cur = [i \in Iocbs |-> 1]
        /\ caio = [i \in Iocbs |-> NoCaio] /\ req = [s \in Segs |-> NoReq]
        /\ wb = NoWb /\ got = NoWb
    BY DEF Init
  <1>3. NoReq \in Reqs /\ ~NoReq.live /\ NoReq.total = 0 /\ NoCaio.cmpl_cnt = 0
    BY Numbers DEF NoReq, Reqs, NoCaio
  <1>4. \A i \in Iocbs : NoCaio \in Caios(i) /\ 1 \in 1 .. MaxSegs[i]
    BY Numbers DEF NoCaio, Caios
  <1>5. Types
    BY <1>1, <1>2, <1>3, <1>4 DEF Types, Points, NoWb
  <1>6. Submitting
    BY <1>2, <1>3 DEF Submitting, Busy
  <1>7. Len(engine.list) = 0
    BY <1>1
  <1>8. Listed
    BY <1>7 DEF Listed
  <1>9. Awaited
    <2>1. \A i \in Iocbs : Completed(i) = {}
      BY <1>2, <1>3 DEF Completed
    <2>2. \A i \in Iocbs : caio[i].cmpl_cnt = Cardinality(Completed(i))
      BY <1>2, <1>3, <2>1, FS_EmptySet
    <2> QED BY <1>2, <1>7, <2>2 DEF Awaited, Preparing
  <1> QED BY <1>5, <1>6, <1>8, <1>9 DEF IInv

\* and every step keeps it.
LEMMA InvNext == IInv /\ [Next]_vars => IInv'
  <1> SUFFICES ASSUME IInv, [Next]_vars PROVE IInv'
    OBVIOUS
  <1>1. ASSUME NEW i \in Iocbs, NEW n \in 1 .. MaxSegs[i], AioStart(i, n) PROVE IInv'
    BY <1>1, AioStartStep
  <1>2. ASSUME NEW i \in Iocbs, Proceed(i) PROVE IInv'
    BY <1>2, FailedStep, SubmitRefusedStep, SubmitStep, BuildStep, CheckOnlineStep, QueueStep,
       QueueRefusedStep, WakeupStep DEF Proceed
  <1>3. CASE ServiceTransfers \/ PollAnswer
    BY <1>3, ServiceTransfersStep, PollAnswerStep
  <1>4. CASE \/ xdma_isr \/ ServiceStatus \/ PollStatus \/ PollTimeout
             \/ PollCheck \/ PollWake \/ PollProc \/ PollRead \/ PollClear
             \/ OfflineFlag \/ OfflineStop \/ Online \/ Hardware \/ UNCHANGED vars
    BY <1>4, OthersQuiet, QuietStep
  <1> QED BY <1>1, <1>2, <1>3, <1>4 DEF Next, Interrupts, Poll

\* So it always holds.
LEMMA InvHolds == Spec => []IInv
  BY InvInit, InvNext, PTL DEF Spec

\* A request on the list of the engine has not been freed unless a later
\* transfer of it was refused, nor its caio unless the submission failed: with
\* any number of submitters, whichever of them the bottom half or the polling
\* thread comes between, xdma_xfer_completion and async_io_handler free no
\* request and no caio that a listed transfer still needs.
THEOREM ListedAlwaysLive == Spec => []ListedIsLive
  <1>1. IInv => ListedIsLive
    <2> SUFFICES ASSUME IInv, NEW k \in 1 .. Len(engine.list), NEW s, s = engine.list[k][1]
                 PROVE  /\ req[s].live \/ Refused(s)
                        /\ caio[s[1]].live \/ pc[s[1]] = "failed"
      BY DEF ListedIsLive
    <2>1. s \in Segs /\ s[1] \in Iocbs
      BY TypesOf, ElementOfSeq, XferParts, SegParts
    <2>2. req[s].live \/ req[s] = NoReq
      BY DEF IInv, Listed
    <2>3. req[s].live \/ Refused(s)
      BY <2>2 DEF Refused, NoReq
    <2>4. caio[s[1]].live \/ pc[s[1]] = "failed"
      BY <2>1 DEF IInv, Awaited
    <2> QED BY <2>3, <2>4
  <1> QED BY <1>1, InvHolds, PTL

-----------------------------------------------------------------------------
(* The ring.  Back(x) is how far behind desc_idx the chain of x begins, so *)
(* that the chains of the transfers the driver holds lie one behind the    *)
(* other in 1 .. desc_used.                                                *)

On(x) == \E k \in 1 .. Len(engine.list) : engine.list[k] = x

\* The transfers whose chains are in use: listed, or of a request that is not
\* completed.
Held == {x \in Xfers : On(x) \/ (req[x[1]].live /\ x[2] < req[x[1]].tfer)}

First(x) == engine.xfer[x].first
Num(x) == engine.xfer[x].num
Chain(x) == First(x) .. First(x) + Num(x) - 1
Back(x) == IF First(x) < engine.idx THEN engine.idx - First(x)
           ELSE engine.idx + DescMax - First(x)

\* The chain of x was built before that of y.
Older(x, y) == Back(x) - Num(x) >= Back(y)

\* The request of s is between xdma_init_request and its last transfer_queue.
Building(s) == s = Seg(s[1]) /\ pc[s[1]] \in Busy

Placed ==
    /\ engine.used >= 0
    /\ \A x \in Held : /\ Num(x) > 0 /\ First(x) + Num(x) <= DescMax
                       /\ Num(x) <= Back(x) /\ Back(x) <= engine.used

\* Chains do not overlap.  The transfers of the list, and those of a request,
\* were built in their order, those of a request without others between them,
\* and those of a request that is still being built last of all.
Apart     == \A x, y \in Held : x = y \/ Older(x, y) \/ Older(y, x)
ListOrder == \A k, l \in 1 .. Len(engine.list) : k < l => Older(engine.list[k], engine.list[l])
OwnOrder  == \A x, y \in Held : x[1] = y[1] /\ x[2] < y[2] => Older(x, y)
Unbroken  == \A x, y, z \in Held : x[1] = z[1] /\ y[1] # x[1] => ~(Older(x, y) /\ Older(y, z))
NewestLast == \A x, y \in Held : Building(x[1]) /\ y[1] # x[1] => Older(y, x)

\* The software descriptor that the chain of x begins with.
Start(x) == IF x[2] = 0 THEN 0 ELSE Num(<<x[1], 0>>)

\* What was built of a request is what its transfers have.
Parts ==
    \A s \in Segs :
        req[s].live =>
            /\ req[s].next <= req[s].total
            /\ req[s].tfer = 0 => req[s].next = 0
            /\ req[s].tfer = 1 => req[s].next = Num(<<s, 0>>)
            /\ req[s].tfer = 2 => req[s].next = Num(<<s, 0>>) + Num(<<s, 1>>)

\* Of a request that was refused only the first transfer is left on the list.
Orphans == \A x \in Xfers : On(x) => req[x[1]].live \/ x[2] = 0

PartsInv == Parts /\ Orphans

\* The chains of listed and of built transfers are as transfer_init left them.
Chained(x) ==
    \A i \in Chain(x) :
        /\ engine.ring[i].magic /\ engine.ring[i].req = x
        /\ engine.ring[i].last = (i = First(x) + Num(x) - 1)
        /\ engine.ring[i].index = Start(x) + (i - First(x))
Chains == \A x \in Held : On(x) \/ Unqueued(x) => Chained(x)

\* A request that is built and not completed waits for its last transfer.
Ends ==
    \A s \in Segs :
        req[s].live /\ ~Building(s) =>
            On(<<s, req[s].tfer - 1>>) /\ req[s].next = req[s].total

Ring == Placed /\ Apart /\ ListOrder /\ OwnOrder /\ Unbroken /\ NewestLast /\ Chains

RingInv == Ends /\ (Orderly => Ring)

\* Two chains, of which the one is older, share no slot.
LEMMA SlotsApart ==
    ASSUME NEW D \in Nat \ {0}, NEW idx \in 0 .. D - 1,
           NEW f \in 0 .. D - 1, NEW n \in Nat, f + n <= D,
           NEW g \in 0 .. D - 1, NEW m \in Nat, g + m <= D,
           NEW a, a = IF f < idx THEN idx - f ELSE idx + D - f, n <= a,
           NEW b, b = IF g < idx THEN idx - g ELSE idx + D - g, m <= b,
           a - n >= b
    PROVE  \A i \in f .. f + n - 1 : i \notin g .. g + m - 1
  OBVIOUS

\* Where a chain is.
LEMMA Place ==
    ASSUME IInv, NEW x \in Xfers
    PROVE  /\ engine.idx \in 0 .. DescMax - 1 /\ DescMax \in Nat \ {0} /\ engine.used \in Int
           /\ First(x) \in 0 .. DescMax - 1 /\ Num(x) \in Nat /\ Back(x) \in Int
           /\ engine.xfer[x] \in Transfers
  <1>1. engine.idx \in 0 .. DescMax - 1 /\ DescMax \in Nat \ {0} /\ engine.used \in Int
    BY TypesOf, Numbers DEF Engines, Slots
  <1>2. engine.xfer[x] \in Transfers
    BY TypesOf DEF Engines
  <1>3. First(x) \in 0 .. DescMax - 1 /\ Num(x) \in Nat
    BY <1>1, <1>2 DEF First, Num, Transfers, Slots
  <1> QED BY <1>1, <1>2, <1>3 DEF Back

\* So do two chains in the ring.
LEMMA ChainsApart ==
    ASSUME IInv, Placed, NEW x \in Held, NEW y \in Held, Older(x, y) \/ Older(y, x)
    PROVE  \A i \in Chain(x) : i \notin Chain(y)
  <1>0. x \in Xfers /\ y \in Xfers
    BY DEF Held
  <1>1. /\ engine.idx \in 0 .. DescMax - 1 /\ DescMax \in Nat \ {0}
        /\ First(x) \in 0 .. DescMax - 1 /\ Num(x) \in Nat
        /\ First(y) \in 0 .. DescMax - 1 /\ Num(y) \in Nat
    BY <1>0, Place
  <1>2. /\ First(x) + Num(x) <= DescMax /\ Num(x) <= Back(x)
        /\ First(y) + Num(y) <= DescMax /\ Num(y) <= Back(y)
    BY DEF Placed
  <1>3. CASE Older(x, y)
    BY <1>1, <1>2, <1>3, SlotsApart DEF Back, Chain, Older
  <1>4. CASE Older(y, x)
    <2>1. \A i \in Chain(y) : i \notin Chain(x)
      BY <1>1, <1>2, <1>4, SlotsApart DEF Back, Chain, Older
    <2> QED BY <2>1
  <1> QED BY <1>3, <1>4

\* Older is an order.
LEMMA OlderOrder ==
    ASSUME IInv, Placed, NEW x \in Held, NEW y \in Held
    PROVE  /\ Older(x, y) => ~Older(y, x) /\ x # y
           /\ \A z \in Held : Older(x, y) /\ Older(y, z) => Older(x, z)
  <1>1. \A z \in Held : z \in Xfers
    BY DEF Held
  <1>2. \A z \in Held : Back(z) \in Int /\ Num(z) \in Nat /\ Num(z) > 0
    BY <1>1, Place DEF Placed
  <1> QED BY <1>2 DEF Older

\* A transfer on the list is held.
LEMMA ListHeld ==
    ASSUME IInv, NEW k \in 1 .. Len(engine.list)
    PROVE  engine.list[k] \in Held /\ On(engine.list[k])
  <1>1. engine.list[k] \in Xfers
    BY TypesOf, ElementOfSeq
  <1> QED BY <1>1 DEF Held, On

\* A held transfer of a live request is one of those built.
LEMMA HeldBuilt ==
    ASSUME IInv, NEW x \in Held, req[x[1]].live
    PROVE  x[2] < req[x[1]].tfer
  <1>1. CASE On(x)
    <2>1. PICK k \in 1 .. Len(engine.list) : engine.list[k] = x
      BY <1>1 DEF On
    <2>2. (req[x[1]].live /\ x[2] < req[x[1]].tfer) \/ req[x[1]] = NoReq
      BY <2>1 DEF IInv, Listed
    <2> QED BY <2>2 DEF NoReq
  <1>2. CASE ~On(x)
    BY <1>2 DEF Held
  <1> QED BY <1>1, <1>2

\* With the second transfer of a request its first one is held.
LEMMA HeldFirst ==
    ASSUME IInv, PartsInv, NEW x \in Held, x[2] # 0
    PROVE  <<x[1], 0>> \in Held /\ req[x[1]].live
  <1>1. x \in Xfers /\ x[1] \in Segs /\ x[2] = 1
    BY XferParts DEF Held
  <1>2. req[x[1]].live
    BY <1>1 DEF Held, PartsInv, Orphans
  <1>3. x[2] < req[x[1]].tfer /\ req[x[1]].tfer \in 0 .. 2
    BY <1>1, <1>2, HeldBuilt, Numbers DEF IInv, Types, Reqs
  <1>4. 0 < req[x[1]].tfer
    BY <1>1, <1>3
  <1>5. <<x[1], 0>> \in Xfers /\ <<x[1], 0>>[1] = x[1] /\ <<x[1], 0>>[2] = 0
    BY <1>1, XferOf
  <1> QED BY <1>2, <1>4, <1>5 DEF Held

\* So it begins where it did when both stay.
LEMMA StartKept ==
    ASSUME IInv, PartsInv, IInv', PartsInv', NEW x, x \in Held, x \in Held',
           \A y \in Held' : y \in Held => Num(y)' = Num(y)
    PROVE  Start(x)' = Start(x)
  <1>1. CASE x[2] = 0
    BY <1>1 DEF Start
  <1>2. CASE x[2] # 0
    <2>1. x \in Xfers /\ x[1] \in Segs /\ x[2] = 1
      BY <1>2, XferParts DEF Held
    <2>2. PICK y : y = <<x[1], 0>>
      OBVIOUS
    <2>3. y \in Held
      BY <1>2, <2>2, HeldFirst
    <2>4. req'[x[1]].live /\ x[2] < req'[x[1]].tfer
      <3>1. req'[x[1]].live
        BY <2>1 DEF Held, PartsInv, Orphans
      <3>2. CASE On(x)'
        <4>1. PICK k \in 1 .. Len(engine'.list) : engine'.list[k] = x
          BY <3>2 DEF On
        <4>2. (req'[x[1]].live /\ x[2] < req'[x[1]].tfer) \/ req'[x[1]] = NoReq
          BY <4>1 DEF IInv, Listed
        <4> QED BY <3>1, <4>2 DEF NoReq
      <3>3. CASE ~On(x)'
        BY <3>3 DEF Held
      <3> QED BY <3>1, <3>2, <3>3
    <2>5. y \in Held'
      <3>1. req'[x[1]].tfer \in 0 .. 2
        BY <2>1, Numbers DEF IInv, Types, Reqs
      <3>2. 0 < req'[x[1]].tfer
        BY <2>1, <2>4, <3>1
      <3>3. y \in Xfers /\ y[1] = x[1] /\ y[2] = 0
        BY <2>1, <2>2, XferOf
      <3> QED BY <2>4, <3>2, <3>3 DEF Held
    <2>6. Num(y)' = Num(y)
      BY <2>3, <2>5
    <2> QED BY <1>2, <2>2, <2>6 DEF Start
  <1> QED BY <1>1, <1>2

\* A step that leaves desc_idx alone and takes up nothing keeps the order, when
\* what it releases was behind all that stays.
LEMMA RingKept ==
    ASSUME IInv, IInv', PartsInv, PartsInv', Ring,
           engine'.idx = engine.idx, Held' \subseteq Held, engine'.used >= 0,
           \A x \in Held' :
               /\ First(x)' = First(x) /\ Num(x)' = Num(x) /\ Back(x) <= engine'.used
               /\ Building(x[1])' => Building(x[1])
               /\ On(x)' \/ Unqueued(x)' => On(x) \/ Unqueued(x)
               /\ \A i \in Chain(x) : engine'.ring[i] = engine.ring[i],
           \A k, l \in 1 .. Len(engine'.list) :
               k < l => \E x, y \in Held' :
                            x = engine'.list[k] /\ y = engine'.list[l] /\ Older(x, y)
    PROVE  Ring'
  <1>1. \A x \in Held' : x \in Held
    OBVIOUS
  <1>2. \A x \in Held' : /\ First(x)' = First(x) /\ Num(x)' = Num(x) /\ Back(x)' = Back(x)
                         /\ Chain(x)' = Chain(x)
    BY DEF Back, Chain
  <1>3. \A x, y \in Held' : Older(x, y)' <=> Older(x, y)
    BY <1>2 DEF Older
  <1>4. Placed'
    BY <1>1, <1>2 DEF Ring, Placed
  <1>5. Apart'
    BY <1>1, <1>3 DEF Ring, Apart
  <1>6. ListOrder'
    <2> SUFFICES ASSUME NEW k \in 1 .. Len(engine'.list), NEW l \in 1 .. Len(engine'.list), k < l
                 PROVE  Older(engine.list[k], engine.list[l])'
      BY DEF ListOrder
    <2>1. PICK x, y \in Held' : x = engine'.list[k] /\ y = engine'.list[l] /\ Older(x, y)
      OBVIOUS
    <2>2. Older(x, y)'
      BY <1>3, <2>1
    <2> QED BY <2>1, <2>2 DEF Older, Back, First, Num
  <1>7. OwnOrder'
    BY <1>1, <1>3 DEF Ring, OwnOrder
  <1>8. Unbroken'
    BY <1>1, <1>3 DEF Ring, Unbroken
  <1>9. NewestLast'
    BY <1>1, <1>3 DEF Ring, NewestLast
  <1>10. Chains'
    <2> SUFFICES ASSUME NEW x \in Held', On(x)' \/ Unqueued(x)' PROVE Chained(x)'
      BY DEF Chains
    <2>1. Chained(x)
      BY <1>1 DEF Ring, Chains
    <2>2. Start(x)' = Start(x)
      BY <1>1, <1>2, StartKept
    <2> QED BY <1>2, <2>1, <2>2 DEF Chained
  <1> QED BY <1>4, <1>5, <1>6, <1>7, <1>8, <1>9, <1>10 DEF Ring

\* The histories only grow: what is orderly was orderly.
LEMMA SeenGrows ==
    ASSUME [Next]_vars
    PROVE  seen \subseteq seen' /\ (Orderly' => Orderly)
  <1>1. seen \subseteq seen'
    <2>1. ASSUME NEW i \in Iocbs, NEW n \in 1 .. MaxSegs[i], AioStart(i, n) PROVE seen' = seen
      BY <2>1 DEF AioStart
    <2>2. ASSUME NEW i \in Iocbs, Proceed(i) PROVE seen \subseteq seen'
      BY <2>2 DEF Proceed, AlignFailed, MapFailed, SubmitRefused, Submit, Build, CheckOnline,
                  Queue, QueueRefused, Wakeup
    <2>3. CASE Interrupts
      BY <2>3 DEF Interrupts, xdma_isr, ServiceStatus, ServiceTransfers
    <2>4. CASE Poll \/ PollTimeout
      BY <2>4 DEF Poll, PollTimeout, PollCheck, PollWake, PollProc, PollRead, PollClear,
                  PollStatus, PollAnswer
    <2>5. CASE OfflineFlag \/ OfflineStop \/ Online \/ Hardware
      BY <2>5 DEF OfflineFlag, OfflineStop, Online, Hardware, Move, BusError
    <2>6. CASE UNCHANGED vars
      BY <2>6 DEF vars
    <2> QED BY <2>1, <2>2, <2>3, <2>4, <2>5, <2>6 DEF Next
  <1> QED BY <1>1 DEF Orderly

\* A step that leaves the list and the chains of the held transfers alone.
LEMMA RingSame ==
    ASSUME IInv, IInv', PartsInv, PartsInv', RingInv, Orderly' => Orderly,
           engine'.list = engine.list, engine'.idx = engine.idx,
           engine'.used = engine.used, engine'.ring = engine.ring,
           Held' \subseteq Held,
           \A x \in Held' : /\ First(x)' = First(x) /\ Num(x)' = Num(x)
                            /\ Building(x[1])' => Building(x[1])
                            /\ Unqueued(x)' => Unqueued(x),
           \A s \in Segs : req'[s].live /\ ~Building(s)' =>
                               req[s].live /\ ~Building(s) /\ req'[s] = req[s]
    PROVE  RingInv'
  <1>1. \A x : On(x)' <=> On(x)
    BY DEF On
  <1>2. Ends'
    <2> SUFFICES ASSUME NEW s \in Segs, req'[s].live, ~Building(s)'
                 PROVE  On(<<s, req[s].tfer - 1>>)' /\ req'[s].next = req'[s].total
      BY DEF Ends
    <2>1. req[s].live /\ ~Building(s) /\ req'[s] = req[s]
      OBVIOUS
    <2>2. On(<<s, req[s].tfer - 1>>) /\ req[s].next = req[s].total
      BY <2>1 DEF RingInv, Ends
    <2> QED BY <2>1, <2>2 DEF On
  <1>3. ASSUME Orderly' PROVE Ring'
    <2>1. Ring
      BY <1>3 DEF RingInv
    <2>2. engine'.used >= 0 /\ \A x \in Held' : Back(x) <= engine'.used
      BY <2>1 DEF Ring, Placed
    <2>3. ASSUME NEW k \in 1 .. Len(engine'.list), NEW l \in 1 .. Len(engine'.list), k < l
          PROVE  \E x, y \in Held' :
                     x = engine'.list[k] /\ y = engine'.list[l] /\ Older(x, y)
      <3>1. PICK x, y : x = engine.list[k] /\ y = engine.list[l]
        OBVIOUS
      <3>2. Older(x, y)
        BY <2>1, <2>3, <3>1 DEF Ring, ListOrder
      <3>3. x \in Xfers /\ y \in Xfers /\ On(x) /\ On(y)
        BY <3>1, TypesOf, ElementOfSeq DEF On
      <3>4. x \in Held' /\ y \in Held'
        BY <1>1, <3>3 DEF Held
      <3> QED BY <3>1, <3>2, <3>4
    <2> QED BY <1>1, <2>1, <2>2, <2>3, RingKept
  <1> QED BY <1>2, <1>3 DEF RingInv

\* The engine, the hardware, the thread and resets.
LEMMA QuietRing ==
    ASSUME IInv, IInv', PartsInv, PartsInv', RingInv, Orderly' => Orderly, Quiet
    PROVE  RingInv'
  <1>1. /\ pc' = pc /\ cur' = cur /\ req' = req
        /\ engine'.list = engine.list /\ engine'.idx = engine.idx
        /\ engine'.used = engine.used /\ engine'.ring = engine.ring
        /\ \A x \in Xfers : First(x)' = First(x) /\ Num(x)' = Num(x)
    BY DEF Quiet, Kept, SameChains, submit, requests, First, Num
  <1>2. Held' = Held /\ Held \subseteq Xfers
    BY <1>1 DEF Held, On
  <1>3. \A s : Building(s)' <=> Building(s)
    BY <1>1 DEF Building, Seg
  <1>4. \A x : Unqueued(x)' <=> Unqueued(x)
    BY <1>1 DEF Unqueued, Seg
  <1> QED BY <1>1, <1>2, <1>3, <1>4, RingSame

\* A submitter goes on to point p at segment c: what this says of requests
\* that are being built.
LEMMA MoveBuilding ==
    ASSUME IInv, NEW i \in Iocbs, NEW p, NEW c,
           pc' = [pc EXCEPT ![i] = p], cur' = [cur EXCEPT ![i] = c], p \in Busy => c = cur[i],
           \A s \in Segs : s # Seg(i) => req'[s] = req[s]
    PROVE  /\ \A s \in Segs : s # Seg(i) => (Building(s)' <=> Building(s))
           /\ \A s \in Segs : s = Seg(i) =>
                 (Building(s)' <=> p \in Busy) /\ (Building(s) <=> pc[i] \in Busy)
           /\ \A x \in Xfers : x[1] # Seg(i) => (Unqueued(x)' => Unqueued(x))
           /\ \A x \in Xfers : x[1] = Seg(i) =>
                 (Unqueued(x)' <=> p \in {"queue", "admit"} /\ x[2] = req'[x[1]].tfer - 1)
  <1>1. /\ pc'[i] = p /\ cur'[i] = c
        /\ \A j \in Iocbs : j # i => pc'[j] = pc[j] /\ cur'[j] = cur[j]
    BY SegFacts
  <1>2. p \in {"queue", "admit"} => p \in Busy
    BY DEF Busy
  <1>3. Seg(i) = <<i, cur[i]>> /\ Seg(i)' = <<i, c>> /\ Seg(i)[1] = i
    BY <1>1 DEF Seg
  <1>4. \A j \in Iocbs : j # i => Seg(j)' = Seg(j)
    BY <1>1 DEF Seg
  <1>5. \A s \in Segs : s[1] \in Iocbs
    BY SegParts
  <1>6. \A s \in Segs : s[1] # i => (Building(s)' <=> Building(s))
    BY <1>1, <1>4, <1>5 DEF Building
  <1>7. \A s \in Segs : s[1] = i =>
            /\ Building(s)' <=> s = Seg(i) /\ p \in Busy
            /\ Building(s) <=> s = Seg(i) /\ pc[i] \in Busy
    BY <1>1, <1>3 DEF Building
  <1>8. ASSUME NEW x \in Xfers
        PROVE  /\ x[1] # Seg(i) => (Unqueued(x)' => Unqueued(x))
               /\ x[1] = Seg(i) =>
                     (Unqueued(x)' <=> p \in {"queue", "admit"} /\ x[2] = req'[x[1]].tfer - 1)
    <2>1. x[1] \in Segs /\ x[1][1] \in Iocbs
      BY XferParts, SegParts
    <2>2. Unqueued(x)' <=> /\ x[1] = Seg(x[1][1])' /\ pc'[x[1][1]] \in {"queue", "admit"}
                           /\ x[2] = req'[x[1]].tfer - 1
      BY DEF Unqueued, Seg
    <2>3. CASE x[1] = Seg(i)
      BY <1>1, <1>2, <1>3, <2>2, <2>3
    <2>4. CASE x[1] # Seg(i) /\ x[1][1] = i
      BY <1>1, <1>2, <1>3, <2>2, <2>4
    <2>5. CASE x[1][1] # i
      BY <1>1, <1>3, <1>4, <2>1, <2>2, <2>5 DEF Unqueued
    <2> QED BY <2>3, <2>4, <2>5
  <1>9. Seg(i) \in Segs
    BY SegFacts
  <1> QED BY <1>3, <1>6, <1>7, <1>8, <1>9

\* A submitter that goes on without building, queueing or freeing anything.
LEMMA SubmitterRing ==
    ASSUME IInv, IInv', PartsInv, PartsInv', RingInv, Orderly' => Orderly,
           NEW i \in Iocbs, NEW p, NEW c,
           pc' = [pc EXCEPT ![i] = p], cur' = [cur EXCEPT ![i] = c],
           p \in Busy => c = cur[i], p \in Busy <=> pc[i] \in Busy,
           p \in {"queue", "admit"} => pc[i] \in {"queue", "admit"},
           engine' = engine, req' = req
    PROVE  RingInv'
  <1>1. \A s \in Segs : Building(s)' <=> Building(s)
    BY MoveBuilding
  <1>2. \A x \in Xfers : Unqueued(x)' => Unqueued(x)
    <2>1. TAKE x \in Xfers
    <2>2. CASE x[1] = Seg(i)
      BY <2>2, MoveBuilding, SegFacts DEF Unqueued
    <2>3. CASE x[1] # Seg(i)
      BY <2>3, MoveBuilding
    <2> QED BY <2>2, <2>3
  <1>3. Held' = Held /\ \A x \in Held : x \in Xfers /\ x[1] \in Segs
    BY XferParts DEF Held, On
  <1>4. \A x \in Held : First(x)' = First(x) /\ Num(x)' = Num(x)
    BY DEF First, Num
  <1> QED BY <1>1, <1>2, <1>3, <1>4, RingSame

\* An iocb is submitted, fails, is refused, or its submission goes on or ends.
LEMMA IdleRing ==
    ASSUME IInv, IInv', PartsInv, PartsInv', RingInv, Orderly' => Orderly, NEW i \in Iocbs,
           \/ \E n \in 1 .. MaxSegs[i] : AioStart(i, n)
           \/ AlignFailed(i) \/ MapFailed(i) \/ SubmitRefused(i)
           \/ CheckOnline(i) \/ Wakeup(i)
    PROVE  RingInv'
  <1>1. engine' = engine /\ req' = req
    BY DEF AioStart, AlignFailed, MapFailed, SubmitRefused, CheckOnline, Wakeup, driver, requests
  <1> DEFINE Moves(p, c) == /\ pc' = [pc EXCEPT ![i] = p] /\ cur' = [cur EXCEPT ![i] = c]
                            /\ p \in Busy => c = cur[i]
                            /\ p \in Busy <=> pc[i] \in Busy
                            /\ p \in {"queue", "admit"} => pc[i] \in {"queue", "admit"}
  <1>2. \E p, c : Moves(p, c)
    <2>1. cur = [cur EXCEPT ![i] = cur[i]]
      BY Unmoved
    <2>2. CASE \E n \in 1 .. MaxSegs[i] : AioStart(i, n)
      <3>1. pc[i] = "out" /\ pc' = [pc EXCEPT ![i] = "seg"] /\ cur' = [cur EXCEPT ![i] = cur[i]]
        BY <2>1, <2>2 DEF AioStart
      <3>2. "seg" \notin Busy /\ pc[i] \notin Busy
        BY <3>1 DEF Busy
      <3>3. Moves("seg", cur[i])
        BY <3>1, <3>2
      <3> HIDE DEF Moves
      <3> QED BY <3>3
    <2>3. CASE AlignFailed(i) \/ MapFailed(i)
      <3>1. pc[i] = "seg" /\ pc' = [pc EXCEPT ![i] = "failed"] /\ cur' = [cur EXCEPT ![i] = cur[i]]
        BY <2>1, <2>3 DEF AlignFailed, MapFailed
      <3>2. Moves("failed", cur[i])
        BY <3>1 DEF Busy
      <3> HIDE DEF Moves
      <3> QED BY <3>2
    <2>4. CASE SubmitRefused(i)
      <3>1. pc[i] = "seg" /\ NextSegment(i)
        BY <2>4 DEF SubmitRefused
      <3>2. PICK p \in {"seg", "wake"}, c \in Nat :
                pc' = [pc EXCEPT ![i] = p] /\ cur' = [cur EXCEPT ![i] = c]
        BY <3>1, NextSegmentMoves
      <3>3. Moves(p, c)
        BY <3>1, <3>2 DEF Busy
      <3> HIDE DEF Moves
      <3> QED BY <3>3
    <2>5. CASE CheckOnline(i)
      <3>1. pc[i] = "queue" /\ pc' = [pc EXCEPT ![i] = "admit"] /\ cur' = [cur EXCEPT ![i] = cur[i]]
        BY <2>1, <2>5 DEF CheckOnline
      <3>2. Moves("admit", cur[i])
        BY <3>1 DEF Busy
      <3> HIDE DEF Moves
      <3> QED BY <3>2
    <2>6. CASE Wakeup(i)
      <3>1. pc[i] = "wake" /\ pc' = [pc EXCEPT ![i] = "queued"] /\ cur' = [cur EXCEPT ![i] = cur[i]]
        BY <2>1, <2>6 DEF Wakeup
      <3>2. "queued" \notin Busy /\ pc[i] \notin Busy
        BY <3>1 DEF Busy
      <3>3. Moves("queued", cur[i])
        BY <3>1, <3>2
      <3> HIDE DEF Moves
      <3> QED BY <3>3
    <2> QED BY <2>2, <2>3, <2>4, <2>5, <2>6
  <1>3. PICK p, c : Moves(p, c)
    BY <1>2
  <1> QED BY <1>1, <1>3, SubmitterRing

\* A new request has no transfers.
LEMMA SubmitRing ==
    ASSUME IInv, IInv', PartsInv, PartsInv', RingInv, Orderly' => Orderly, NEW i \in Iocbs,
           NEW n \in 1 .. MaxDescs, Submit(i, n)
    PROVE  RingInv'
  <1> DEFINE s == Seg(i)
  <1>1. /\ pc[i] = "seg" /\ cur' = cur /\ pc' = [pc EXCEPT ![i] = "build"]
        /\ req' = [req EXCEPT ![s] = [NoReq EXCEPT !.live = TRUE, !.total = n]]
        /\ engine' = engine
    BY DEF Submit, driver
  <1>2. s \in Segs /\ s[1] = i /\ Ahead(s) /\ req[s] = NoReq /\ req \in [Segs -> Reqs]
    BY <1>1, SegFacts DEF Ahead, IInv, Submitting
  <1>3. req'[s].tfer = 0 /\ \A t \in Segs : t # s => req'[t] = req[t]
    BY <1>1, <1>2 DEF NoReq
  <1>4. \A k \in 1 .. Len(engine.list) : engine.list[k][1] # s
    BY <1>2 DEF IInv, Listed
  <1>5. \A x : On(x)' <=> On(x)
    BY <1>1 DEF On
  <1>6. \A x \in Held' : x \in Held /\ x \in Xfers /\ x[1] \in Segs /\ x[1] # s
    <2> SUFFICES ASSUME NEW x \in Held'
                 PROVE  x \in Held /\ x \in Xfers /\ x[1] \in Segs /\ x[1] # s
      OBVIOUS
    <2>1. x \in Xfers /\ (On(x) \/ (req'[x[1]].live /\ x[2] < req'[x[1]].tfer))
      BY <1>5 DEF Held
    <2>2. x[1] \in Segs /\ x[2] \in {0, 1}
      BY <2>1, XferParts
    <2>3. x[1] # s
      <3>1. On(x) => x[1] # s
        BY <1>4 DEF On
      <3> QED BY <1>3, <2>1, <2>2, <3>1
    <2> QED BY <1>3, <2>1, <2>2, <2>3 DEF Held
  <1>7. cur' = [cur EXCEPT ![i] = cur[i]]
    BY <1>1, Unmoved
  <1>8. /\ \A t \in Segs : t # s => (Building(t)' <=> Building(t))
        /\ \A t \in Segs : t = s => Building(t)'
        /\ \A x \in Xfers : x[1] # s => (Unqueued(x)' => Unqueued(x))
    BY <1>1, <1>3, <1>7, MoveBuilding DEF Busy
  <1>9. \A x \in Held' : First(x)' = First(x) /\ Num(x)' = Num(x)
    BY <1>1 DEF First, Num
  <1> HIDE DEF s
  <1>10. \A t \in Segs : req'[t].live /\ ~Building(t)' =>
                             req[t].live /\ ~Building(t) /\ req'[t] = req[t]
    BY <1>3, <1>8
  <1> QED BY <1>1, <1>6, <1>8, <1>9, <1>10, RingSame

\* A refused request gives up its unlisted transfers.
LEMMA QueueRefusedRing ==
    ASSUME IInv, IInv', PartsInv, PartsInv', RingInv, Orderly' => Orderly,
           NEW i \in Iocbs, QueueRefused(i)
    PROVE  RingInv'
  <1> DEFINE s == Seg(i)
             u == Xfer(i)
  <1>1. /\ pc[i] \in {"queue", "admit"}
        /\ engine' = [engine EXCEPT !.xfer[u] = NoTransfer]
        /\ req' = [req EXCEPT ![s] = NoReq] /\ NextSegment(i)
    BY DEF QueueRefused
  <1>2. s \in Segs /\ s[1] = i /\ req \in [Segs -> Reqs]
    BY SegFacts
  <1>3. req'[s] = NoReq /\ ~req'[s].live /\ \A t \in Segs : t # s => req'[t] = req[t]
    BY <1>1, <1>2 DEF NoReq
  <1>4. u[1] = s /\ u[2] = req[s].tfer - 1
    BY DEF Xfer
  <1>5. Unqueued(u)
    BY <1>1, <1>2, <1>4 DEF Unqueued
  <1>6. /\ engine'.list = engine.list /\ engine'.idx = engine.idx
        /\ engine'.used = engine.used /\ engine'.ring = engine.ring
        /\ \A x \in Xfers : x # u => engine'.xfer[x] = engine.xfer[x]
    <2>1. engine \in Engines
      BY TypesOf
    <2> DEFINE xfer == [engine.xfer EXCEPT ![u] = NoTransfer]
    <2>2. \A x \in Xfers : x # u => xfer[x] = engine.xfer[x]
      BY <2>1 DEF Engines
    <2>3. engine' = [engine EXCEPT !.xfer = xfer]
      BY <1>1
    <2> HIDE DEF xfer, u
    <2> QED BY <2>1, <2>2, <2>3 DEF Engines
  <1> HIDE DEF u, s
  <1>7. \A x : On(x)' <=> On(x)
    BY <1>6 DEF On
  <1>8. \A x : On(x) => x # u
    BY <1>5 DEF On, IInv, Listed
  <1>9. \A x \in Held' : x \in Held /\ x \in Xfers /\ x[1] \in Segs /\ x # u
    <2> SUFFICES ASSUME NEW x \in Held'
                 PROVE  x \in Held /\ x \in Xfers /\ x[1] \in Segs /\ x # u
      OBVIOUS
    <2>1. x \in Xfers /\ (On(x) \/ (req'[x[1]].live /\ x[2] < req'[x[1]].tfer))
      BY <1>7 DEF Held
    <2>2. x[1] \in Segs
      BY <2>1, XferParts
    <2>3. CASE On(x)
      BY <1>8, <2>1, <2>2, <2>3 DEF Held
    <2>4. CASE req'[x[1]].live /\ x[2] < req'[x[1]].tfer
      BY <1>3, <1>4, <2>1, <2>2, <2>4 DEF Held
    <2> QED BY <2>1, <2>3, <2>4
  <1>10. /\ \A t \in Segs : t # s => (Building(t)' <=> Building(t))
         /\ \A t \in Segs : t = s => ~Building(t)'
         /\ \A x \in Xfers : x[1] # s => (Unqueued(x)' => Unqueued(x))
         /\ \A x \in Xfers : x[1] = s => ~Unqueued(x)'
    <2>1. PICK p \in {"seg", "wake"}, c \in Nat :
              /\ pc' = [pc EXCEPT ![i] = p] /\ cur' = [cur EXCEPT ![i] = c]
      BY <1>1, NextSegmentMoves
    <2>2. p \notin Busy /\ p \notin {"queue", "admit"}
      BY <2>1 DEF Busy
    <2> QED BY <1>3, <2>1, <2>2, MoveBuilding DEF s
  <1>11. \A x \in Held' : First(x)' = First(x) /\ Num(x)' = Num(x)
    BY <1>6, <1>9 DEF First, Num
  <1>12. \A t \in Segs : req'[t].live /\ ~Building(t)' =>
                             req[t].live /\ ~Building(t) /\ req'[t] = req[t]
    BY <1>3, <1>10
  <1> QED BY <1>6, <1>9, <1>10, <1>11, <1>12, RingSame

\* A transfer is queued: it is newer than all on the list.
LEMMA QueueRing ==
    ASSUME IInv, IInv', PartsInv, PartsInv', RingInv, Orderly' => Orderly, NEW i \in Iocbs, Queue(i)
    PROVE  RingInv'
  <1> DEFINE s == Seg(i)
             r == req[s]
             u == Xfer(i)
             old == engine.list
             new == engine'.list
             n == Len(old)
  <1>1. pc[i] = "admit" /\ req' = req /\ engine' = transfer_queue(engine, u)
    BY DEF Queue, requests
  <1>2. /\ s \in Segs /\ s[1] = i /\ r \in Reqs /\ r.live /\ r.next <= r.total /\ r.tfer > 0
    BY <1>1, SegFacts DEF IInv, Submitting, Busy
  <1>3. r.tfer \in Nat /\ r.tfer - 1 \in {0, 1} /\ r.next \in Nat /\ r.total \in Nat
    BY <1>2, Numbers DEF Reqs
  <1>4. u = <<s, r.tfer - 1>> /\ u[1] = s /\ u[2] = r.tfer - 1
    BY DEF Xfer
  <1>5. u \in Xfers /\ u \in Held /\ Unqueued(u)
    <2>1. u \in Xfers
      BY <1>2, <1>3, <1>4, XferOf
    <2>2. u[2] < r.tfer
      BY <1>3, <1>4
    <2> QED BY <1>1, <1>2, <1>4, <2>1, <2>2 DEF Held, Unqueued
  <1>6. engine' \in Engines /\ new = Append(old, u) /\ SameChains(engine', engine)
    BY <1>1, <1>5, TypesOf, QueueFields
  <1>7. /\ Len(new) = n + 1 /\ n \in Nat /\ new[n + 1] = u
        /\ \A k \in 1 .. n : new[k] = old[k]
    BY <1>5, <1>6, TypesOf, AppendProperties
  <1>8. \A x : On(x)' <=> On(x) \/ x = u
    <2> SUFFICES ASSUME NEW x PROVE On(x)' <=> On(x) \/ x = u
      OBVIOUS
    <2>1. On(x)' <=> \E k \in 1 .. Len(new) : new[k] = x
      BY DEF On
    <2>2. (\E k \in 1 .. Len(new) : new[k] = x) <=> (\E k \in 1 .. n : old[k] = x) \/ u = x
      <3> HIDE DEF new, old, n, u
      <3>1. \A k \in 1 .. n : k \in 1 .. n + 1
        BY <1>7
      <3>2. n + 1 \in 1 .. n + 1 /\ \A k \in 1 .. n + 1 : k \in 1 .. n \/ k = n + 1
        BY <1>7
      <3> QED BY <1>7, <3>1, <3>2
    <2> QED BY <2>1, <2>2 DEF On
  <1>9. Held' = Held
    <2>1. \A x \in Xfers : x \in Held' <=> x \in Held
      BY <1>1, <1>5, <1>8 DEF Held
    <2> QED BY <2>1 DEF Held
  <1>10. PICK p, c : /\ pc' = [pc EXCEPT ![i] = p] /\ cur' = [cur EXCEPT ![i] = c]
                     /\ p \in Busy => c = cur[i]
                     /\ p \notin {"queue", "admit"}
                     /\ p \in Busy \/ r.next = r.total
    <2>1. CASE r.next < r.total
      <3>1. pc' = [pc EXCEPT ![i] = "build"] /\ cur' = [cur EXCEPT ![i] = cur[i]]
        BY <2>1, Unmoved DEF Queue
      <3>2. "build" \in Busy
        BY DEF Busy
      <3> HIDE DEF r
      <3> QED BY <3>1, <3>2
    <2>2. CASE ~(r.next < r.total)
      <3>1. NextSegment(i) /\ r.next = r.total
        BY <1>2, <1>3, <2>2 DEF Queue
      <3>2. PICK p \in {"seg", "wake"}, c \in Nat :
                pc' = [pc EXCEPT ![i] = p] /\ cur' = [cur EXCEPT ![i] = c]
        BY <3>1, NextSegmentMoves
      <3>3. p \notin Busy
        BY <3>2 DEF Busy
      <3> HIDE DEF r
      <3> QED BY <3>1, <3>2, <3>3
    <2> QED BY <2>1, <2>2
  <1>11. /\ \A t \in Segs : Building(t)' => Building(t)
         /\ \A t \in Segs : t # s => (Building(t)' <=> Building(t))
         /\ \A t \in Segs : t = s => (Building(t)' <=> p \in Busy)
         /\ \A x \in Xfers : Unqueued(x)' => Unqueued(x)
    BY <1>1, <1>10, MoveBuilding DEF Busy
  <1>12. Ends'
    <2> SUFFICES ASSUME NEW t \in Segs, req[t].live, ~Building(t)'
                 PROVE  On(<<t, req[t].tfer - 1>>)' /\ req[t].next = req[t].total
      BY <1>1 DEF Ends, On
    <2>1. CASE t = s
      <3>1. req[t].next = req[t].total
        BY <1>10, <1>11, <2>1
      <3>2. <<t, req[t].tfer - 1>> = u
        BY <1>4, <2>1
      <3> QED BY <1>1, <1>8, <3>1, <3>2 DEF On
    <2>2. CASE t # s
      <3>1. On(<<t, req[t].tfer - 1>>) /\ req[t].next = req[t].total
        BY <1>11, <2>2 DEF RingInv, Ends
      <3> QED BY <1>1, <1>8, <3>1 DEF On
    <2> QED BY <2>1, <2>2
  <1>13. ASSUME Orderly' PROVE Ring'
    <2>1. Ring
      BY <1>13 DEF RingInv
    <2>2. /\ engine'.idx = engine.idx /\ engine'.used = engine.used
          /\ engine'.ring = engine.ring
          /\ \A x \in Held' : First(x)' = First(x) /\ Num(x)' = Num(x)
      BY <1>6 DEF SameChains, First, Num, Held
    <2>3. \A x \in Held' : /\ x \in Xfers /\ x[1] \in Segs /\ Back(x) <= engine'.used
                           /\ On(x)' \/ Unqueued(x)' => On(x) \/ Unqueued(x)
      <3>1. \A x \in Held : x \in Xfers /\ x[1] \in Segs /\ Back(x) <= engine.used
        BY <2>1, XferParts DEF Held, Ring, Placed
      <3> QED BY <1>5, <1>8, <1>9, <1>11, <2>2, <3>1
    <2>4. ASSUME NEW k \in 1 .. n + 1, NEW l \in 1 .. n + 1, k < l
          PROVE  \E x, y \in Held' : x = new[k] /\ y = new[l] /\ Older(x, y)
      <3>1. k \in 1 .. n /\ new[k] = old[k] /\ old[k] \in Held /\ On(old[k])
        <4>1. k \in 1 .. n
          BY <1>7, <2>4
        <4> QED BY <1>7, <4>1, ListHeld
      <3>2. CASE l = n + 1
        <4>1. PICK x : x = old[k]
          OBVIOUS
        <4>2. x \in Held /\ x[2] \in {0, 1}
          BY <3>1, <4>1, XferParts DEF Held
        <4>3. Older(x, u)
          <5>1. CASE x[1] # s
            <6>1. Building(u[1])
              BY <1>1, <1>2, <1>4 DEF Building, Busy
            <6> QED BY <1>4, <1>5, <2>1, <4>2, <5>1, <6>1 DEF Ring, NewestLast
          <5>2. CASE x[1] = s
            <6>1. x[2] < r.tfer
              BY <1>2, <4>2, <5>2, HeldBuilt
            <6>2. ~Unqueued(x)
              BY <3>1, <4>1 DEF IInv, Listed
            <6>3. x[2] # r.tfer - 1
              BY <1>1, <1>2, <5>2, <6>2 DEF Unqueued
            <6>4. x[2] < u[2]
              BY <1>3, <1>4, <4>2, <6>1, <6>3
            <6> QED BY <1>4, <1>5, <2>1, <4>2, <5>2, <6>4 DEF Ring, OwnOrder
          <5> QED BY <5>1, <5>2
        <4> QED BY <1>5, <1>7, <1>9, <3>1, <3>2, <4>1, <4>2, <4>3
      <3>3. CASE l # n + 1
        <4>1. l \in 1 .. n /\ new[l] = old[l]
          BY <1>7, <3>3
        <4>2. PICK x, y : x = old[k] /\ y = old[l]
          OBVIOUS
        <4>3. Older(x, y)
          BY <2>1, <2>4, <3>1, <4>1, <4>2 DEF Ring, ListOrder
        <4>4. y \in Held
          BY <4>1, <4>2, ListHeld
        <4> QED BY <1>9, <3>1, <4>1, <4>2, <4>3, <4>4
      <3> QED BY <3>2, <3>3
    <2>5. \A k, l \in 1 .. Len(engine'.list) :
              k < l => \E x, y \in Held' :
                           x = engine'.list[k] /\ y = engine'.list[l] /\ Older(x, y)
      BY <1>7, <2>4
    <2>6. Held' \subseteq Held /\ engine'.used >= 0
      BY <1>9, <2>1, <2>2 DEF Ring, Placed
    <2>7. \A x \in Held' : \A j \in Chain(x) : engine'.ring[j] = engine.ring[j]
      BY <2>2
    <2> HIDE DEF new, old, n, u, s, r
    <2> QED BY <1>11, <2>1, <2>2, <2>3, <2>5, <2>6, <2>7, RingKept
  <1> QED BY <1>12, <1>13 DEF RingInv

\* desc_idx moves on by the length of the new chain,
LEMMA Wrapped ==
    ASSUME NEW D \in Nat \ {0}, NEW a \in 0 .. D
    PROVE  a % D = IF a = D THEN 0 ELSE a
  OBVIOUS

\* and all others are that much farther behind it, when they have room.
LEMMA Shifted ==
    ASSUME NEW D \in Nat \ {0}, NEW idx \in 0 .. D - 1, NEW num \in 1 .. D, idx + num <= D,
           NEW used \in Int, used + num <= D, NEW f \in 0 .. D - 1,
           NEW a, a = IF f < idx THEN idx - f ELSE idx + D - f, a <= used,
           NEW idx2, idx2 = IF idx + num = D THEN 0 ELSE idx + num
    PROVE  (IF f < idx2 THEN idx2 - f ELSE idx2 + D - f) = a + num
  OBVIOUS

\* What Build does: the transfer it adds, and where that is.
Built(i, new, num) ==
    LET s == Seg(i)
    IN  /\ new = <<s, req[s].tfer>> /\ new[1] = s /\ new[2] = req[s].tfer /\ new \in Xfers
        /\ s \in Segs /\ req[s].live /\ req'[s].live /\ req'[s].tfer = req[s].tfer + 1
        /\ req[s].tfer \in {0, 1} /\ req[s].tfer \in Nat
        /\ req[s].next \in Nat /\ req[s].total \in Nat /\ num \in 1 .. req[s].total - req[s].next
        /\ req'[s].next = req[s].next + num /\ req'[s].total = req[s].total
        /\ \A t \in Segs : t # s => req'[t] = req[t]
        /\ num \in 1 .. DescMax /\ engine.idx + num <= DescMax
        /\ engine' \in Engines /\ engine'.list = engine.list
        /\ engine'.idx = IF engine.idx + num = DescMax THEN 0 ELSE engine.idx + num
        /\ engine'.used = engine.used + num
        /\ engine'.xfer[new].first = engine.idx /\ engine'.xfer[new].num = num
        /\ engine'.xfer[new].state = "NEW"
        /\ \A x \in Xfers : x # new => engine'.xfer[x] = engine.xfer[x]
        /\ \A j \in engine.idx .. engine.idx + num - 1 :
              /\ engine'.ring[j].magic /\ engine'.ring[j].req = new
              /\ engine'.ring[j].last = (j = engine.idx + num - 1)
              /\ engine'.ring[j].index = req[s].next + j - engine.idx
        /\ \A j \in Slots : j \notin engine.idx .. engine.idx + num - 1 =>
              engine'.ring[j] = engine.ring[j]
        /\ engine'.running = engine.running /\ engine'.busy = engine.busy
        /\ engine'.pos = engine.pos /\ engine'.count = engine.count
        /\ engine'.dequeued = engine.dequeued
        /\ Overrun(num) \subseteq seen' /\ Interleaved(i) \subseteq seen'

\* There is such a transfer.
LEMMA BuildIs ==
    ASSUME IInv, NEW i \in Iocbs, Build(i)
    PROVE  \E new, num : Built(i, new, num)
  <1> DEFINE s == Seg(i)
             q == req[s]
             num == ChainLength(engine, q.total - q.next)
             new == <<s, q.tfer>>
  <1>1. /\ pc[i] = "build" /\ q.tfer < MaxTfer
        /\ engine' = transfer_init(engine, new, q.next, q.total)
        /\ req' = [req EXCEPT ![s].next = @ + num, ![s].tfer = @ + 1]
        /\ seen' = seen \cup Overrun(num) \cup Interleaved(i)
    BY DEF Build
  <1>2. s \in Segs /\ req \in [Segs -> Reqs]
    BY SegFacts
  <1>3. q \in Reqs /\ q.live /\ q.next < q.total
    BY <1>1, <1>2 DEF IInv, Submitting, Busy
  <1>4. /\ q.total \in 0 .. MaxDescs /\ q.next \in Nat /\ q.tfer \in {0, 1} /\ q.tfer \in Nat
        /\ q.total \in Nat
    BY <1>1, <1>3, Numbers DEF Reqs
  <1>5. new \in Xfers /\ new[1] = s /\ new[2] = q.tfer
    BY <1>2, <1>4, XferOf
  <1>6. /\ num \in 1 .. DescMax /\ engine.idx + num <= DescMax
        /\ num \in 1 .. q.total - q.next
    <2>1. q.total - q.next \in Nat \ {0}
      BY <1>3, <1>4
    <2> QED BY <2>1, TypesOf, ChainLengthBounds
  <1>7. /\ engine' \in Engines /\ engine'.list = engine.list
        /\ engine'.idx = (engine.idx + num) % DescMax /\ engine'.used = engine.used + num
        /\ engine'.xfer[new].first = engine.idx /\ engine'.xfer[new].num = num
        /\ engine'.xfer[new].state = "NEW"
        /\ \A x \in Xfers : x # new => engine'.xfer[x] = engine.xfer[x]
        /\ \A j \in engine.idx .. engine.idx + num - 1 :
              /\ engine'.ring[j].magic /\ engine'.ring[j].req = new
              /\ engine'.ring[j].last = (j = engine.idx + num - 1)
              /\ engine'.ring[j].index = q.next + j - engine.idx
        /\ \A j \in Slots : j \notin engine.idx .. engine.idx + num - 1 =>
              engine'.ring[j] = engine.ring[j]
        /\ engine'.running = engine.running /\ engine'.busy = engine.busy
        /\ engine'.pos = engine.pos /\ engine'.count = engine.count
        /\ engine'.dequeued = engine.dequeued
    <2> HIDE DEF new, s, q
    <2>1. Inits(engine', engine, new, q.next, num)
      BY <1>1, <1>3, <1>4, <1>5, TypesOf, InitFields
    <2> HIDE DEF num
    <2> QED BY <2>1 DEF Inits
  <1> HIDE DEF num
  <1>8. (engine.idx + num) % DescMax =
            IF engine.idx + num = DescMax THEN 0 ELSE engine.idx + num
    <2>1. engine.idx + num \in 0 .. DescMax /\ DescMax \in Nat \ {0}
      BY <1>6, TypesOf, Numbers DEF Engines, Slots
    <2> QED BY <2>1, Wrapped
  <1>9. /\ req'[s].live /\ req'[s].tfer = q.tfer + 1
        /\ req'[s].next = q.next + num /\ req'[s].total = q.total
        /\ \A t \in Segs : t # s => req'[t] = req[t]
    <2> DEFINE r == [q EXCEPT !.next = @ + num, !.tfer = @ + 1]
    <2>1. req' = [req EXCEPT ![s] = r]
      BY <1>1, <1>2, <1>3 DEF Reqs
    <2>2. r.live /\ r.tfer = q.tfer + 1 /\ r.next = q.next + num /\ r.total = q.total
      <3> HIDE DEF q
      <3> QED BY <1>3 DEF Reqs
    <2> HIDE DEF r
    <2> QED BY <1>2, <2>1, <2>2
  <1>10. Overrun(num) \subseteq seen' /\ Interleaved(i) \subseteq seen'
    BY <1>1
  <1>11. Built(i, new, num)
    BY <1>2, <1>3, <1>4, <1>5, <1>6, <1>7, <1>8, <1>9, <1>10 DEF Built
  <1> HIDE DEF new
  <1> QED BY <1>11

\* The transfers held after Build.
LEMMA BuildHeld ==
    ASSUME IInv, NEW i \in Iocbs, Build(i), NEW new, NEW num, Built(i, new, num)
    PROVE  /\ Held' = Held \cup {new} /\ new \notin Held
           /\ \A x : On(x)' <=> On(x)
           /\ \A x \in Held : x \in Xfers /\ x[1] \in Segs /\ x # new
           /\ \A x \in Held : First(x)' = First(x) /\ Num(x)' = Num(x)
           /\ First(new)' = engine.idx /\ Num(new)' = num
           /\ \A t \in Segs : Building(t)' <=> Building(t)
           /\ \A x \in Held : Unqueued(x)' => Unqueued(x)
           /\ \A x \in Held : x[1] = new[1] => x[2] < new[2]
           /\ Building(new[1]) /\ Building(new[1])'
  <1>1. \A x : On(x)' <=> On(x)
    BY DEF Built, On
  <1>2. \A x \in Held : x \in Xfers /\ x[1] \in Segs /\ x[2] \in {0, 1}
    BY XferParts DEF Held
  <1>3. ASSUME NEW x \in Held, x[1] = new[1] PROVE x[2] < new[2]
    BY <1>3, HeldBuilt DEF Built
  <1>4. new \notin Held
    <2>1. new[2] \in Nat
      BY DEF Built
    <2> QED BY <1>3, <2>1
  <1>5. ASSUME NEW x \in Xfers PROVE x \in Held' <=> x \in Held \/ x = new
    <2>1. x \in Held' <=> On(x) \/ (req'[x[1]].live /\ x[2] < req'[x[1]].tfer)
      BY <1>1 DEF Held
    <2>2. x \in Held <=> On(x) \/ (req[x[1]].live /\ x[2] < req[x[1]].tfer)
      BY DEF Held
    <2>3. x[1] \in Segs /\ x[2] \in {0, 1} /\ x = <<x[1], x[2]>>
      BY XferParts
    <2>4. CASE x[1] # new[1]
      BY <2>1, <2>2, <2>3, <2>4 DEF Built
    <2>5. CASE x[1] = new[1]
      <3>1. x[2] < req'[x[1]].tfer <=> x[2] < req[x[1]].tfer \/ x[2] = new[2]
        BY <2>3, <2>5 DEF Built
      <3>2. x[2] = new[2] <=> x = new
        BY <2>3, <2>5 DEF Built
      <3>3. req[x[1]].live /\ req'[x[1]].live
        BY <2>5 DEF Built
      <3> QED BY <2>1, <2>2, <3>1, <3>2, <3>3
    <2> QED BY <2>4, <2>5
  <1>6. Held' = Held \cup {new}
    <2>1. new \in Xfers /\ Held' \subseteq Xfers /\ Held \subseteq Xfers
      BY DEF Built, Held
    <2> QED BY <1>5, <2>1
  <1>7. \A x \in Held : First(x)' = First(x) /\ Num(x)' = Num(x)
    BY <1>2, <1>4 DEF Built, First, Num
  <1>8. First(new)' = engine.idx /\ Num(new)' = num
    BY DEF Built, First, Num
  <1>9. /\ pc[i] = "build" /\ pc' = [pc EXCEPT ![i] = "queue"]
        /\ cur' = [cur EXCEPT ![i] = cur[i]]
    BY Unmoved DEF Build
  <1>10. /\ \A t \in Segs : Building(t)' <=> Building(t)
         /\ \A t \in Segs : t = Seg(i) => Building(t)
         /\ \A x \in Xfers : x[1] # Seg(i) => (Unqueued(x)' => Unqueued(x))
         /\ \A x \in Xfers : x[1] = Seg(i) => (Unqueued(x)' <=> x[2] = req'[x[1]].tfer - 1)
    <2>1. \A t \in Segs : t # Seg(i) => req'[t] = req[t]
      BY DEF Built
    <2> QED BY <1>9, <2>1, MoveBuilding DEF Busy
  <1>11. ASSUME NEW x \in Held, Unqueued(x)' PROVE Unqueued(x)
    <2>1. CASE x[1] # Seg(i)
      BY <1>2, <1>10, <1>11, <2>1
    <2>2. CASE x[1] = Seg(i)
      <3>1. x[2] = req'[x[1]].tfer - 1 /\ x[1] = new[1]
        BY <1>2, <1>10, <1>11, <2>2 DEF Built
      <3>2. x[2] = new[2]
        BY <3>1 DEF Built
      <3> QED BY <1>2, <1>3, <3>1, <3>2
    <2> QED BY <2>1, <2>2
  <1>12. Building(new[1]) /\ Building(new[1])'
    <2>1. new[1] \in Segs /\ new[1] = Seg(i)
      BY DEF Built
    <2> QED BY <1>10, <2>1
  <1> QED BY <1>1, <1>2, <1>3, <1>4, <1>6, <1>7, <1>8, <1>10, <1>11, <1>12

\* The new chain begins with the first descriptor that is not built yet.
LEMMA BuildStart ==
    ASSUME IInv, PartsInv, NEW i \in Iocbs, Build(i), NEW new, NEW num, Built(i, new, num)
    PROVE  Start(new)' = req[Seg(i)].next
  <1> DEFINE s == Seg(i)
             x == <<s, 0>>
  <1>1. new[1] = s /\ new[2] = req[s].tfer /\ s \in Segs /\ req[s].live /\ req[s].tfer \in {0, 1}
    BY DEF Built
  <1>2. CASE req[s].tfer = 0
    BY <1>1, <1>2 DEF PartsInv, Parts, Start
  <1>3. CASE req[s].tfer = 1
    <2>1. req[s].next = Num(x)
      BY <1>1, <1>3 DEF PartsInv, Parts
    <2>2. x \in Xfers /\ x # new
      <3>1. x \in Xfers /\ x[2] = 0
        BY <1>1, XferOf
      <3> HIDE DEF x
      <3> QED BY <1>1, <1>3, <3>1
    <2>3. engine'.xfer[x] = engine.xfer[x]
      BY <2>2 DEF Built
    <2>4. Start(new)' = engine'.xfer[x].num
      BY <1>1, <1>3 DEF Start, Num
    <2> QED BY <2>1, <2>3, <2>4 DEF Num
  <1> QED BY <1>1, <1>2, <1>3

\* A new chain, for which there is room, is newer than all others.
LEMMA BuildRing ==
    ASSUME IInv, IInv', PartsInv, PartsInv', RingInv, Orderly' => Orderly, NEW i \in Iocbs, Build(i)
    PROVE  RingInv'
  <1>1. PICK new, num : Built(i, new, num)
    BY BuildIs
  <1>2. /\ Held' = Held \cup {new} /\ new \notin Held
        /\ \A x : On(x)' <=> On(x)
        /\ \A x \in Held : x \in Xfers /\ x[1] \in Segs /\ x # new
        /\ \A x \in Held : First(x)' = First(x) /\ Num(x)' = Num(x)
        /\ First(new)' = engine.idx /\ Num(new)' = num
        /\ \A t \in Segs : Building(t)' <=> Building(t)
        /\ \A x \in Held : Unqueued(x)' => Unqueued(x)
        /\ \A x \in Held : x[1] = new[1] => x[2] < new[2]
        /\ Building(new[1]) /\ Building(new[1])'
    BY <1>1, BuildHeld
  <1>3. new \in Xfers /\ new[1] \in Segs /\ new[2] \in Nat
    BY <1>1 DEF Built
  <1>4. Ends'
    <2> SUFFICES ASSUME NEW t \in Segs, req'[t].live, ~Building(t)'
                 PROVE  On(<<t, req[t].tfer - 1>>)' /\ req'[t].next = req'[t].total
      BY DEF Ends
    <2>1. t # new[1] /\ ~Building(t)
      BY <1>2
    <2>2. req'[t] = req[t]
      BY <1>1, <2>1 DEF Built
    <2>3. On(<<t, req[t].tfer - 1>>) /\ req[t].next = req[t].total
      BY <2>1, <2>2 DEF RingInv, Ends
    <2>4. engine'.list = engine.list
      BY <1>1 DEF Built
    <2> QED BY <2>2, <2>3, <2>4 DEF On
  <1>5. ASSUME Orderly' PROVE Ring'
    <2>1. Ring
      BY <1>5 DEF RingInv
    <2>2. /\ engine.idx \in 0 .. DescMax - 1 /\ DescMax \in Nat \ {0} /\ engine.used \in Int
          /\ num \in 1 .. DescMax /\ engine.idx + num <= DescMax
          /\ engine'.used = engine.used + num
          /\ engine'.idx = IF engine.idx + num = DescMax THEN 0 ELSE engine.idx + num
      BY <1>1, <1>3, Place DEF Built
    <2>3. engine.used + num <= DescMax
      <3>1. Overrun(num) \subseteq seen' /\ "overrun" \notin seen'
        BY <1>1, <1>5 DEF Built, Orderly
      <3> QED BY <2>2, <3>1 DEF Overrun
    <2>4. \A j \in Iocbs \ {i} : /\ pc[j] \notin {"queue", "admit"}
                                 /\ pc[j] = "build" => ~(req[Seg(j)].tfer > 0)
      <3>1. Interleaved(i) \subseteq seen' /\ "interleaved" \notin seen'
        BY <1>1, <1>5 DEF Built, Orderly
      <3> QED BY <3>1 DEF Interleaved
    <2>5. ASSUME NEW x \in Held
          PROVE  /\ First(x) \in 0 .. DescMax - 1 /\ Num(x) \in Nat /\ Num(x) > 0
                 /\ Back(x) \in Int /\ Num(x) <= Back(x) /\ Back(x) <= engine.used
                 /\ First(x) + Num(x) <= DescMax
                 /\ Back(x)' = Back(x) + num
      <3>1. /\ First(x) \in 0 .. DescMax - 1 /\ Num(x) \in Nat /\ Back(x) \in Int
        BY <1>2, Place
      <3>2. /\ Num(x) > 0 /\ Num(x) <= Back(x) /\ Back(x) <= engine.used
            /\ First(x) + Num(x) <= DescMax
        BY <2>1 DEF Ring, Placed
      <3>3. Back(x)' = IF First(x) < engine'.idx THEN engine'.idx - First(x)
                       ELSE engine'.idx + DescMax - First(x)
        BY <1>2 DEF Back
      <3>4. Back(x) = IF First(x) < engine.idx THEN engine.idx - First(x)
                      ELSE engine.idx + DescMax - First(x)
        BY DEF Back
      <3>5. Back(x)' = Back(x) + num
        BY <2>2, <2>3, <3>1, <3>2, <3>3, <3>4, Shifted
      <3> QED BY <3>1, <3>2, <3>5
    <2>6. Back(new)' = num
      <3>1. Back(new)' = IF engine.idx < engine'.idx THEN engine'.idx - engine.idx
                         ELSE engine'.idx + DescMax - engine.idx
        BY <1>2 DEF Back
      <3> QED BY <2>2, <3>1
    <2>7. \A x, y \in Held : Older(x, y)' <=> Older(x, y)
      BY <1>2, <2>2, <2>5 DEF Older
    <2>8. \A x \in Held : Older(x, new)' /\ ~Older(new, x)'
      BY <1>2, <2>2, <2>5, <2>6 DEF Older
    <2>9. Placed'
      <3>1. ASSUME NEW x \in Held'
            PROVE  /\ Num(x)' > 0 /\ First(x)' + Num(x)' <= DescMax
                   /\ Num(x)' <= Back(x)' /\ Back(x)' <= engine'.used
        <4>1. CASE x = new
          <5>1. engine.used >= 0
            BY <2>1 DEF Ring, Placed
          <5> QED BY <1>2, <2>2, <2>6, <4>1, <5>1
        <4>2. CASE x \in Held
          BY <1>2, <2>2, <2>5, <4>2
        <4> QED BY <1>2, <4>1, <4>2
      <3>2. engine'.used >= 0
        BY <2>1, <2>2 DEF Ring, Placed
      <3> QED BY <3>1, <3>2 DEF Placed
    <2>10. Apart'
      BY <1>2, <2>1, <2>7, <2>8 DEF Ring, Apart
    <2>11. ListOrder'
      <3> SUFFICES ASSUME NEW k \in 1 .. Len(engine.list), NEW l \in 1 .. Len(engine.list), k < l
                   PROVE  Older(engine.list[k], engine.list[l])'
        BY <1>1 DEF ListOrder, Built
      <3>1. PICK x, y : x = engine.list[k] /\ y = engine.list[l]
        OBVIOUS
      <3>2. x \in Held /\ y \in Held
        BY <3>1, ListHeld
      <3>3. Older(x, y)'
        BY <2>1, <2>7, <3>1, <3>2 DEF Ring, ListOrder
      <3>4. x = engine'.list[k] /\ y = engine'.list[l]
        BY <1>1, <3>1 DEF Built
      <3> QED BY <3>3, <3>4 DEF Older, Back, First, Num
    <2>12. OwnOrder'
      <3> SUFFICES ASSUME NEW x \in Held', NEW y \in Held', x[1] = y[1], x[2] < y[2]
                   PROVE  Older(x, y)'
        BY DEF OwnOrder
      <3>1. CASE x = new
        <4>1. y \in Held => y[2] < x[2]
          BY <1>2, <3>1
        <4>2. y = new \/ y \in Held
          BY <1>2
        <4>3. \A z \in Held : z[2] \in {0, 1}
          BY <1>2, XferParts
        <4> QED BY <1>3, <3>1, <4>1, <4>2, <4>3
      <3>2. CASE x \in Held /\ y = new
        BY <2>8, <3>2
      <3>3. CASE x \in Held /\ y \in Held
        BY <2>1, <2>7, <3>3 DEF Ring, OwnOrder
      <3> QED BY <1>2, <3>1, <3>2, <3>3
    <2>13. Unbroken'
      <3> SUFFICES ASSUME NEW x \in Held', NEW y \in Held', NEW z \in Held',
                          x[1] = z[1], y[1] # x[1], Older(x, y)', Older(y, z)'
                   PROVE  FALSE
        BY DEF Unbroken
      <3>1. x \in Held /\ y \in Held
        <4>1. ~Older(new, new)'
          BY <1>2, <2>2, <2>6 DEF Older
        <4> QED BY <1>2, <2>8, <4>1
      <3>2. CASE z \in Held
        BY <2>1, <2>7, <3>1, <3>2 DEF Ring, Unbroken
      <3>3. CASE z = new
        <4>1. Older(y, x)
          BY <1>2, <2>1, <3>1, <3>3 DEF Ring, NewestLast
        <4>2. Older(x, y)
          BY <2>7, <3>1
        <4> QED BY <2>1, <3>1, <4>1, <4>2, OlderOrder DEF Ring
      <3> QED BY <1>2, <3>2, <3>3
    <2>14. NewestLast'
      <3> SUFFICES ASSUME NEW x \in Held', NEW y \in Held', Building(x[1])', y[1] # x[1]
                   PROVE  Older(y, x)'
        BY DEF NewestLast
      <3>1. CASE x = new
        BY <1>2, <2>8, <3>1
      <3>2. CASE x \in Held /\ x[1] = new[1]
        <4>1. y \in Held
          BY <1>2, <3>2
        <4>2. Older(y, x)
          BY <1>2, <2>1, <3>2, <4>1 DEF Ring, NewestLast
        <4> QED BY <2>7, <3>2, <4>1, <4>2
      <3>3. CASE x \in Held /\ x[1] # new[1]
        <4>1. x[1] \in Segs /\ Building(x[1]) /\ x[2] \in {0, 1}
          BY <1>2, <3>3, XferParts
        <4>2. x[1] = Seg(x[1][1]) /\ pc[x[1][1]] \in Busy /\ x[1][1] \in Iocbs
          BY <4>1, SegParts DEF Building
        <4>3. x[1][1] # i
          BY <1>1, <3>3, <4>2 DEF Built
        <4>4. ~(req[x[1]].tfer > 0)
          <5>1. PICK j \in Iocbs \ {i} : j = x[1][1]
            BY <4>2, <4>3
          <5>2. pc[j] \in Busy /\ x[1] = Seg(j)
            BY <4>2, <5>1
          <5>3. pc[j] = "build"
            BY <2>4, <5>2 DEF Busy
          <5>4. ~(req[Seg(j)].tfer > 0)
            BY <2>4, <5>3
          <5> QED BY <5>2, <5>4
        <4>5. req[x[1]].live
          BY <4>2 DEF IInv, Submitting
        <4>6. x[2] < req[x[1]].tfer
          BY <3>3, <4>5, HeldBuilt
        <4>7. req[x[1]].tfer \in Nat
          BY <4>1, Numbers DEF IInv, Types, Reqs
        <4> QED BY <4>1, <4>4, <4>6, <4>7
      <3> QED BY <1>2, <3>1, <3>2, <3>3
    <2>15. Chains'
      <3> SUFFICES ASSUME NEW x \in Held', On(x)' \/ Unqueued(x)' PROVE Chained(x)'
        BY DEF Chains
      <3>1. CASE x = new
        <4> DEFINE s == Seg(i)
        <4>1. Start(x)' = req[s].next
          BY <1>1, <1>2, <3>1, BuildStart
        <4>2. \A j \in engine.idx .. engine.idx + num - 1 :
                  req[s].next + j - engine.idx = req[s].next + (j - engine.idx)
          <5>1. req[s].next \in Nat /\ engine.idx \in Int /\ num \in Int
            BY <1>1, <2>2 DEF Built
          <5> QED BY <5>1
        <4> QED BY <1>1, <1>2, <3>1, <4>1, <4>2 DEF Chained, Chain, Built
      <3>2. CASE x \in Held
        <4>1. Chained(x)
          BY <1>2, <2>1, <3>2 DEF Ring, Chains
        <4>2. ASSUME NEW j \in Chain(x)
              PROVE  j \in Slots /\ j \notin engine.idx .. engine.idx + num - 1
          <5>1. /\ First(x) \in 0 .. DescMax - 1 /\ Num(x) \in Nat
                /\ First(x) + Num(x) <= DescMax /\ Num(x) <= Back(x)
                /\ Back(x) \in Int /\ Back(x) <= engine.used
            BY <2>5, <3>2
          <5>2. j \in Slots
            BY <2>2, <5>1 DEF Chain, Slots
          <5>3. j \in Int /\ j >= First(x) /\ j < First(x) + Num(x)
            BY <5>1 DEF Chain
          <5>4. \/ First(x) < engine.idx /\ Back(x) = engine.idx - First(x)
                \/ First(x) >= engine.idx /\ Back(x) = engine.idx + DescMax - First(x)
            BY <2>2, <5>1 DEF Back
          <5> QED BY <2>2, <2>3, <5>1, <5>2, <5>3, <5>4
        <4>3. \A j \in Chain(x) : engine'.ring[j] = engine.ring[j]
          BY <1>1, <4>2 DEF Built
        <4>4. Chain(x)' = Chain(x) /\ First(x)' = First(x) /\ Num(x)' = Num(x)
          BY <1>2, <3>2 DEF Chain
        <4>5. Start(x)' = Start(x)
          BY <1>2, <3>2, StartKept
        <4> QED BY <4>1, <4>3, <4>4, <4>5 DEF Chained
      <3> QED BY <1>2, <3>1, <3>2
    <2> QED BY <2>9, <2>10, <2>11, <2>12, <2>13, <2>14, <2>15 DEF Ring
  <1> QED BY <1>4, <1>5 DEF RingInv

-----------------------------------------------------------------------------
(* Completion of requests, and the ring *)

\* The transfers that xdma_xfer_completion destroys.
Gone(e) == UNION {{s} \X Looked(e, s) : s \in Done(e)}

\* Those of the list that were answered on the way to e, and those that stay.
Answered(e) == {x \in Xfers : \E k \in 1 .. Len(engine.list) - Len(e.list) : engine.list[k] = x}
Stays(e, x) == \E l \in 1 .. Len(e.list) : e.list[l] = x

\* What is listed is the one or the other.
LEMMA AnsweredOrStays ==
    ASSUME IInv, NEW e \in Engines, Suffix(e.list, engine.list), NEW x, On(x)
    PROVE  x \in Answered(e) \/ Stays(e, x)
  <1> DEFINE n == Len(engine.list)
             m == Len(e.list)
             d == n - m
  <1>1. n \in Nat /\ m \in Nat /\ m <= n /\ \A j \in 1 .. m : e.list[j] = engine.list[d + j]
    BY TypesOf, LenProperties DEF Engines, Suffix
  <1>2. PICK k \in 1 .. n : engine.list[k] = x
    BY DEF On
  <1>3. x \in Xfers
    BY <1>2, TypesOf, ElementOfSeq
  <1>4. CASE k \in 1 .. d
    BY <1>2, <1>3, <1>4 DEF Answered
  <1>5. CASE k \notin 1 .. d
    <2> HIDE DEF n, m
    <2>1. k - d \in 1 .. m /\ d + (k - d) = k
      BY <1>1, <1>2, <1>5
    <2>2. e.list[k - d] = x
      BY <1>1, <1>2, <2>1
    <2> QED BY <2>1, <2>2 DEF Stays, m
  <1> QED BY <1>4, <1>5

\* The list is in its order: what was answered is older than what stays, and
\* that is still in order.
LEMMA AnsweredOlder ==
    ASSUME IInv, Ring, NEW e \in Engines, Suffix(e.list, engine.list)
    PROVE  /\ \A x \in Answered(e) : x \in Held /\ On(x)
           /\ \A y : Stays(e, y) => y \in Held /\ On(y)
           /\ \A x \in Answered(e) : \A y : Stays(e, y) => Older(x, y)
           /\ \A k, l \in 1 .. Len(e.list) : k < l => Older(e.list[k], e.list[l])
  <1> DEFINE n == Len(engine.list)
             m == Len(e.list)
             d == n - m
  <1>1. n \in Nat /\ m \in Nat /\ m <= n /\ \A j \in 1 .. m : e.list[j] = engine.list[d + j]
    BY TypesOf, LenProperties DEF Engines, Suffix
  <1>2. \A k, l \in 1 .. n : k < l => Older(engine.list[k], engine.list[l])
    BY DEF Ring, ListOrder
  <1>3. /\ \A k \in 1 .. d : k \in 1 .. n
        /\ \A k \in 1 .. m : d + k \in 1 .. n
        /\ \A k \in 1 .. d, l \in 1 .. m : k < d + l
        /\ \A k, l \in 1 .. m : k < l => d + k < d + l
    BY <1>1, Positions
  <1>4. \A k \in 1 .. n : engine.list[k] \in Held /\ On(engine.list[k])
    BY ListHeld
  <1>5. \A x \in Answered(e) : \E k \in 1 .. d : engine.list[k] = x
    BY DEF Answered
  <1>6. \A y : Stays(e, y) => \E l \in 1 .. m : e.list[l] = y
    BY DEF Stays
  <1> HIDE DEF d, m, n
  <1>7. \A x \in Answered(e) : x \in Held /\ On(x)
    BY <1>3, <1>4, <1>5
  <1>8. \A y : Stays(e, y) => y \in Held /\ On(y)
    BY <1>1, <1>3, <1>4, <1>6
  <1>9. ASSUME NEW x \in Answered(e), NEW y, Stays(e, y) PROVE Older(x, y)
    <2>1. PICK k \in 1 .. d : engine.list[k] = x
      BY <1>5
    <2>2. PICK l \in 1 .. m : e.list[l] = y
      BY <1>6, <1>9
    <2>3. k \in 1 .. n /\ d + l \in 1 .. n /\ k < d + l
      BY <1>3
    <2>4. engine.list[d + l] = y
      BY <1>1, <2>2
    <2> QED BY <1>2, <2>1, <2>3, <2>4
  <1>10. ASSUME NEW k \in 1 .. m, NEW l \in 1 .. m, k < l
         PROVE  Older(e.list[k], e.list[l])
    <2>1. d + k \in 1 .. n /\ d + l \in 1 .. n /\ d + k < d + l
      BY <1>3, <1>10
    <2>2. PICK x, y : x = engine.list[d + k] /\ y = engine.list[d + l]
      OBVIOUS
    <2>3. x = e.list[k] /\ y = e.list[l]
      BY <1>1, <2>2
    <2>4. Older(x, y)
      BY <1>2, <2>1, <2>2
    <2> QED BY <2>3, <2>4
  <1> QED BY <1>7, <1>8, <1>9, <1>10 DEF m

\* A request is done when its last transfer was answered.
LEMMA DoneAnswered ==
    ASSUME IInv, NEW e \in Engines, Suffix(e.list, engine.list), NEW s \in Segs
    PROVE  s \in Done(e) <=> \E x \in Answered(e) : x[1] = s /\ IsLast(x)
  <1> DEFINE d == Len(engine.list) - Len(e.list)
  <1>0. Len(engine.list) \in Nat /\ Len(e.list) \in Nat /\ Len(e.list) <= Len(engine.list)
    BY TypesOf, LenProperties DEF Engines, Suffix
  <1>1. s \in Done(e) <=> \E k \in 1 .. d : engine.list[k][1] = s /\ IsLast(engine.list[k])
    BY DoneIs
  <1>2. \A k \in 1 .. d : engine.list[k] \in Xfers
    <2>1. \A k \in 1 .. d : k \in 1 .. Len(engine.list)
      BY <1>0, Positions
    <2> QED BY <2>1, TypesOf, ElementOfSeq
  <1>3. \A x : x \in Answered(e) <=> x \in Xfers /\ \E k \in 1 .. d : engine.list[k] = x
    BY DEF Answered
  <1> HIDE DEF d
  <1>4. ASSUME s \in Done(e) PROVE \E x \in Answered(e) : x[1] = s /\ IsLast(x)
    <2>1. PICK k \in 1 .. d : engine.list[k][1] = s /\ IsLast(engine.list[k])
      BY <1>1, <1>4
    <2>2. PICK x : x = engine.list[k]
      OBVIOUS
    <2>3. x \in Answered(e) /\ x[1] = s /\ IsLast(x)
      BY <1>2, <1>3, <2>1, <2>2
    <2> QED BY <2>3
  <1>5. ASSUME NEW x \in Answered(e), x[1] = s, IsLast(x) PROVE s \in Done(e)
    <2>1. PICK k \in 1 .. d : engine.list[k] = x
      BY <1>3
    <2>2. engine.list[k][1] = s /\ IsLast(engine.list[k])
      BY <1>5, <2>1
    <2> QED BY <1>1, <2>2
  <1> QED BY <1>4, <1>5

\* A request that is built, and not done, has its last transfer on the list.
LEMMA LastStays ==
    ASSUME IInv, Ends, NEW e \in Engines, Suffix(e.list, engine.list),
           NEW s \in Segs, s \notin Done(e), req[s].live, ~Building(s)
    PROVE  Stays(e, <<s, req[s].tfer - 1>>)
  <1> DEFINE w == <<s, req[s].tfer - 1>>
  <1>1. On(w) /\ req[s].next = req[s].total /\ w[1] = s /\ w[2] = req[s].tfer - 1
    BY DEF Ends
  <1>2. IsLast(w)
    BY <1>1 DEF IsLast
  <1> HIDE DEF w
  <1>3. w \notin Answered(e)
    BY <1>1, <1>2, DoneAnswered
  <1>4. Stays(e, w)
    BY <1>1, <1>3, AnsweredOrStays
  <1> QED BY <1>4 DEF w

\* What is destroyed was held, and its last transfer answered.
LEMMA GoneHeld ==
    ASSUME IInv, NEW e \in Engines, Suffix(e.list, engine.list), NEW g \in Gone(e)
    PROVE  /\ g \in Held /\ g \in Xfers /\ g[1] \in Done(e) /\ g[1] \in Segs /\ req[g[1]].live
           /\ \E z \in Answered(e) : /\ z \in Held /\ z[1] = g[1] /\ z[2] = req[g[1]].tfer - 1
                                     /\ (g = z \/ g[2] < z[2])
  <1>1. PICK s \in Done(e) : g \in {s} \X Looked(e, s)
    BY DEF Gone
  <1>2. s \in Segs /\ req[s].live
    BY DoneFacts
  <1>3. req[s].tfer \in 0 .. 2
    BY <1>2, Numbers DEF IInv, Types, Reqs
  <1>4. g[1] = s /\ g[2] \in 0 .. req[s].tfer - 1 /\ g = <<s, g[2]>> /\ g[2] \in {0, 1}
    <2>1. g[1] = s /\ g[2] \in Looked(e, s) /\ g = <<s, g[2]>>
      BY <1>1
    <2>2. Looked(e, s) \subseteq 0 .. req[s].tfer - 1
      BY DEF Looked
    <2>3. Looked(e, s) \subseteq {0, 1}
      BY <1>2, LookedIn
    <2> QED BY <2>1, <2>2, <2>3
  <1>5. g \in Xfers /\ g[2] < req[s].tfer
    <2>1. g \in Xfers
      BY <1>2, <1>4, XferOf
    <2> QED BY <1>3, <1>4, <2>1
  <1>6. g \in Held
    BY <1>2, <1>4, <1>5 DEF Held
  <1>7. PICK z \in Answered(e) : z[1] = s /\ IsLast(z)
    BY <1>2, DoneAnswered
  <1>8. z \in Xfers /\ z[2] \in {0, 1} /\ z = <<s, z[2]>> /\ z[2] = req[s].tfer - 1
    BY <1>7, XferParts DEF Answered, IsLast
  <1>9. z \in Held
    BY <1>2, <1>3, <1>7, <1>8 DEF Held
  <1>10. g = z \/ g[2] < z[2]
    <2>1. g[2] = z[2] \/ g[2] < z[2]
      BY <1>3, <1>4, <1>8
    <2> QED BY <1>4, <1>8, <2>1
  <1> QED BY <1>2, <1>4, <1>5, <1>6, <1>7, <1>8, <1>9, <1>10

\* The transfers that are destroyed were built before all that stay.
LEMMA GoneOlder ==
    ASSUME IInv, Ends, Ring, NEW e \in Engines, Suffix(e.list, engine.list),
           NEW g \in Gone(e), NEW y \in Held, y[1] \notin Done(e),
           Stays(e, y) \/ req[y[1]].live
    PROVE  Older(g, y)
  <1>1. /\ g \in Held /\ g[1] \in Done(e) /\ g[1] # y[1] /\ req[g[1]].live
    BY GoneHeld
  <1>2. PICK z \in Answered(e) : /\ z \in Held /\ z[1] = g[1] /\ (g = z \/ g[2] < z[2])
    BY GoneHeld
  <1>3. g = z \/ Older(g, z)
    BY <1>1, <1>2 DEF Ring, OwnOrder
  <1>4. Older(g, y) \/ Older(y, g)
    BY <1>1 DEF Ring, Apart
  <1>5. Placed
    BY DEF Ring
  <1>6. CASE Stays(e, y)
    <2>1. Older(z, y)
      BY <1>2, <1>6, AnsweredOlder
    <2>2. g = z \/ Older(g, y)
      BY <1>1, <1>2, <1>3, <1>5, <2>1, OlderOrder
    <2> QED BY <2>1, <2>2
  <1>7. CASE req[y[1]].live /\ Older(y, g)
    <2>1. y \in Xfers /\ y[1] \in Segs /\ y[2] \in {0, 1} /\ y = <<y[1], y[2]>>
      BY XferParts DEF Held
    <2>2. y[2] < req[y[1]].tfer /\ req[y[1]].tfer \in 0 .. 2
      BY <1>7, <2>1, HeldBuilt, Numbers DEF IInv, Types, Reqs
    <2>3. CASE Building(y[1])
      <3>1. Older(g, y)
        BY <1>1, <2>3 DEF Ring, NewestLast
      <3> QED BY <3>1
    <2>4. CASE ~Building(y[1])
      <3> DEFINE w == <<y[1], req[y[1]].tfer - 1>>
      <3>1. Stays(e, w)
        BY <1>7, <2>1, <2>4, LastStays
      <3>2. w[1] = y[1] /\ (y = w \/ y[2] < w[2])
        <4>1. y[2] = req[y[1]].tfer - 1 \/ y[2] < req[y[1]].tfer - 1
          BY <2>1, <2>2
        <4> QED BY <2>1, <4>1
      <3> HIDE DEF w
      <3>3. w \in Held /\ Older(z, w)
        BY <1>2, <3>1, AnsweredOlder
      <3>4. Older(g, w)
        BY <1>1, <1>2, <1>3, <1>5, <3>3, OlderOrder
      <3>5. y = w \/ Older(y, w)
        BY <3>2, <3>3 DEF Ring, OwnOrder
      <3>6. y # w \/ Older(g, y)
        BY <3>4
      <3>7. ~(Older(y, g) /\ Older(g, w))
        BY <1>1, <3>2, <3>3 DEF Ring, Unbroken
      <3> QED BY <1>7, <3>4, <3>7
    <2> QED BY <2>3, <2>4
  <1> QED BY <1>4, <1>6, <1>7

\* Descriptors that are destroyed lie behind each other in the part of the ring
\* in use, so that no more of them are returned than were taken.
LEMMA GoneCount ==
    ASSUME IInv, Ring, NEW e \in Engines, Suffix(e.list, engine.list), SameChains(e, engine),
           NEW L \in Nat, L <= engine.used,
           \A g \in Gone(e) : Back(g) - Num(g) >= L
    PROVE  /\ Cardinality(Descs(e, Gone(e))) \in Nat
           /\ Cardinality(Descs(e, Gone(e))) <= engine.used - L
  <1> DEFINE D == Descs(e, Gone(e))
             F(p) == Back(p[1]) - Num(p[1]) + p[2]
             f == [p \in D |-> F(p)]
             R == L + 1 .. engine.used
  <1>1. ASSUME NEW g \in Gone(e)
        PROVE  /\ g \in Held /\ Back(g) \in Int /\ Num(g) \in Nat
               /\ Back(g) <= engine.used /\ Back(g) - Num(g) >= L /\ e.xfer[g].num = Num(g)
    <2>1. g \in Held /\ g \in Xfers
      BY GoneHeld
    <2> QED BY <2>1, Place DEF Ring, Placed, SameChains, Num
  <1>2. ASSUME NEW p \in D
        PROVE  /\ p[1] \in Gone(e) /\ p[2] \in 1 .. Num(p[1]) /\ p = <<p[1], p[2]>>
    <2>1. PICK g \in Gone(e) : p \in {g} \X (1 .. e.xfer[g].num)
      BY DEF Descs
    <2> QED BY <1>1, <2>1
  <1>3. engine.used \in Int
    BY TypesOf DEF Engines
  <1> HIDE DEF D
  <1>4. ASSUME NEW p \in D PROVE F(p) \in R
    <2>1. PICK b, n, j : b = Back(p[1]) /\ n = Num(p[1]) /\ j = p[2]
      OBVIOUS
    <2>2. b \in Int /\ n \in Nat /\ j \in 1 .. n /\ b <= engine.used /\ b - n >= L
      BY <1>1, <1>2, <2>1
    <2>3. b - n + j \in R
      BY <1>3, <2>2
    <2> QED BY <2>1, <2>3
  <1>5. ASSUME NEW p \in D, NEW q \in D, F(p) = F(q) PROVE p = q
    <2>1. p[1] \in Gone(e) /\ q[1] \in Gone(e) /\ p = <<p[1], p[2]>> /\ q = <<q[1], q[2]>>
      BY <1>2
    <2>2. PICK b, n, j, c, m, k : /\ b = Back(p[1]) /\ n = Num(p[1]) /\ j = p[2]
                                  /\ c = Back(q[1]) /\ m = Num(q[1]) /\ k = q[2]
      OBVIOUS
    <2>3. /\ b \in Int /\ n \in Nat /\ j \in 1 .. n /\ c \in Int /\ m \in Nat /\ k \in 1 .. m
          /\ b - n + j = c - m + k
      BY <1>1, <1>2, <1>5, <2>1, <2>2
    <2>4. p[1] = q[1] \/ b - n >= c \/ c - m >= b
      BY <1>1, <2>1, <2>2 DEF Ring, Apart, Older
    <2>5. p[1] = q[1]
      BY <2>3, <2>4
    <2>6. j = k
      BY <2>2, <2>3, <2>5
    <2> QED BY <2>1, <2>2, <2>5, <2>6
  <1> HIDE DEF F
  <1>6. f \in Injection(D, R)
    BY <1>4, <1>5 DEF Injection, IsInjective
  <1>7. IsFiniteSet(R) /\ Cardinality(R) = engine.used - L
    <2>1. L + 1 \in Int /\ engine.used \in Int
      BY <1>3
    <2>2. /\ IsFiniteSet(R)
          /\ Cardinality(R) = IF L + 1 > engine.used THEN 0 ELSE engine.used - (L + 1) + 1
      BY <2>1, FS_Interval
    <2> HIDE DEF R
    <2> QED BY <1>3, <2>2
  <1> HIDE DEF R, f
  <1>8. IsFiniteSet(D) /\ Cardinality(D) <= engine.used - L
    BY <1>6, <1>7, FS_Injection
  <1>9. Cardinality(D) \in Nat
    BY <1>8, FS_CardinalityType
  <1> QED BY <1>8, <1>9 DEF D

\* What Complete does to the chains.
LEMMA CompletionChains ==
    ASSUME IInv, NEW e \in Engines, Suffix(e.list, engine.list), SameChains(e, engine),
           Complete(e), UNCHANGED submit
    PROVE  /\ engine'.list = e.list /\ engine'.idx = engine.idx
           /\ engine'.used = engine.used - Cardinality(Descs(e, Gone(e)))
           /\ \A x \in Xfers : x[1] \notin Done(e) => First(x)' = First(x) /\ Num(x)' = Num(x)
           /\ \A i \in Slots : (\A g \in Gone(e) : i \notin Chain(g)) =>
                                   engine'.ring[i] = engine.ring[i]
           /\ \A s \in Segs : s \notin Done(e) => req'[s] = req[s]
           /\ \A s \in Done(e) : ~req'[s].live
           /\ pc' = pc /\ cur' = cur
           /\ engine'.running = e.running /\ engine'.busy = e.busy /\ engine'.pos = e.pos
           /\ engine'.count = e.count /\ engine'.dequeued = e.dequeued
           /\ \A x \in Xfers : x[1] \notin Done(e) => engine'.xfer[x] = e.xfer[x]
  <1> DEFINE Of(x) == e.xfer[x].first .. e.xfer[x].first + e.xfer[x].num - 1
             used == e.used - Cardinality(Descs(e, Gone(e)))
             ring == [i \in Slots |-> IF \E x \in Gone(e) : i \in Of(x)
                                      THEN NoDescriptor ELSE e.ring[i]]
             xfer == [x \in Xfers |-> IF x[1] \in Done(e) THEN NoTransfer ELSE e.xfer[x]]
  <1>1. engine' = [e EXCEPT !.used = used, !.ring = ring, !.xfer = xfer]
    BY DEF Complete, xdma_xfer_completion, Gone
  <1>2. \A g \in Gone(e) : Of(g) = Chain(g)
    BY GoneHeld DEF SameChains, Chain, First, Num
  <1>3. ASSUME NEW i \in Slots, \A g \in Gone(e) : i \notin Chain(g)
        PROVE  ring[i] = engine.ring[i]
    BY <1>2, <1>3 DEF SameChains
  <1>4. ASSUME NEW x \in Xfers, x[1] \notin Done(e)
        PROVE  xfer[x] = e.xfer[x] /\ xfer[x].first = First(x) /\ xfer[x].num = Num(x)
    BY <1>4 DEF SameChains, First, Num
  <1>5. used = engine.used - Cardinality(Descs(e, Gone(e)))
    BY DEF SameChains
  <1> HIDE DEF used, ring, xfer
  <1>6. /\ engine'.list = e.list /\ engine'.idx = e.idx /\ engine'.used = used
        /\ engine'.ring = ring /\ engine'.xfer = xfer
        /\ engine'.running = e.running /\ engine'.busy = e.busy /\ engine'.pos = e.pos
        /\ engine'.count = e.count /\ engine'.dequeued = e.dequeued
    BY <1>1 DEF Engines
  <1>7. \A x \in Xfers : x[1] \notin Done(e) => First(x)' = First(x) /\ Num(x)' = Num(x)
    BY <1>4, <1>6 DEF First, Num
  <1>8. engine'.idx = engine.idx
    BY <1>6 DEF SameChains
  <1>9. /\ \A s \in Segs : s \notin Done(e) => req'[s] = req[s]
        /\ \A s \in Done(e) : ~req'[s].live
    <2>1. req' = [s \in Segs |-> IF s \in Done(e) THEN [req[s] EXCEPT !.live = FALSE] ELSE req[s]]
      BY DEF Complete
    <2>2. \A s \in Done(e) : s \in Segs
      BY DoneFacts
    <2>3. \A s \in Segs : ~[req[s] EXCEPT !.live = FALSE].live
      BY DEF IInv, Types, Reqs
    <2> QED BY <2>1, <2>2, <2>3
  <1> QED BY <1>3, <1>4, <1>5, <1>6, <1>7, <1>8, <1>9 DEF submit

\* Completing requests keeps what is left in its order: only chains older than
\* all others are zeroed, and desc_used falls by no more than they are long.
LEMMA CompleteRing ==
    ASSUME IInv, IInv', PartsInv, PartsInv', RingInv, Orderly' => Orderly, NEW e \in Engines,
           Suffix(e.list, engine.list), SameChains(e, engine), Complete(e), UNCHANGED submit
    PROVE  RingInv'
  <1>1. /\ engine'.list = e.list /\ engine'.idx = engine.idx
        /\ engine'.used = engine.used - Cardinality(Descs(e, Gone(e)))
        /\ \A x \in Xfers : x[1] \notin Done(e) => First(x)' = First(x) /\ Num(x)' = Num(x)
        /\ \A i \in Slots : (\A g \in Gone(e) : i \notin Chain(g)) =>
                                engine'.ring[i] = engine.ring[i]
        /\ \A s \in Segs : s \notin Done(e) => req'[s] = req[s]
        /\ \A s \in Done(e) : ~req'[s].live
        /\ pc' = pc /\ cur' = cur
    BY CompletionChains
  <1>2. \A x : On(x)' <=> Stays(e, x)
    BY <1>1 DEF On, Stays
  <1>3. \A x : Stays(e, x) => x \in Xfers /\ x[1] \notin Done(e)
    <2> SUFFICES ASSUME NEW l \in 1 .. Len(e.list)
                 PROVE  e.list[l] \in Xfers /\ e.list[l][1] \notin Done(e)
      BY DEF Stays
    <2>1. e.list \in Seq(Xfers)
      BY DEF Engines
    <2> QED BY <2>1, ElementOfSeq, DoneFacts
  <1>4. \A x : Stays(e, x) => On(x)
    <2> SUFFICES ASSUME NEW l \in 1 .. Len(e.list) PROVE On(e.list[l])
      BY DEF Stays
    <2> DEFINE n == Len(engine.list)
               m == Len(e.list)
    <2>1. n \in Nat /\ m \in Nat /\ m <= n /\ e.list[l] = engine.list[n - m + l]
      BY TypesOf, LenProperties DEF Engines, Suffix
    <2>2. n - m + l \in 1 .. n
      BY <2>1, Positions
    <2> QED BY <2>1, <2>2 DEF On
  <1>5. \A x \in Held' : /\ x \in Held /\ x[1] \notin Done(e) /\ x \in Xfers /\ x[1] \in Segs
                         /\ (Stays(e, x) \/ req[x[1]].live)
    <2> SUFFICES ASSUME NEW x \in Held'
                 PROVE  /\ x \in Held /\ x[1] \notin Done(e) /\ x \in Xfers /\ x[1] \in Segs
                        /\ (Stays(e, x) \/ req[x[1]].live)
      OBVIOUS
    <2>1. x \in Xfers /\ x[1] \in Segs
      BY XferParts DEF Held
    <2>2. On(x)' \/ (req'[x[1]].live /\ x[2] < req'[x[1]].tfer)
      BY DEF Held
    <2>3. x[1] \notin Done(e)
      BY <1>1, <1>2, <1>3, <2>2
    <2>4. req'[x[1]] = req[x[1]]
      BY <1>1, <2>1, <2>3
    <2> QED BY <1>2, <1>4, <2>1, <2>2, <2>3, <2>4 DEF Held
  <1>6. \A s : Building(s)' <=> Building(s)
    BY <1>1 DEF Building, Seg
  <1>7. Ends'
    <2> SUFFICES ASSUME NEW s \in Segs, req'[s].live, ~Building(s)'
                 PROVE  On(<<s, req[s].tfer - 1>>)' /\ req'[s].next = req'[s].total
      BY DEF Ends
    <2>1. s \notin Done(e) /\ req'[s] = req[s] /\ req[s].live /\ ~Building(s)
      BY <1>1, <1>6
    <2>2. Stays(e, <<s, req[s].tfer - 1>>)
      BY <2>1, LastStays DEF RingInv
    <2>3. Stays(e, <<s, req'[s].tfer - 1>>)
      BY <2>1, <2>2
    <2>4. req[s].next = req[s].total
      BY <2>1 DEF RingInv, Ends
    <2> QED BY <1>1, <2>1, <2>3, <2>4 DEF On, Stays
  <1>8. ASSUME Orderly' PROVE Ring'
    <2>1. Ring /\ Ends
      BY <1>8 DEF RingInv
    <2>2. /\ Placed /\ engine.used \in Int /\ engine.used >= 0
          /\ \A x \in Held : Back(x) \in Int /\ Num(x) \in Nat /\ Num(x) <= Back(x)
                             /\ Num(x) > 0 /\ Back(x) <= engine.used
                             /\ First(x) \in 0 .. DescMax - 1 /\ First(x) + Num(x) <= DescMax
      <3>1. \A x \in Held : x \in Xfers
        BY DEF Held
      <3>2. engine.used \in Int
        BY TypesOf DEF Engines
      <3> QED BY <2>1, <3>1, <3>2, Place DEF Ring, Placed
    <2>3. \A g \in Gone(e), y \in Held' : Older(g, y)
      BY <1>5, <2>1, GoneOlder
    <2>4. \A g \in Gone(e) : g \in Held
      BY GoneHeld
    <2>5. engine'.used >= 0
      <3>1. \A g \in Gone(e) : Back(g) - Num(g) >= 0
        BY <2>2, <2>4
      <3>2. /\ Cardinality(Descs(e, Gone(e))) \in Nat
            /\ Cardinality(Descs(e, Gone(e))) <= engine.used - 0
        BY <2>1, <2>2, <3>1, GoneCount
      <3> QED BY <1>1, <2>2, <3>2
    <2>6. ASSUME NEW y \in Held' PROVE Back(y) <= engine'.used
      <3>1. y \in Held
        BY <1>5
      <3>2. Back(y) \in Nat /\ Back(y) <= engine.used
        BY <2>2, <3>1
      <3>3. \A g \in Gone(e) : Back(g) - Num(g) >= Back(y)
        BY <2>3 DEF Older
      <3>4. /\ Cardinality(Descs(e, Gone(e))) \in Nat
            /\ Cardinality(Descs(e, Gone(e))) <= engine.used - Back(y)
        BY <2>1, <3>2, <3>3, GoneCount
      <3> QED BY <1>1, <2>2, <3>2, <3>4
    <2>7. ASSUME NEW y \in Held', NEW i \in Chain(y) PROVE engine'.ring[i] = engine.ring[i]
      <3>1. y \in Held
        BY <1>5
      <3>2. i \in Slots
        <4>1. /\ First(y) \in 0 .. DescMax - 1 /\ Num(y) \in Nat /\ First(y) + Num(y) <= DescMax
              /\ DescMax \in Nat
          BY <2>2, <3>1, Numbers
        <4> QED BY <4>1 DEF Chain, Slots
      <3>3. \A g \in Gone(e) : i \notin Chain(g)
        BY <2>2, <2>3, <2>4, <3>1, ChainsApart
      <3> QED BY <1>1, <3>2, <3>3
    <2>8. \A x \in Held' : Unqueued(x)' => Unqueued(x)
      BY <1>1, <1>5 DEF Unqueued, Seg
    <2>9. ASSUME NEW k \in 1 .. Len(engine'.list), NEW l \in 1 .. Len(engine'.list), k < l
          PROVE  \E x, y \in Held' :
                     x = engine'.list[k] /\ y = engine'.list[l] /\ Older(x, y)
      <3>1. PICK x, y : x = engine'.list[k] /\ y = engine'.list[l]
        OBVIOUS
      <3>2. Older(x, y)
        BY <1>1, <2>1, <2>9, <3>1, AnsweredOlder
      <3>3. Stays(e, x) /\ Stays(e, y)
        BY <1>1, <3>1 DEF Stays
      <3>4. On(x)' /\ On(y)' /\ x \in Xfers /\ y \in Xfers
        BY <1>2, <1>3, <3>3
      <3>5. x \in Held' /\ y \in Held'
        BY <3>4 DEF Held
      <3> QED BY <3>1, <3>2, <3>5
    <2>10. ASSUME NEW x \in Held'
           PROVE  /\ First(x)' = First(x) /\ Num(x)' = Num(x) /\ Back(x) <= engine'.used
                  /\ Building(x[1])' => Building(x[1])
                  /\ On(x)' \/ Unqueued(x)' => On(x) \/ Unqueued(x)
                  /\ \A i \in Chain(x) : engine'.ring[i] = engine.ring[i]
      <3>1. First(x)' = First(x) /\ Num(x)' = Num(x)
        BY <1>1, <1>5
      <3>2. On(x)' => On(x)
        BY <1>2, <1>4
      <3> QED BY <1>6, <2>6, <2>7, <2>8, <3>1, <3>2
    <2>11. Held' \subseteq Held
      BY <1>5
    <2> QED BY <1>1, <2>1, <2>5, <2>9, <2>10, <2>11, RingKept
  <1> QED BY <1>7, <1>8 DEF RingInv

-----------------------------------------------------------------------------
(* The transfers of a request have what was built of it. *)

\* A transfer is queued: it is the only one that comes to the list.
LEMMA QueueIs ==
    ASSUME IInv, NEW i \in Iocbs, Queue(i)
    PROVE  /\ Xfer(i) \in Xfers /\ Xfer(i)[1] = Seg(i) /\ Xfer(i)[2] = req[Seg(i)].tfer - 1
           /\ Seg(i) \in Segs /\ req[Seg(i)].live /\ req' = req /\ Unqueued(Xfer(i))
           /\ engine' = transfer_queue(engine, Xfer(i)) /\ SameChains(engine', engine)
           /\ engine'.list = Append(engine.list, Xfer(i))
           /\ \A x : On(x)' <=> On(x) \/ x = Xfer(i)
  <1> DEFINE s == Seg(i)
             u == Xfer(i)
             n == Len(engine.list)
  <1>1. pc[i] = "admit" /\ req' = req /\ engine' = transfer_queue(engine, u)
    BY DEF Queue, requests
  <1>2. s \in Segs /\ s[1] = i /\ req[s] \in Reqs /\ req[s].live /\ req[s].tfer > 0
    BY <1>1, SegFacts DEF IInv, Submitting, Busy
  <1>3. req[s].tfer - 1 \in {0, 1}
    BY <1>2, Numbers DEF Reqs
  <1>4. u \in Xfers /\ u[1] = s /\ u[2] = req[s].tfer - 1
    BY <1>2, <1>3, XferOf DEF Xfer
  <1>5. Unqueued(u)
    BY <1>1, <1>2, <1>4 DEF Unqueued
  <1>6. engine \in Engines /\ engine.list \in Seq(Xfers) /\ n \in Nat
    BY TypesOf, LenProperties DEF Engines
  <1> HIDE DEF u
  <1>7. engine'.list = Append(engine.list, u) /\ SameChains(engine', engine)
    BY <1>1, <1>4, <1>6, QueueFields
  <1>8. /\ Len(Append(engine.list, u)) = n + 1
        /\ \A k \in 1 .. n : Append(engine.list, u)[k] = engine.list[k]
        /\ Append(engine.list, u)[n + 1] = u
    BY <1>4, <1>6, AppendProperties
  <1>9. \A x : On(x)' <=> On(x) \/ x = u
    <2>1. Len(engine'.list) = n + 1 /\ \A k \in 1 .. n : engine'.list[k] = engine.list[k]
      BY <1>7, <1>8
    <2>2. engine'.list[n + 1] = u
      BY <1>7, <1>8
    <2> HIDE DEF n
    <2>3. \A k : k \in 1 .. n + 1 <=> k \in 1 .. n \/ k = n + 1
      BY <1>6
    <2> QED BY <2>1, <2>2, <2>3 DEF On, n
  <1> QED BY <1>1, <1>2, <1>4, <1>5, <1>7, <1>9 DEF u

\* A refused request is freed with the transfer that was not queued.
LEMMA RefusedIs ==
    ASSUME IInv, NEW i \in Iocbs, QueueRefused(i)
    PROVE  /\ Xfer(i)[1] = Seg(i) /\ Xfer(i)[2] = req[Seg(i)].tfer - 1 /\ Unqueued(Xfer(i))
           /\ Seg(i) \in Segs /\ req[Seg(i)].live /\ req'[Seg(i)] = NoReq
           /\ \A t \in Segs : t # Seg(i) => req'[t] = req[t]
           /\ \A x \in Xfers : x # Xfer(i) => engine'.xfer[x] = engine.xfer[x]
           /\ engine'.list = engine.list /\ engine'.running = engine.running
           /\ engine'.busy = engine.busy /\ engine'.pos = engine.pos
           /\ engine'.count = engine.count /\ engine'.dequeued = engine.dequeued
           /\ engine'.ring = engine.ring
  <1> DEFINE s == Seg(i)
             u == Xfer(i)
  <1>1. /\ pc[i] \in {"queue", "admit"}
        /\ engine' = [engine EXCEPT !.xfer[u] = NoTransfer]
        /\ req' = [req EXCEPT ![s] = NoReq]
    BY DEF QueueRefused
  <1>2. s \in Segs /\ s[1] = i /\ req \in [Segs -> Reqs] /\ req[s].live
    BY <1>1, SegFacts DEF IInv, Submitting, Busy
  <1>3. u[1] = s /\ u[2] = req[s].tfer - 1
    BY DEF Xfer
  <1>4. Unqueued(u)
    BY <1>1, <1>2, <1>3 DEF Unqueued
  <1>5. /\ engine'.list = engine.list /\ engine'.running = engine.running
        /\ engine'.busy = engine.busy /\ engine'.pos = engine.pos
        /\ engine'.count = engine.count /\ engine'.dequeued = engine.dequeued
        /\ engine'.ring = engine.ring
        /\ \A x \in Xfers : x # u => engine'.xfer[x] = engine.xfer[x]
    <2>1. engine \in Engines
      BY TypesOf
    <2> DEFINE xfer == [engine.xfer EXCEPT ![u] = NoTransfer]
    <2>2. \A x \in Xfers : x # u => xfer[x] = engine.xfer[x]
      BY <2>1 DEF Engines
    <2>3. engine' = [engine EXCEPT !.xfer = xfer]
      BY <1>1
    <2> HIDE DEF xfer, u
    <2> QED BY <2>1, <2>2, <2>3 DEF Engines
  <1> HIDE DEF u, s
  <1>6. req'[s] = NoReq /\ \A t \in Segs : t # s => req'[t] = req[t]
    BY <1>1, <1>2
  <1> QED BY <1>2, <1>3, <1>4, <1>5, <1>6 DEF u, s

\* A step that leaves the numbers of the live requests alone.
LEMMA PartsKept ==
    ASSUME PartsInv,
           \A s \in Segs : req'[s].live => req[s].live /\ req'[s] = req[s],
           \A x \in Xfers : req'[x[1]].live => Num(x)' = Num(x),
           \A x \in Xfers : On(x)' => (On(x) /\ req'[x[1]] = req[x[1]])
                                      \/ req'[x[1]].live \/ x[2] = 0
    PROVE  PartsInv'
  <1>1. Parts'
    <2> SUFFICES ASSUME NEW s \in Segs, req'[s].live
                 PROVE  /\ req'[s].next <= req'[s].total
                        /\ req'[s].tfer = 0 => req'[s].next = 0
                        /\ req'[s].tfer = 1 => req'[s].next = engine'.xfer[<<s, 0>>].num
                        /\ req'[s].tfer = 2 => req'[s].next = engine'.xfer[<<s, 0>>].num
                                                              + engine'.xfer[<<s, 1>>].num
      BY DEF Parts, Num
    <2>1. req'[s] = req[s] /\ req[s].live
      OBVIOUS
    <2>2. engine'.xfer[<<s, 0>>].num = engine.xfer[<<s, 0>>].num
          /\ engine'.xfer[<<s, 1>>].num = engine.xfer[<<s, 1>>].num
      <3>1. <<s, 0>> \in Xfers /\ <<s, 0>>[1] = s /\ <<s, 1>> \in Xfers /\ <<s, 1>>[1] = s
        BY XferOf
      <3> QED BY <3>1 DEF Num
    <2> QED BY <2>1, <2>2 DEF PartsInv, Parts, Num
  <1>2. Orphans'
    BY DEF PartsInv, Orphans
  <1> QED BY <1>1, <1>2 DEF PartsInv

\* The engine, the hardware, the thread, resets, and submitters that go on.
LEMMA QuietParts ==
    ASSUME PartsInv, req' = req, SameChains(engine', engine), engine'.list = engine.list
    PROVE  PartsInv'
  <1>1. \A x \in Xfers : Num(x)' = Num(x)
    BY DEF SameChains, Num
  <1>2. \A x : On(x)' <=> On(x)
    BY DEF On
  <1> QED BY <1>1, <1>2, PartsKept

\* A new request has no parts,
LEMMA SubmitParts ==
    ASSUME IInv, PartsInv, NEW i \in Iocbs, NEW n \in 1 .. MaxDescs, Submit(i, n)
    PROVE  PartsInv'
  <1> DEFINE s == Seg(i)
  <1>1. /\ pc[i] = "seg" /\ engine' = engine
        /\ req' = [req EXCEPT ![s] = [NoReq EXCEPT !.live = TRUE, !.total = n]]
    BY DEF Submit, driver
  <1>2. s \in Segs /\ s[1] = i /\ req[s] = NoReq /\ Ahead(s) /\ req \in [Segs -> Reqs]
    BY <1>1, SegFacts DEF Ahead, IInv, Submitting
  <1>3. /\ req'[s].tfer = 0 /\ req'[s].next = 0 /\ req'[s].total = n
        /\ \A t \in Segs : t # s => req'[t] = req[t]
    BY <1>1, <1>2 DEF NoReq
  <1>4. \A x \in Xfers : On(x)' => On(x) /\ x[1] \in Segs /\ x[1] # s
    BY <1>1, <1>2, XferParts DEF On, IInv, Listed
  <1>5. Parts'
    <2> SUFFICES ASSUME NEW t \in Segs, req'[t].live
                 PROVE  /\ req'[t].next <= req'[t].total
                        /\ req'[t].tfer = 0 => req'[t].next = 0
                        /\ req'[t].tfer = 1 => req'[t].next = engine.xfer[<<t, 0>>].num
                        /\ req'[t].tfer = 2 => req'[t].next = engine.xfer[<<t, 0>>].num
                                                              + engine.xfer[<<t, 1>>].num
      BY <1>1 DEF Parts, Num
    <2>1. CASE t = s
      BY <1>3, <2>1, Numbers
    <2>2. CASE t # s
      BY <1>3, <2>2 DEF PartsInv, Parts, Num
    <2> QED BY <2>1, <2>2
  <1>6. Orphans'
    <2> HIDE DEF s
    <2> QED BY <1>3, <1>4 DEF PartsInv, Orphans
  <1> QED BY <1>5, <1>6 DEF PartsInv

\* and transfer_init adds one.
LEMMA BuildParts ==
    ASSUME IInv, PartsInv, NEW i \in Iocbs, Build(i)
    PROVE  PartsInv'
  <1> DEFINE s == Seg(i)
  <1>1. PICK new, num : Built(i, new, num)
    BY BuildIs
  <1>2. /\ new = <<s, req[s].tfer>> /\ new[1] = s /\ new[2] = req[s].tfer
        /\ s \in Segs /\ req[s].live /\ req'[s].live /\ req'[s].tfer = req[s].tfer + 1
        /\ req[s].tfer \in {0, 1} /\ req[s].next \in Nat /\ req[s].total \in Nat
        /\ num \in 1 .. req[s].total - req[s].next
        /\ req'[s].next = req[s].next + num /\ req'[s].total = req[s].total
        /\ \A t \in Segs : t # s => req'[t] = req[t]
        /\ engine'.list = engine.list /\ engine'.xfer[new].num = num
        /\ \A x \in Xfers : x # new => engine'.xfer[x] = engine.xfer[x]
    BY <1>1 DEF Built
  <1> HIDE DEF s
  <1>3. ASSUME NEW t \in Segs, req'[t].live
        PROVE  /\ req'[t].next <= req'[t].total
               /\ req'[t].tfer = 0 => req'[t].next = 0
               /\ req'[t].tfer = 1 => req'[t].next = engine'.xfer[<<t, 0>>].num
               /\ req'[t].tfer = 2 => req'[t].next = engine'.xfer[<<t, 0>>].num
                                                     + engine'.xfer[<<t, 1>>].num
    <2>1. /\ <<t, 0>> \in Xfers /\ <<t, 0>>[1] = t /\ <<t, 0>>[2] = 0
          /\ <<t, 1>> \in Xfers /\ <<t, 1>>[1] = t /\ <<t, 1>>[2] = 1
      BY XferOf
    <2>2. CASE t = s
      <3>1. req'[t].next <= req'[t].total
        BY <1>2, <2>2
      <3>2. CASE req[s].tfer = 0
        <4>1. req[s].next = 0 /\ new = <<t, 0>>
          BY <1>2, <2>2, <3>2 DEF PartsInv, Parts
        <4>2. engine'.xfer[<<t, 0>>].num = num /\ req'[t].tfer = 1 /\ req'[t].next = num
          BY <1>2, <2>2, <3>2, <4>1
        <4> QED BY <3>1, <4>2
      <3>3. CASE req[s].tfer = 1
        <4>1. req[s].next = engine.xfer[<<t, 0>>].num /\ new = <<t, 1>>
          BY <1>2, <2>2, <3>3 DEF PartsInv, Parts, Num
        <4>2. <<t, 0>> # new
          BY <1>2, <2>1, <3>3
        <4>3. engine'.xfer[<<t, 0>>].num = engine.xfer[<<t, 0>>].num
          BY <1>2, <2>1, <4>2
        <4>4. engine'.xfer[<<t, 1>>].num = num /\ req'[t].tfer = 2
          BY <1>2, <2>2, <3>3, <4>1
        <4>5. req'[t].next = engine'.xfer[<<t, 0>>].num + engine'.xfer[<<t, 1>>].num
          BY <1>2, <2>2, <4>1, <4>3, <4>4
        <4> QED BY <3>1, <4>4, <4>5
      <3> QED BY <1>2, <3>2, <3>3
    <2>3. CASE t # s
      <3>1. <<t, 0>> # new /\ <<t, 1>> # new
        BY <1>2, <2>1, <2>3
      <3>2. /\ engine'.xfer[<<t, 0>>] = engine.xfer[<<t, 0>>]
            /\ engine'.xfer[<<t, 1>>] = engine.xfer[<<t, 1>>]
        BY <1>2, <2>1, <3>1
      <3>3. req'[t] = req[t] /\ req[t].live
        BY <1>2, <1>3, <2>3
      <3> QED BY <3>2, <3>3 DEF PartsInv, Parts, Num
    <2> QED BY <2>2, <2>3
  <1>4. Parts'
    BY <1>3 DEF Parts, Num
  <1>5. \A x : On(x)' <=> On(x)
    BY <1>2 DEF On
  <1>6. Orphans'
    <2>1. \A x \in Xfers : x[1] \in Segs
      BY XferParts
    <2> QED BY <1>2, <1>5, <2>1 DEF PartsInv, Orphans
  <1> QED BY <1>4, <1>6 DEF PartsInv

\* A request that is refused has had one transfer queued at most.
LEMMA RefusedParts ==
    ASSUME IInv, PartsInv, NEW i \in Iocbs, QueueRefused(i)
    PROVE  PartsInv'
  <1> DEFINE s == Seg(i)
             u == Xfer(i)
  <1>1. /\ u[1] = s /\ u[2] = req[s].tfer - 1 /\ Unqueued(u)
        /\ s \in Segs /\ req[s].live /\ req'[s] = NoReq
        /\ \A t \in Segs : t # s => req'[t] = req[t]
        /\ \A x \in Xfers : x # u => engine'.xfer[x] = engine.xfer[x]
        /\ engine'.list = engine.list
    BY RefusedIs
  <1> HIDE DEF s, u
  <1>2. ~req'[s].live
    BY <1>1 DEF NoReq
  <1>3. \A x : On(x)' <=> On(x)
    BY <1>1 DEF On
  <1>4. ASSUME NEW x \in Xfers, On(x), x[1] = s PROVE x[2] = 0
    <2>1. PICK k \in 1 .. Len(engine.list) : engine.list[k] = x
      BY <1>4 DEF On
    <2>2. ~Unqueued(x) /\ ((req[s].live /\ x[2] < req[s].tfer) \/ req[s] = NoReq)
      BY <1>4, <2>1 DEF IInv, Listed
    <2>3. x[2] < req[s].tfer
      BY <1>1, <2>2 DEF NoReq
    <2>4. x[2] # req[s].tfer - 1
      BY <1>1, <1>4, <2>2 DEF Unqueued
    <2>5. x[2] \in {0, 1} /\ req[s].tfer \in 0 .. 2
      BY <1>1, XferParts, Numbers DEF IInv, Types, Reqs
    <2> QED BY <2>3, <2>4, <2>5
  <1>5. \A x \in Xfers : req'[x[1]].live => Num(x)' = Num(x)
    BY <1>1, <1>2 DEF Num
  <1>6. \A t \in Segs : req'[t].live => req[t].live /\ req'[t] = req[t]
    BY <1>1, <1>2
  <1>7. \A x \in Xfers : On(x)' => (On(x) /\ req'[x[1]] = req[x[1]])
                                   \/ req'[x[1]].live \/ x[2] = 0
    BY <1>1, <1>3, <1>4, XferParts
  <1> QED BY <1>5, <1>6, <1>7, PartsKept

\* The request of a transfer that is queued is live.
LEMMA QueueParts ==
    ASSUME IInv, PartsInv, NEW i \in Iocbs, Queue(i)
    PROVE  PartsInv'
  <1>1. /\ Xfer(i)[1] = Seg(i) /\ req[Seg(i)].live /\ req' = req
        /\ SameChains(engine', engine) /\ \A x : On(x)' <=> On(x) \/ x = Xfer(i)
    BY QueueIs
  <1>2. \A x \in Xfers : Num(x)' = Num(x)
    BY <1>1 DEF SameChains, Num
  <1> QED BY <1>1, <1>2, PartsKept

\* Engine_service goes to an engine with fewer transfers and the same chains.
LEMMA AnswerIs ==
    ASSUME IInv, ServiceTransfers \/ PollAnswer
    PROVE  \E e \in Engines : /\ Suffix(e.list, engine.list) /\ SameChains(e, engine)
                              /\ Complete(e) /\ UNCHANGED submit
  <1>1. CASE ServiceTransfers
    <2> DEFINE e == answer_transfers(engine, engine.count)
               f == [e EXCEPT !.irq = TRUE]
    <2>1. e \in Engines /\ Suffix(e.list, engine.list) /\ SameChains(e, engine)
      BY TypesOf, AnsweredFields
    <2>2. Complete(f) /\ UNCHANGED submit
      BY <1>1 DEF ServiceTransfers, service_transfers
    <2> HIDE DEF e
    <2>3. Kept(f, e)
      BY <2>1, StatusFields
    <2> HIDE DEF f
    <2>4. f \in Engines /\ Suffix(f.list, engine.list) /\ SameChains(f, engine)
      BY <2>1, <2>3 DEF Kept, SameChains
    <2> QED BY <2>2, <2>4
  <1>2. CASE PollAnswer
    <2> DEFINE count == IF got.count # 0 THEN got.count ELSE engine.count
               e == answer_transfers(engine, count)
    <2>1. count \in Nat
      BY TypesOf DEF WriteBacks
    <2>2. Complete(e) /\ UNCHANGED submit
      BY <1>2 DEF PollAnswer
    <2> HIDE DEF count
    <2>3. e \in Engines /\ Suffix(e.list, engine.list) /\ SameChains(e, engine)
      BY <2>1, TypesOf, AnsweredFields
    <2> HIDE DEF e
    <2> QED BY <2>2, <2>3
  <1> QED BY <1>1, <1>2

\* What stays on the list was on it, for a request that is not completed.
LEMMA StaysOn ==
    ASSUME IInv, NEW e \in Engines, Suffix(e.list, engine.list), NEW x, Stays(e, x)
    PROVE  On(x) /\ x \in Xfers /\ x[1] \notin Done(e)
  <1> DEFINE n == Len(engine.list)
             m == Len(e.list)
  <1>1. PICK l \in 1 .. m : e.list[l] = x
    BY DEF Stays
  <1>2. n \in Nat /\ m \in Nat /\ m <= n /\ e.list[l] = engine.list[n - m + l]
    BY TypesOf, LenProperties DEF Engines, Suffix
  <1>3. n - m + l \in 1 .. n
    BY <1>2, Positions
  <1>4. On(x)
    BY <1>1, <1>2, <1>3 DEF On
  <1>5. x \in Xfers
    BY <1>1, ElementOfSeq DEF Engines
  <1>6. x[1] \notin Done(e)
    BY <1>1, DoneFacts
  <1> QED BY <1>4, <1>5, <1>6

\* Completion keeps the requests that it does not complete.
LEMMA AnswerParts ==
    ASSUME IInv, PartsInv, ServiceTransfers \/ PollAnswer
    PROVE  PartsInv'
  <1>1. PICK e \in Engines : /\ Suffix(e.list, engine.list) /\ SameChains(e, engine)
                             /\ Complete(e) /\ UNCHANGED submit
    BY AnswerIs
  <1>2. /\ engine'.list = e.list
        /\ \A x \in Xfers : x[1] \notin Done(e) => Num(x)' = Num(x)
        /\ \A s \in Segs : s \notin Done(e) => req'[s] = req[s]
        /\ \A s \in Done(e) : ~req'[s].live
    BY <1>1, CompletionChains
  <1>3. \A x \in Xfers : On(x)' => On(x) /\ x[1] \notin Done(e) /\ x[1] \in Segs
    <2>1. \A x : On(x)' <=> Stays(e, x)
      BY <1>2 DEF On, Stays
    <2> QED BY <1>1, <2>1, StaysOn, XferParts
  <1> QED BY <1>2, <1>3, PartsKept

\* Initially there is no request,
LEMMA PartsInit == Init => PartsInv
  <1> SUFFICES ASSUME Init PROVE PartsInv
    OBVIOUS
  <1>1. engine = [EngineInit EXCEPT !.idx = DescMax - 1]
    BY DEF Init
  <1>2. engine.list = <<>>
    BY <1>1 DEF EngineInit
  <1>3. Len(engine.list) = 0
    BY <1>2
  <1>4. \A s \in Segs : ~req[s].live
    BY DEF Init, NoReq
  <1> QED BY <1>3, <1>4 DEF PartsInv, Parts, Orphans, On

\* and every step keeps the parts of all.
LEMMA PartsNext == IInv /\ PartsInv /\ [Next]_vars => PartsInv'
  <1> SUFFICES ASSUME IInv, PartsInv, [Next]_vars PROVE PartsInv'
    OBVIOUS
  <1>1. ASSUME NEW i \in Iocbs, \/ \E n \in 1 .. MaxSegs[i] : AioStart(i, n)
                                \/ AlignFailed(i) \/ MapFailed(i) \/ SubmitRefused(i)
                                \/ CheckOnline(i) \/ Wakeup(i)
        PROVE  PartsInv'
    <2>1. engine' = engine /\ req' = req
      BY <1>1 DEF AioStart, AlignFailed, MapFailed, SubmitRefused, CheckOnline, Wakeup, driver,
                  requests
    <2>2. SameChains(engine', engine) /\ engine'.list = engine.list
      BY <2>1 DEF SameChains
    <2> QED BY <2>1, <2>2, QuietParts
  <1>2. ASSUME NEW i \in Iocbs, Proceed(i) PROVE PartsInv'
    BY <1>1, <1>2, SubmitParts, BuildParts, QueueParts, RefusedParts DEF Proceed
  <1>3. CASE ServiceTransfers \/ PollAnswer
    BY <1>3, AnswerParts
  <1>4. CASE \/ xdma_isr \/ ServiceStatus \/ PollStatus \/ PollTimeout
             \/ PollCheck \/ PollWake \/ PollProc \/ PollRead \/ PollClear
             \/ OfflineFlag \/ OfflineStop \/ Online \/ Hardware \/ UNCHANGED vars
    <2>1. Quiet
      BY <1>4, OthersQuiet
    <2>2. req' = req /\ SameChains(engine', engine) /\ engine'.list = engine.list
      BY <2>1 DEF Quiet, Kept, requests
    <2> QED BY <2>2, QuietParts
  <1> QED BY <1>1, <1>2, <1>3, <1>4 DEF Next, Interrupts, Poll

-----------------------------------------------------------------------------
(* The ring, by every step *)

\* By the bottom half or by the polling thread.
LEMMA AnswerRing ==
    ASSUME IInv, IInv', PartsInv, PartsInv', RingInv, Orderly' => Orderly,
           ServiceTransfers \/ PollAnswer
    PROVE  RingInv'
  <1>1. PICK e \in Engines : /\ Suffix(e.list, engine.list) /\ SameChains(e, engine)
                             /\ Complete(e) /\ UNCHANGED submit
    BY AnswerIs
  <1> QED BY <1>1, CompleteRing

\* The ring is in order initially,
LEMMA RingInit == Init => RingInv
  <1> SUFFICES ASSUME Init PROVE RingInv
    OBVIOUS
  <1>1. engine.list = <<>> /\ engine.used = 0
    <2>1. engine = [EngineInit EXCEPT !.idx = DescMax - 1]
      BY DEF Init
    <2> QED BY <2>1 DEF EngineInit
  <1>2. \A s \in Segs : ~req[s].live
    BY DEF Init, NoReq
  <1>3. Len(engine.list) = 0
    BY <1>1
  <1>4. \A x : ~On(x)
    BY <1>3 DEF On
  <1>5. Held = {}
    BY <1>2, <1>4, XferParts DEF Held
  <1>6. Ring
    BY <1>1, <1>3, <1>5 DEF Ring, Placed, Apart, ListOrder, OwnOrder, Unbroken, NewestLast, Chains
  <1> QED BY <1>2, <1>6 DEF RingInv, Ends

\* and every step keeps it so.
LEMMA RingNext == IInv /\ PartsInv /\ RingInv /\ [Next]_vars => RingInv'
  <1> SUFFICES ASSUME IInv, PartsInv, RingInv, [Next]_vars PROVE RingInv'
    OBVIOUS
  <1>0. IInv' /\ PartsInv' /\ (Orderly' => Orderly)
    BY InvNext, PartsNext, SeenGrows
  <1>1. ASSUME NEW i \in Iocbs, NEW n \in 1 .. MaxSegs[i], AioStart(i, n) PROVE RingInv'
    BY <1>0, <1>1, IdleRing
  <1>2. ASSUME NEW i \in Iocbs, Proceed(i) PROVE RingInv'
    BY <1>0, <1>2, IdleRing, SubmitRing, BuildRing, QueueRing, QueueRefusedRing DEF Proceed
  <1>3. CASE ServiceTransfers \/ PollAnswer
    BY <1>0, <1>3, AnswerRing
  <1>4. CASE \/ xdma_isr \/ ServiceStatus \/ PollStatus \/ PollTimeout
             \/ PollCheck \/ PollWake \/ PollProc \/ PollRead \/ PollClear
             \/ OfflineFlag \/ OfflineStop \/ Online \/ Hardware \/ UNCHANGED vars
    BY <1>0, <1>4, OthersQuiet, QuietRing
  <1> QED BY <1>1, <1>2, <1>3, <1>4 DEF Next, Interrupts, Poll

\* As long as requests are built one at a time and the ring is not overrun,
\* transfer_init overwrites no descriptor of a transfer on the list and
\* xdma_xfer_completion zeroes none, for a ring of any size, any number of
\* submitters and whatever is answered, refused or reset in between.
THEOREM RingAlwaysIntact == Spec => []RingIntact
  <1>1. IInv /\ RingInv => RingIntact
    <2> SUFFICES ASSUME IInv, RingInv, Orderly, NEW k \in 1 .. Len(engine.list)
                 PROVE  LET x == engine.xfer[engine.list[k]]
                            end == x.first + x.num - 1
                        IN  \A i \in x.first .. end :
                                /\ engine.ring[i].magic
                                /\ engine.ring[i].req = engine.list[k]
                                /\ engine.ring[i].last = (i = end)
      BY DEF RingIntact
    <2>1. PICK y : y = engine.list[k]
      OBVIOUS
    <2>2. y \in Held /\ On(y)
      BY <2>1, ListHeld
    <2>3. Chained(y)
      BY <2>2 DEF RingInv, Ring, Chains
    <2> QED BY <2>1, <2>3 DEF Chained, Chain, First, Num
  <1>2. Spec => []PartsInv
    BY InvHolds, PartsInit, PartsNext, PTL DEF Spec
  <1> QED BY <1>1, <1>2, InvHolds, RingInit, RingNext, PTL DEF Spec
-----------------------------------------------------------------------------
(* What is reported was moved.  While the engine runs, and while it is     *)
(* being serviced, it is at the transfer at the head of the list, and its  *)
(* count is how much of that was moved.                                    *)

\* The histories that ReportedIsMoved is about.
Regular == Orderly /\ "early" \notin seen /\ (poll_mode => "reset" \notin seen)

\* The hardware has moved the first c descriptors of x.
Moved(x, c) == \A j \in 0 .. c - 1 : Start(x) + j \in moved[x[1]]

\* A transfer of a request that is not completed.
Current(x) == req[x[1]].live /\ x[2] < req[x[1]].tfer

\* Who services the engine.
Modes ==
    /\ moved \in [Segs -> SUBSET (0 .. MaxDescs - 1)]
    /\ poll_mode \in BOOLEAN /\ servicing \in BOOLEAN
    /\ poll_mode => ~pending /\ (servicing <=> thread = "answer")
    /\ ~poll_mode => thread = "sleep"
    /\ "reset" \notin seen => device = "up"
    /\ engine.busy => engine.running
    /\ servicing => ~engine.running

\* The engine is at transfer x, the head of the list.
RunsAt(x) ==
    /\ engine.list # <<>> /\ Head(engine.list) = x /\ engine.dequeued = 0
    /\ engine.count <= Num(x) /\ Moved(x, engine.count)
    /\ engine.busy => engine.pos = First(x) + engine.count /\ engine.count < Num(x)

Running == engine.running \/ servicing => \E x \in Held : RunsAt(x)

\* A write-back is that of the present run, and its count that of the hardware.
Polled ==
    poll_mode =>
        /\ wb # NoWb => engine.running /\ ~engine.busy /\ wb.count = engine.count
        /\ thread \in {"clear", "service"} =>
              engine.running /\ ~engine.busy /\ got.count = engine.count /\ got # NoWb
        /\ thread \in {"service", "answer"} => wb = NoWb
        /\ thread = "answer" => got.count = engine.count

\* A transfer that is complete was moved.
Completes ==
    \A x \in Xfers : Current(x) /\ engine.xfer[x].state = "COMPLETED" => Moved(x, Num(x))

\* What was moved of the segments of i that were completed.
MovedOf(i) == UNION {{s[2]} \X moved[s] : s \in Completed(i)}

Told == \A i \in Iocbs : caio[i].res <= Cardinality(MovedOf(i))

Report == Modes /\ Running /\ Polled /\ Completes /\ Told
ReportInv == Regular => Report

\* What is held by both ends of a step has the same chain.
LEMMA HeldLasts ==
    ASSUME IInv, [Next]_vars
    PROVE  \A x \in Held : x \in Held' => First(x)' = First(x) /\ Num(x)' = Num(x)
  <1>0. \A x \in Held : x \in Xfers /\ x[1] \in Segs
    BY XferParts DEF Held
  <1>1. ASSUME NEW i \in Iocbs, \/ \E n \in 1 .. MaxSegs[i] : AioStart(i, n)
                                \/ AlignFailed(i) \/ MapFailed(i) \/ SubmitRefused(i)
                                \/ CheckOnline(i) \/ Wakeup(i)
                                \/ \E n \in 1 .. MaxDescs : Submit(i, n)
        PROVE  \A x \in Held : First(x)' = First(x) /\ Num(x)' = Num(x)
    <2>1. engine' = engine
      BY <1>1 DEF AioStart, AlignFailed, MapFailed, SubmitRefused, CheckOnline, Wakeup, Submit,
                  driver
    <2> QED BY <2>1 DEF First, Num
  <1>2. ASSUME NEW i \in Iocbs, Build(i)
        PROVE  \A x \in Held : First(x)' = First(x) /\ Num(x)' = Num(x)
    <2>1. PICK new, num : Built(i, new, num)
      BY <1>2, BuildIs
    <2> QED BY <1>2, <2>1, BuildHeld
  <1>3. ASSUME NEW i \in Iocbs, Queue(i)
        PROVE  \A x \in Held : First(x)' = First(x) /\ Num(x)' = Num(x)
    <2>1. SameChains(engine', engine)
      BY <1>3, QueueIs
    <2> QED BY <1>0, <2>1 DEF SameChains, First, Num
  <1>4. ASSUME NEW i \in Iocbs, QueueRefused(i), NEW x \in Held, x \in Held'
        PROVE  First(x)' = First(x) /\ Num(x)' = Num(x)
    <2> DEFINE u == Xfer(i)
    <2>1. /\ u[1] = Seg(i) /\ Unqueued(u) /\ ~req'[Seg(i)].live /\ engine'.list = engine.list
          /\ \A y \in Xfers : y # u => engine'.xfer[y] = engine.xfer[y]
      BY <1>4, RefusedIs DEF NoReq
    <2> HIDE DEF u
    <2>2. x # u
      <3>1. ~On(u)
        BY <2>1 DEF On, IInv, Listed
      <3>2. On(x)' <=> On(x)
        BY <2>1 DEF On
      <3>3. On(x)' \/ req'[x[1]].live
        BY <1>4 DEF Held
      <3> QED BY <2>1, <3>1, <3>2, <3>3
    <2> QED BY <1>0, <2>1, <2>2 DEF First, Num
  <1>5. ASSUME ServiceTransfers \/ PollAnswer, NEW x \in Held, x \in Held'
        PROVE  First(x)' = First(x) /\ Num(x)' = Num(x)
    <2>1. PICK e \in Engines : /\ Suffix(e.list, engine.list) /\ SameChains(e, engine)
                               /\ Complete(e) /\ UNCHANGED submit
      BY <1>5, AnswerIs
    <2>2. /\ engine'.list = e.list
          /\ \A y \in Xfers : y[1] \notin Done(e) => First(y)' = First(y) /\ Num(y)' = Num(y)
          /\ \A s \in Done(e) : ~req'[s].live
      BY <2>1, CompletionChains
    <2>3. On(x)' \/ req'[x[1]].live
      BY <1>5 DEF Held
    <2>4. On(x)' => Stays(e, x)
      BY <2>2 DEF On, Stays
    <2>5. x[1] \notin Done(e)
      BY <2>1, <2>2, <2>3, <2>4, StaysOn
    <2> QED BY <1>0, <2>2, <2>5
  <1>6. CASE \/ xdma_isr \/ ServiceStatus \/ PollStatus \/ PollTimeout
             \/ PollCheck \/ PollWake \/ PollProc \/ PollRead \/ PollClear
             \/ OfflineFlag \/ OfflineStop \/ Online \/ Hardware \/ UNCHANGED vars
    <2>1. SameChains(engine', engine)
      BY <1>6, OthersQuiet DEF Quiet, Kept
    <2> QED BY <1>0, <2>1 DEF SameChains, First, Num
  <1>7. ASSUME NEW i \in Iocbs, Proceed(i)
        PROVE  \A x \in Held : x \in Held' => First(x)' = First(x) /\ Num(x)' = Num(x)
    BY <1>1, <1>2, <1>3, <1>4, <1>7 DEF Proceed
  <1> QED BY <1>1, <1>5, <1>6, <1>7 DEF Next, Interrupts, Poll

\* What was moved stays moved.
LEMMA MovedGrows ==
    ASSUME [Next]_vars, moved \in [Segs -> SUBSET (0 .. MaxDescs - 1)]
    PROVE  \A s \in Segs : moved[s] \subseteq moved'[s]
  <1>1. CASE Move
    <2>1. PICK d : moved' = [moved EXCEPT ![d.req[1]] = @ \cup {d.index}]
      BY <1>1 DEF Move
    <2>2. PICK a, b : a = d.req[1] /\ b = d.index
      OBVIOUS
    <2>3. moved' = [moved EXCEPT ![a] = @ \cup {b}]
      BY <2>1, <2>2
    <2> QED BY <2>3
  <1>2. CASE moved' = moved
    BY <1>2
  <1>3. ASSUME NEW i \in Iocbs, Proceed(i) PROVE moved' = moved
    BY <1>3 DEF Proceed, AlignFailed, MapFailed, SubmitRefused, Submit, Build, CheckOnline,
                Queue, QueueRefused, Wakeup
  <1>4. CASE Interrupts \/ Poll \/ PollTimeout \/ OfflineFlag \/ OfflineStop \/ Online \/ BusError
    BY <1>2, <1>4 DEF Interrupts, xdma_isr, ServiceStatus, ServiceTransfers, Poll, PollTimeout,
                      PollCheck, PollWake, PollProc, PollRead, PollClear, PollStatus, PollAnswer,
                      OfflineFlag, OfflineStop, Online, BusError
  <1>5. ASSUME NEW i \in Iocbs, NEW n \in 1 .. MaxSegs[i], AioStart(i, n) PROVE moved' = moved
    BY <1>5 DEF AioStart
  <1>6. CASE UNCHANGED vars
    BY <1>2, <1>6 DEF vars
  <1> QED BY <1>1, <1>2, <1>3, <1>4, <1>5, <1>6 DEF Next, Hardware

\* A segment that was completed stays so.
LEMMA CompletedGrows ==
    ASSUME IInv, [Next]_vars, NEW i \in Iocbs
    PROVE  Completed(i) \subseteq Completed(i)'
  <1> SUFFICES ASSUME NEW s \in Segs, ~req[s].live, req[s].total > 0
               PROVE  ~req'[s].live /\ req'[s].total > 0
    BY DEF Completed
  <1>1. CASE req' = req
    BY <1>1
  <1>2. ASSUME NEW j \in Iocbs, \/ \E n \in 1 .. MaxSegs[j] : AioStart(j, n)
                                \/ AlignFailed(j) \/ MapFailed(j) \/ SubmitRefused(j)
                                \/ CheckOnline(j) \/ Wakeup(j) \/ Queue(j)
        PROVE  req' = req
    BY <1>2 DEF AioStart, AlignFailed, MapFailed, SubmitRefused, CheckOnline, Wakeup, Queue,
                requests
  <1>3. ASSUME NEW j \in Iocbs, NEW n \in 1 .. MaxDescs, Submit(j, n)
        PROVE  req'[s] = req[s]
    <2>1. /\ pc[j] = "seg"
          /\ req' = [req EXCEPT ![Seg(j)] = [NoReq EXCEPT !.live = TRUE, !.total = n]]
      BY <1>3 DEF Submit
    <2>2. Seg(j) \in Segs /\ req[Seg(j)] = NoReq /\ req \in [Segs -> Reqs]
      BY <2>1, SegFacts DEF Ahead, IInv, Submitting
    <2>3. s # Seg(j)
      BY <2>2 DEF NoReq
    <2> QED BY <2>1, <2>2, <2>3
  <1>4. ASSUME NEW j \in Iocbs, Build(j) PROVE req'[s] = req[s]
    <2>1. PICK new, num : Built(j, new, num)
      BY <1>4, BuildIs
    <2> QED BY <2>1 DEF Built
  <1>5. ASSUME NEW j \in Iocbs, QueueRefused(j) PROVE req'[s] = req[s]
    BY <1>5, RefusedIs
  <1>6. CASE ServiceTransfers \/ PollAnswer
    <2>1. PICK e \in Engines : /\ Suffix(e.list, engine.list) /\ SameChains(e, engine)
                               /\ Complete(e) /\ UNCHANGED submit
      BY <1>6, AnswerIs
    <2>2. s \notin Done(e)
      BY <2>1, DoneFacts
    <2>3. req'[s] = req[s]
      BY <2>1, <2>2, CompletionChains
    <2> QED BY <2>3
  <1>7. CASE \/ xdma_isr \/ ServiceStatus \/ PollStatus \/ PollTimeout
             \/ PollCheck \/ PollWake \/ PollProc \/ PollRead \/ PollClear
             \/ OfflineFlag \/ OfflineStop \/ Online \/ Hardware \/ UNCHANGED vars
    BY <1>1, <1>7, OthersQuiet DEF Quiet, requests
  <1>8. ASSUME NEW j \in Iocbs, Proceed(j) PROVE req' = req \/ req'[s] = req[s]
    BY <1>2, <1>3, <1>4, <1>5, <1>8 DEF Proceed
  <1> QED BY <1>1, <1>2, <1>6, <1>7, <1>8 DEF Next, Interrupts, Poll

\* Only queueing, building, refusing and answering changes a transfer.
LEMMA QuietXfer ==
    ASSUME IInv, \/ xdma_isr \/ ServiceStatus \/ PollStatus \/ PollTimeout
                 \/ PollCheck \/ PollWake \/ PollProc \/ PollRead \/ PollClear
                 \/ OfflineFlag \/ OfflineStop \/ Online \/ Hardware \/ UNCHANGED vars
    PROVE  engine'.xfer = engine.xfer
  <1>0. engine \in Engines
    BY TypesOf
  <1>1. \A e \in Engines : /\ engine_status_read(e).xfer = e.xfer
                           /\ xdma_engine_stop(e).xfer = e.xfer
                           /\ HwMove(e).xfer = e.xfer /\ HwError(e).xfer = e.xfer
    BY DEF engine_status_read, xdma_engine_stop, HwMove, HwError, Engines
  <1>2. CASE PollTimeout \/ PollCheck \/ PollWake \/ PollProc \/ PollRead \/ PollClear
                \/ OfflineFlag \/ UNCHANGED vars
    BY <1>2 DEF PollTimeout, PollCheck, PollWake, PollProc, PollRead, PollClear, OfflineFlag,
                vars, driver
  <1>3. CASE xdma_isr \/ Online
    BY <1>0, <1>3 DEF xdma_isr, Online, Engines
  <1>4. CASE Hardware
    BY <1>0, <1>1, <1>4 DEF Hardware, Move, BusError
  <1>5. CASE OfflineStop
    <2>1. PICK e : e = xdma_engine_stop(engine)
      OBVIOUS
    <2>2. e \in Engines /\ e.xfer = engine.xfer
      BY <1>0, <1>1, <2>1, StatusFields DEF Kept
    <2>3. engine' = [e EXCEPT !.shutdown = @ \cup {"REQUEST"}, !.irq = FALSE]
      BY <1>5, <2>1 DEF OfflineStop
    <2> QED BY <2>2, <2>3 DEF Engines
  <1>6. CASE ServiceStatus
    <2> DEFINE read == engine_status_read(engine)
    <2>1. read \in Engines /\ read.xfer = engine.xfer
      BY <1>0, <1>1, StatusFields DEF Kept
    <2>2. xdma_engine_stop(read) \in Engines /\ xdma_engine_stop(read).xfer = engine.xfer
      <3> HIDE DEF read
      <3> QED BY <1>1, <2>1, StatusFields DEF Kept
    <2>3. service_status(engine) \in {read, xdma_engine_stop(read)}
      <3>1. engine.running \in BOOLEAN /\ engine.busy \in BOOLEAN
        BY <1>0 DEF Engines
      <3> HIDE DEF read
      <3> QED BY <3>1 DEF service_status, engine_service_shutdown, read
    <2>4. PICK e \in Engines : e = service_status(engine) /\ e.xfer = engine.xfer
      <3> HIDE DEF read
      <3> QED BY <2>1, <2>2, <2>3
    <2>5. engine' = [e EXCEPT !.irq = IF engine.running THEN @ ELSE TRUE]
      BY <1>6, <2>4 DEF ServiceStatus
    <2> QED BY <2>4, <2>5 DEF Engines
  <1>7. CASE PollStatus
    <2>1. CASE ~engine.running
      BY <1>0, <1>1, <1>7, <2>1 DEF PollStatus
    <2>2. CASE engine.running
      <3> DEFINE read == IF got.err THEN engine_status_read(engine) ELSE engine
      <3>1. read \in Engines /\ read.xfer = engine.xfer
        BY <1>0, <1>1, StatusFields DEF Kept
      <3> HIDE DEF read
      <3>2. xdma_engine_stop(read).xfer = engine.xfer
        BY <1>1, <3>1
      <3>3. engine' \in {read, xdma_engine_stop(read)}
        BY <1>7, <2>2 DEF PollStatus, poll_status, engine_service_shutdown, read
      <3> QED BY <3>1, <3>2, <3>3
    <2> QED BY <2>1, <2>2
  <1> QED BY <1>2, <1>3, <1>4, <1>5, <1>6, <1>7

\* The transfers and the run after transfer_queue.
LEMMA QueueRun ==
    ASSUME IInv, NEW i \in Iocbs, Queue(i)
    PROVE  /\ engine'.xfer[Xfer(i)].state = "SUBMITTED"
           /\ \A x \in Xfers : x # Xfer(i) => engine'.xfer[x] = engine.xfer[x]
           /\ engine.running =>
                 /\ engine'.running /\ engine'.busy = engine.busy /\ engine'.pos = engine.pos
                 /\ engine'.count = engine.count /\ engine'.dequeued = engine.dequeued
           /\ ~engine.running =>
                 /\ engine'.running /\ engine'.busy /\ engine'.count = 0 /\ engine'.dequeued = 0
                 /\ engine'.pos = engine'.xfer[Head(engine'.list)].first
  <1> DEFINE r == Xfer(i)
             x == [engine.xfer EXCEPT ![r] = [@ EXCEPT !.state = "SUBMITTED"]]
             list == Append(engine.list, r)
             q == [engine EXCEPT !.xfer = x, !.list = list]
  <1>0. engine \in Engines /\ r \in Xfers /\ engine' = transfer_queue(engine, r)
    BY TypesOf, QueueIs
  <1>1. engine' = engine_start(q)
    BY <1>0 DEF transfer_queue
  <1>2. x[r].state = "SUBMITTED" /\ \A y \in Xfers : y # r => x[y] = engine.xfer[y]
    <2>1. engine.xfer \in [Xfers -> Transfers] /\ engine.xfer[r] \in Transfers
      BY <1>0 DEF Engines
    <2> HIDE DEF r
    <2> QED BY <1>0, <2>1 DEF Transfers
  <1>3. list # <<>>
    <2>1. engine.list \in Seq(Xfers)
      BY <1>0 DEF Engines
    <2> HIDE DEF r
    <2> QED BY <1>0, <2>1, AppendProperties
  <1> HIDE DEF x, list, r
  <1>4. /\ q.list = list /\ q.xfer = x /\ q.running = engine.running /\ q.busy = engine.busy
        /\ q.pos = engine.pos /\ q.count = engine.count /\ q.dequeued = engine.dequeued
        /\ engine.running \in BOOLEAN
    BY <1>0 DEF Engines
  <1>5. CASE engine.running
    <2>1. engine' = q
      BY <1>1, <1>4, <1>5 DEF engine_start
    <2> HIDE DEF q
    <2> QED BY <1>2, <1>4, <1>5, <2>1 DEF r
  <1>6. CASE ~engine.running
    <2> DEFINE status == q.events \cup {"BUSY"}
               pos == q.xfer[Head(q.list)].first
    <2>1. engine' = [q EXCEPT !.shutdown = {}, !.dequeued = 0, !.running = TRUE,
                              !.busy = TRUE, !.count = 0, !.status = status, !.pos = pos]
      BY <1>1, <1>3, <1>4, <1>6 DEF engine_start
    <2> HIDE DEF status, pos
    <2>2. /\ engine'.running /\ engine'.busy /\ engine'.count = 0 /\ engine'.dequeued = 0
          /\ engine'.pos = pos /\ engine'.xfer = q.xfer /\ engine'.list = q.list
      BY <1>0, <2>1 DEF Engines
    <2>3. engine'.pos = engine'.xfer[Head(engine'.list)].first
      BY <2>2 DEF pos
    <2> HIDE DEF q
    <2> QED BY <1>2, <1>4, <1>6, <2>2, <2>3 DEF r
  <1> QED BY <1>4, <1>5, <1>6

\* A step of a history that stays regular.
Step ==
    /\ IInv /\ PartsInv /\ RingInv /\ IInv' /\ PartsInv' /\ RingInv'
    /\ Regular /\ Regular' /\ Report /\ [Next]_vars

\* What every such step keeps.
LEMMA StepFacts ==
    ASSUME Step
    PROVE  /\ Ring /\ Ring'
           /\ \A x \in Held : x \in Held' =>
                 First(x)' = First(x) /\ Num(x)' = Num(x) /\ Start(x)' = Start(x)
           /\ \A s \in Segs : moved[s] \subseteq moved'[s]
  <1>1. Ring /\ Ring'
    BY DEF Step, RingInv, Regular
  <1>2. \A x \in Held : x \in Held' => First(x)' = First(x) /\ Num(x)' = Num(x)
    BY HeldLasts DEF Step
  <1>3. ASSUME NEW x, x \in Held, x \in Held' PROVE Start(x)' = Start(x)
    BY <1>2, <1>3, StartKept DEF Step
  <1>4. \A s \in Segs : moved[s] \subseteq moved'[s]
    BY MovedGrows DEF Step, Report, Modes
  <1> QED BY <1>1, <1>2, <1>3, <1>4

\* What was moved of a transfer stays moved.
LEMMA MovedKept ==
    ASSUME Step, NEW x \in Held, x \in Held', NEW c, Moved(x, c)
    PROVE  Moved(x, c)'
  <1>1. x[1] \in Segs
    BY XferParts DEF Held
  <1>2. Start(x)' = Start(x) /\ moved[x[1]] \subseteq moved'[x[1]]
    BY <1>1, StepFacts
  <1>3. ASSUME NEW j \in 0 .. c - 1 PROVE Start(x)' + j \in moved'[x[1]]
    BY <1>2 DEF Moved
  <1> QED BY <1>3 DEF Moved

\* Steps that answer nothing complete no transfer and report nothing.
LEMMA Unanswered ==
    ASSUME IInv, [Next]_vars, ~(ServiceTransfers \/ PollAnswer)
    PROVE  /\ \A x \in Xfers : Current(x)' /\ engine'.xfer[x].state = "COMPLETED" =>
                                   Current(x) /\ engine.xfer[x].state = "COMPLETED"
           /\ \A i \in Iocbs : caio'[i].res = caio[i].res \/ caio'[i].res = 0
  <1> DEFINE A == \A x \in Xfers : Current(x)' /\ engine'.xfer[x].state = "COMPLETED" =>
                                       Current(x) /\ engine.xfer[x].state = "COMPLETED"
             B == \A i \in Iocbs : caio'[i].res = caio[i].res \/ caio'[i].res = 0
  <1> SUFFICES A /\ B
    OBVIOUS
  <1>0. /\ \A x \in Xfers : x[1] \in Segs /\ x[2] \in {0, 1}
        /\ DOMAIN caio = Iocbs /\ \A i \in Iocbs : caio[i] \in Caios(i)
    BY XferParts DEF IInv, Types
  <1>1. ASSUME NEW i \in Iocbs, \/ \E n \in 1 .. MaxSegs[i] : AioStart(i, n)
                                \/ AlignFailed(i) \/ MapFailed(i) \/ SubmitRefused(i)
                                \/ CheckOnline(i) \/ Wakeup(i)
        PROVE  A
    <2>1. engine' = engine /\ req' = req
      BY <1>1 DEF AioStart, AlignFailed, MapFailed, SubmitRefused, CheckOnline, Wakeup, driver,
                  requests
    <2> QED BY <2>1 DEF Current
  <1>2. ASSUME NEW i \in Iocbs, NEW n \in 1 .. MaxDescs, Submit(i, n) PROVE A
    <2> DEFINE s == Seg(i)
    <2>1. /\ engine' = engine
          /\ req' = [req EXCEPT ![s] = [NoReq EXCEPT !.live = TRUE, !.total = n]]
      BY <1>2 DEF Submit, driver
    <2>2. s \in Segs /\ req \in [Segs -> Reqs]
      BY SegFacts
    <2>3. req'[s].tfer = 0 /\ \A t \in Segs : t # s => req'[t] = req[t]
      BY <2>1, <2>2 DEF NoReq
    <2> HIDE DEF s
    <2> QED BY <1>0, <2>1, <2>3 DEF Current
  <1>3. ASSUME NEW i \in Iocbs, Build(i) PROVE A
    <2>1. PICK new, num : Built(i, new, num)
      BY <1>3, BuildIs
    <2> DEFINE s == Seg(i)
    <2>2. /\ new = <<s, req[s].tfer>> /\ req[s].live /\ req'[s].tfer = req[s].tfer + 1
          /\ req[s].tfer \in Nat /\ \A t \in Segs : t # s => req'[t] = req[t]
          /\ engine'.xfer[new].state = "NEW"
          /\ \A x \in Xfers : x # new => engine'.xfer[x] = engine.xfer[x]
      BY <2>1 DEF Built
    <2> HIDE DEF s
    <2>3. ASSUME NEW x \in Xfers, Current(x)', engine'.xfer[x].state = "COMPLETED"
          PROVE  Current(x) /\ engine.xfer[x].state = "COMPLETED"
      <3>1. x # new
        BY <2>2, <2>3
      <3>2. engine.xfer[x].state = "COMPLETED"
        BY <2>2, <2>3, <3>1
      <3>3. CASE x[1] = s
        <4>1. x[2] # req[s].tfer
          BY <2>2, <3>1, <3>3, XferParts
        <4>2. x[2] < req[s].tfer
          BY <1>0, <2>2, <2>3, <3>3, <4>1 DEF Current
        <4> QED BY <2>2, <3>2, <3>3, <4>2 DEF Current
      <3>4. CASE x[1] # s
        BY <1>0, <2>2, <2>3, <3>2, <3>4 DEF Current
      <3> QED BY <3>3, <3>4
    <2> QED BY <2>3
  <1>4. ASSUME NEW i \in Iocbs, Queue(i) PROVE A
    <2>1. /\ req' = req /\ engine'.xfer[Xfer(i)].state = "SUBMITTED"
          /\ \A x \in Xfers : x # Xfer(i) => engine'.xfer[x] = engine.xfer[x]
      BY <1>4, QueueIs, QueueRun
    <2> QED BY <2>1 DEF Current
  <1>5. ASSUME NEW i \in Iocbs, QueueRefused(i) PROVE A
    <2>1. /\ Xfer(i)[1] = Seg(i) /\ ~req'[Seg(i)].live
          /\ \A t \in Segs : t # Seg(i) => req'[t] = req[t]
          /\ \A x \in Xfers : x # Xfer(i) => engine'.xfer[x] = engine.xfer[x]
      BY <1>5, RefusedIs DEF NoReq
    <2> QED BY <1>0, <2>1 DEF Current
  <1>7. ASSUME NEW i \in Iocbs, \/ MapFailed(i) \/ SubmitRefused(i) \/ CheckOnline(i)
                                \/ \E n \in 1 .. MaxDescs : Submit(i, n)
                                \/ Build(i) \/ Queue(i) \/ QueueRefused(i) \/ Wakeup(i)
        PROVE  caio' = caio
    BY <1>7 DEF MapFailed, SubmitRefused, CheckOnline, Wakeup, Submit, Build, Queue,
                QueueRefused, requests
  <1>8. ASSUME NEW i \in Iocbs, \/ AlignFailed(i)
                                \/ \E n \in 1 .. MaxSegs[i] : AioStart(i, n)
        PROVE  B
    <2>1. CASE AlignFailed(i)
      <3> DEFINE c == [caio[i] EXCEPT !.live = FALSE]
      <3>1. caio' = [caio EXCEPT ![i] = c]
        BY <2>1 DEF AlignFailed
      <3>2. c.res = caio[i].res
        BY <1>0 DEF Caios
      <3> HIDE DEF c
      <3> QED BY <1>0, <3>1, <3>2
    <2>2. CASE \E n \in 1 .. MaxSegs[i] : AioStart(i, n)
      <3>1. PICK n \in 1 .. MaxSegs[i] : AioStart(i, n)
        BY <2>2
      <3> DEFINE c == [NoCaio EXCEPT !.live = TRUE, !.req_cnt = n]
      <3>2. caio' = [caio EXCEPT ![i] = c]
        BY <3>1 DEF AioStart
      <3>3. c.res = 0
        BY DEF NoCaio
      <3> HIDE DEF c
      <3> QED BY <1>0, <3>2, <3>3
    <2> QED BY <1>8, <2>1, <2>2
  <1>9. ASSUME NEW i \in Iocbs, Proceed(i) PROVE A /\ B
    <2>1. A
      <3> HIDE DEF A
      <3> QED BY <1>1, <1>2, <1>3, <1>4, <1>5, <1>9 DEF Proceed
    <2>2. caio' = caio => B
      OBVIOUS
    <2>3. B
      <3> HIDE DEF B
      <3> QED BY <1>7, <1>8, <1>9, <2>2 DEF Proceed
    <2> QED BY <2>1, <2>3
  <1>10. ASSUME NEW i \in Iocbs, NEW n \in 1 .. MaxSegs[i], AioStart(i, n) PROVE A /\ B
    BY <1>1, <1>8, <1>10
  <1>11. CASE \/ xdma_isr \/ ServiceStatus \/ PollStatus \/ PollTimeout
              \/ PollCheck \/ PollWake \/ PollProc \/ PollRead \/ PollClear
              \/ OfflineFlag \/ OfflineStop \/ Online \/ Hardware \/ UNCHANGED vars
    <2>1. engine'.xfer = engine.xfer /\ req' = req /\ caio' = caio
      BY <1>11, QuietXfer, OthersQuiet DEF Quiet, requests
    <2> QED BY <2>1 DEF Current
  <1> HIDE DEF A, B
  <1> QED BY <1>9, <1>10, <1>11 DEF Next, Interrupts, Poll

\* What was moved of some segments of an iocb is finite.
LEMMA MovedFinite ==
    ASSUME NEW i \in Iocbs, NEW m \in [Segs -> SUBSET (0 .. MaxDescs - 1)],
           NEW C, C \subseteq Segs, \A s \in C : s[1] = i
    PROVE  LET U == UNION {{s[2]} \X m[s] : s \in C}
           IN  /\ U \subseteq (1 .. MaxSegs[i]) \X (0 .. MaxDescs - 1)
               /\ IsFiniteSet(U) /\ Cardinality(U) \in Nat
  <1> DEFINE U == UNION {{s[2]} \X m[s] : s \in C}
             V == (1 .. MaxSegs[i]) \X (0 .. MaxDescs - 1)
  <1>1. ASSUME NEW s \in C PROVE s[2] \in 1 .. MaxSegs[i] /\ m[s] \subseteq 0 .. MaxDescs - 1
    BY SegParts
  <1>2. U \subseteq V
    BY <1>1
  <1>3. IsFiniteSet(1 .. MaxSegs[i]) /\ IsFiniteSet(0 .. MaxDescs - 1)
    <2>1. 1 \in Int /\ MaxSegs[i] \in Int /\ 0 \in Int /\ MaxDescs - 1 \in Int
      BY Numbers
    <2> QED BY <2>1, FS_Interval
  <1>4. IsFiniteSet(V)
    BY <1>3, FS_Product
  <1> HIDE DEF U, V
  <1>5. IsFiniteSet(U) /\ Cardinality(U) \in Nat
    BY <1>2, <1>4, FS_Subset, FS_CardinalityType
  <1> QED BY <1>2, <1>5 DEF U, V

\* So such a step keeps what completed transfers and results say.
LEMMA UnansweredReport ==
    ASSUME Step, ~(ServiceTransfers \/ PollAnswer),
           moved' \in [Segs -> SUBSET (0 .. MaxDescs - 1)]
    PROVE  Completes' /\ Told'
  <1>0. IInv /\ [Next]_vars /\ moved \in [Segs -> SUBSET (0 .. MaxDescs - 1)]
    BY DEF Step, Report, Modes
  <1>1. /\ \A x \in Xfers : Current(x)' /\ engine'.xfer[x].state = "COMPLETED" =>
                                Current(x) /\ engine.xfer[x].state = "COMPLETED"
        /\ \A i \in Iocbs : caio'[i].res = caio[i].res \/ caio'[i].res = 0
    BY <1>0, Unanswered
  <1>2. Completes'
    <2> SUFFICES ASSUME NEW x \in Xfers, Current(x)', engine'.xfer[x].state = "COMPLETED"
                 PROVE  Moved(x, Num(x))'
      BY DEF Completes
    <2>1. PICK n : n = Num(x)
      OBVIOUS
    <2>2. Current(x) /\ engine.xfer[x].state = "COMPLETED"
      BY <1>1
    <2>3. Moved(x, n)
      BY <2>1, <2>2 DEF Step, Report, Completes
    <2>4. x \in Held /\ x \in Held'
      BY <2>2 DEF Held, Current
    <2>5. Moved(x, n)' /\ Num(x)' = n
      BY <2>1, <2>3, <2>4, MovedKept, StepFacts
    <2> QED BY <2>5 DEF Moved, Num, Start
  <1>3. ASSUME NEW i \in Iocbs PROVE caio'[i].res <= Cardinality(MovedOf(i)')
    <2> DEFINE U == UNION {{s[2]} \X moved[s] : s \in Completed(i)}
               V == UNION {{s[2]} \X moved'[s] : s \in Completed(i)'}
    <2>1. IsFiniteSet(V) /\ Cardinality(V) \in Nat
      <3>1. Completed(i)' \subseteq Segs /\ \A s \in Completed(i)' : s[1] = i
        BY DEF Completed
      <3> QED BY <3>1, MovedFinite
    <2>2. U \subseteq V
      <3>1. ASSUME NEW p \in U PROVE p \in V
        <4>1. PICK s \in Completed(i) : p \in {s[2]} \X moved[s]
          OBVIOUS
        <4>2. s \in Completed(i)' /\ s \in Segs
          BY <1>0, CompletedGrows DEF Completed
        <4>3. p \in {s[2]} \X moved'[s]
          BY <4>1, <4>2, StepFacts
        <4> QED BY <4>2, <4>3
      <3> QED BY <3>1
    <2>3. caio[i].res <= Cardinality(U)
      BY DEF Step, Report, Told, MovedOf
    <2>4. V = MovedOf(i)'
      BY DEF MovedOf
    <2> HIDE DEF U, V
    <2>5. Cardinality(U) <= Cardinality(V) /\ IsFiniteSet(U)
      BY <2>1, <2>2, FS_Subset
    <2>6. Cardinality(U) \in Nat /\ caio[i].res \in Nat
      BY <1>0, <2>5, FS_CardinalityType DEF IInv, Types, Caios
    <2>7. caio'[i].res <= Cardinality(V)
      BY <1>1, <2>1, <2>3, <2>5, <2>6
    <2> QED BY <2>4, <2>7
  <1>4. Told'
    BY <1>3 DEF Told
  <1> QED BY <1>2, <1>4

\* The head of a list is on it.
LEMMA HeadOn ==
    ASSUME NEW s \in Seq(Xfers), s # <<>>
    PROVE  1 \in 1 .. Len(s) /\ Head(s) = s[1] /\ Head(s) \in Xfers
  <1>1. Len(s) \in Nat /\ Len(s) # 0
    BY EmptySeq, LenProperties
  <1>2. Head(s) \in Xfers /\ Head(s) = s[1]
    BY HeadTailProperties
  <1> QED BY <1>1, <1>2

\* A step that leaves the run and the head of the list alone, or stops the run.
LEMMA RunKept ==
    ASSUME Step, engine'.running \/ servicing' => engine.running \/ servicing,
           engine.list # <<>> => engine'.list # <<>> /\ Head(engine'.list) = Head(engine.list),
           engine'.busy => engine.busy, engine'.pos = engine.pos,
           engine'.count = engine.count, engine'.dequeued = engine.dequeued
    PROVE  Running'
  <1> SUFFICES ASSUME engine'.running \/ servicing' PROVE \E x \in Held' : RunsAt(x)'
    BY DEF Running
  <1>1. PICK x \in Held : RunsAt(x)
    BY DEF Step, Report, Running
  <1>2. engine'.list # <<>> /\ Head(engine'.list) = x
    BY <1>1 DEF RunsAt
  <1>3. engine'.list \in Seq(Xfers)
    BY DEF Step, IInv, Types, Engines
  <1>4. x \in Held'
    BY <1>2, <1>3, HeadOn DEF Held, On
  <1>5. First(x)' = First(x) /\ Num(x)' = Num(x)
    BY <1>4, StepFacts
  <1>6. PICK c : c = engine.count
    OBVIOUS
  <1>7. Moved(x, c)'
    BY <1>1, <1>4, <1>6, MovedKept DEF RunsAt
  <1>8. Moved(x, engine.count)'
    BY <1>6, <1>7 DEF Moved, Start, Num
  <1>9. RunsAt(x)'
    BY <1>1, <1>2, <1>5, <1>8 DEF RunsAt
  <1> QED BY <1>4, <1>9

\* A step that leaves the run, its servicing and the write-back alone.
Still ==
    /\ UNCHANGED <<poll_mode, servicing, moved, thread>>
    /\ poll_mode => UNCHANGED <<wb, got, pending>>
    /\ "reset" \notin seen' => device' = "up"
    /\ engine'.list = engine.list /\ engine'.running = engine.running
    /\ engine'.busy = engine.busy /\ engine'.pos = engine.pos
    /\ engine'.count = engine.count /\ engine'.dequeued = engine.dequeued

\* It keeps what is said of them.
LEMMA StillReport ==
    ASSUME Step, Still
    PROVE  Modes' /\ Running' /\ Polled'
  <1>1. Modes /\ Polled
    BY DEF Step, Report
  <1>2. Modes'
    BY <1>1 DEF Modes, Still
  <1>3. Running'
    BY RunKept DEF Still
  <1>4. Polled'
    BY <1>1 DEF Polled, Still
  <1> QED BY <1>2, <1>3, <1>4

\* Such are the steps of submitters, except queueing,
LEMMA SubmitterReport ==
    ASSUME Step, NEW i \in Iocbs,
           \/ \E n \in 1 .. MaxSegs[i] : AioStart(i, n)
           \/ AlignFailed(i) \/ MapFailed(i) \/ SubmitRefused(i)
           \/ \E n \in 1 .. MaxDescs : Submit(i, n)
           \/ Build(i) \/ CheckOnline(i) \/ QueueRefused(i) \/ Wakeup(i)
    PROVE  Modes' /\ Running' /\ Polled'
  <1>0. IInv /\ ("reset" \notin seen => device = "up")
    BY DEF Step, Report, Modes
  <1>1. UNCHANGED <<poll_mode, servicing, moved, thread, wb, got, pending, device>>
    BY DEF AioStart, AlignFailed, MapFailed, SubmitRefused, Submit, Build, CheckOnline,
           QueueRefused, Wakeup, driver, poller, admin
  <1>2. "reset" \notin seen' => device' = "up"
    BY <1>0, <1>1, SeenGrows DEF Step
  <1>3. /\ engine'.list = engine.list /\ engine'.running = engine.running
        /\ engine'.busy = engine.busy /\ engine'.pos = engine.pos
        /\ engine'.count = engine.count /\ engine'.dequeued = engine.dequeued
    <2>1. CASE Build(i)
      <3>1. PICK new, num : Built(i, new, num)
        BY <1>0, <2>1, BuildIs
      <3> QED BY <3>1 DEF Built
    <2>2. CASE QueueRefused(i)
      BY <1>0, <2>2, RefusedIs
    <2>3. CASE \/ \E n \in 1 .. MaxSegs[i] : AioStart(i, n)
               \/ AlignFailed(i) \/ MapFailed(i) \/ SubmitRefused(i)
               \/ \E n \in 1 .. MaxDescs : Submit(i, n)
               \/ CheckOnline(i) \/ Wakeup(i)
      <3>1. engine' = engine
        BY <2>3 DEF AioStart, AlignFailed, MapFailed, SubmitRefused, Submit, CheckOnline,
                    Wakeup, driver
      <3> QED BY <3>1
    <2> QED BY <2>1, <2>2, <2>3
  <1> QED BY <1>1, <1>2, <1>3, StillReport DEF Still

\* the interrupt handler, the flag of a reset, and its end.
LEMMA CalmReport ==
    ASSUME Step, xdma_isr \/ OfflineFlag \/ Online \/ UNCHANGED vars
    PROVE  Modes' /\ Running' /\ Polled'
  <1>0. engine \in Engines /\ Modes
    BY TypesOf DEF Step, Report
  <1>1. CASE xdma_isr
    <2>1. /\ engine' = [engine EXCEPT !.irq = FALSE] /\ ~poll_mode
          /\ UNCHANGED <<poll_mode, servicing, moved, thread, device, seen>>
      BY <1>1 DEF xdma_isr, poller, admin
    <2>2. Still
      BY <1>0, <2>1 DEF Still, Engines, Modes
    <2> QED BY <2>2, StillReport
  <1>2. CASE OfflineFlag
    <2>1. /\ engine' = engine /\ "reset" \in seen'
          /\ UNCHANGED <<poll_mode, servicing, moved, thread, wb, got, pending>>
      BY <1>2 DEF OfflineFlag, driver, poller
    <2>2. Still
      BY <2>1 DEF Still
    <2> QED BY <2>2, StillReport
  <1>3. CASE Online
    <2>1. /\ engine' = [engine EXCEPT !.shutdown = @ \ {"REQUEST"}, !.irq = TRUE]
          /\ device = "down" /\ device' = "up"
          /\ UNCHANGED <<poll_mode, servicing, moved, thread, seen>>
      BY <1>3 DEF Online, poller
    <2>2. ~poll_mode
      BY <1>0, <2>1 DEF Modes, Step, Regular
    <2>3. Still
      BY <1>0, <2>1, <2>2 DEF Still, Engines
    <2> QED BY <2>3, StillReport
  <1>4. CASE UNCHANGED vars
    <2>1. UNCHANGED <<engine, poll_mode, servicing, moved, thread, wb, got, pending, device, seen>>
      BY <1>4 DEF vars, driver, poller, admin
    <2>2. Still
      BY <1>0, <2>1 DEF Still, Modes
    <2> QED BY <2>2, StillReport
  <1> QED BY <1>1, <1>2, <1>3, <1>4

\* The thread looks for work, reads the write-back and clears it, or gives up.
LEMMA ThreadReport ==
    ASSUME Step, \/ PollCheck \/ PollWake \/ PollProc \/ PollRead \/ PollClear \/ PollTimeout
    PROVE  Modes' /\ Running' /\ Polled'
  <1>0. Modes /\ Polled
    BY DEF Step, Report
  <1>1. UNCHANGED <<engine, poll_mode, servicing, moved, pending, device, seen>>
    BY DEF PollCheck, PollWake, PollProc, PollRead, PollClear, PollTimeout, driver, admin
  <1>2. Running'
    BY <1>1, RunKept
  <1>3. thread # "sleep" \/ poll_mode
    BY DEF PollCheck, PollWake, PollProc, PollRead, PollClear, PollTimeout
  <1>4. poll_mode
    BY <1>0, <1>3 DEF Modes
  <1>5. thread # "answer" /\ thread' # "answer"
    BY DEF PollCheck, PollWake, PollProc, PollRead, PollClear, PollTimeout, PollReturn
  <1>6. Modes'
    BY <1>0, <1>1, <1>4, <1>5 DEF Modes
  <1>7. Polled'
    <2>1. CASE PollCheck \/ PollWake \/ PollProc
      <3>1. UNCHANGED <<wb, got>> /\ thread' \notin {"clear", "service", "answer"}
        BY <2>1 DEF PollCheck, PollWake, PollProc
      <3> QED BY <1>0, <1>1, <1>4, <3>1 DEF Polled
    <2>2. CASE PollRead
      <3>1. wb' = wb /\ wb # NoWb /\ got' = wb /\ thread' = "clear"
        BY <2>2 DEF PollRead
      <3> QED BY <1>0, <1>1, <1>4, <3>1 DEF Polled
    <2>3. CASE PollClear
      <3>1. thread = "clear" /\ wb' = NoWb /\ got' = got /\ thread' \in {"poll", "service"}
        BY <2>3 DEF PollClear
      <3> QED BY <1>0, <1>1, <1>4, <3>1 DEF Polled
    <2>4. CASE PollTimeout
      <3>1. wb' = wb /\ thread' = "check"
        BY <2>4 DEF PollTimeout, PollReturn
      <3> QED BY <1>0, <1>1, <1>4, <3>1 DEF Polled
    <2> QED BY <2>1, <2>2, <2>3, <2>4
  <1> QED BY <1>2, <1>6, <1>7

\* The bottom half finds the run at its end and stops it.
LEMMA StatusReport ==
    ASSUME Step, ServiceStatus
    PROVE  Modes' /\ Running' /\ Polled'
  <1>0. engine \in Engines /\ Modes
    BY TypesOf DEF Step, Report
  <1>1. /\ pending /\ ~servicing /\ servicing' = engine.running
        /\ engine' = [service_status(engine) EXCEPT !.irq = IF engine.running THEN @ ELSE TRUE]
        /\ UNCHANGED <<poll_mode, moved, thread, device>> /\ seen \subseteq seen'
        /\ engine.busy => "early" \in seen'
    BY DEF ServiceStatus, lock_free, poller, admin
  <1>2. ~poll_mode
    BY <1>0, <1>1 DEF Modes
  <1>3. ~engine.busy
    BY <1>1 DEF Step, Regular
  <1> DEFINE read == engine_status_read(engine)
             stop == xdma_engine_stop(read)
  <1>4. /\ read \in Engines /\ read.list = engine.list /\ read.running = engine.running
        /\ read.busy = engine.busy /\ read.pos = engine.pos
        /\ read.count = engine.count /\ read.dequeued = engine.dequeued
    <2>1. read \in Engines
      BY <1>0, StatusFields DEF Kept
    <2> QED BY <1>0, <2>1 DEF engine_status_read, Engines
  <1>5. /\ stop \in Engines /\ stop.list = engine.list /\ ~stop.running
        /\ ~stop.busy /\ stop.pos = engine.pos
        /\ stop.count = engine.count /\ stop.dequeued = engine.dequeued
    <2> HIDE DEF read
    <2>1. stop \in Engines
      BY <1>4, StatusFields DEF Kept
    <2> QED BY <1>4, <2>1 DEF xdma_engine_stop, Engines
  <1>6. service_status(engine) = IF engine.running THEN stop ELSE read
    <2>1. engine.running \in BOOLEAN
      BY <1>0 DEF Engines
    <2> HIDE DEF read
    <2> QED BY <1>3, <2>1 DEF service_status, engine_service_shutdown, read
  <1> HIDE DEF read, stop
  <1>7. PICK e \in Engines :
            /\ e = service_status(engine) /\ e.list = engine.list /\ ~e.running /\ ~e.busy
            /\ e.pos = engine.pos /\ e.count = engine.count /\ e.dequeued = engine.dequeued
    BY <1>3, <1>4, <1>5, <1>6
  <1>8. /\ engine'.list = engine.list /\ ~engine'.running /\ ~engine'.busy
        /\ engine'.pos = engine.pos /\ engine'.count = engine.count
        /\ engine'.dequeued = engine.dequeued
    BY <1>1, <1>7 DEF Engines
  <1>9. Running'
    BY <1>1, <1>8, RunKept
  <1>10. engine.running \in BOOLEAN
    BY <1>0 DEF Engines
  <1>11. Modes'
    BY <1>0, <1>1, <1>2, <1>8, <1>10 DEF Modes
  <1>12. Polled'
    BY <1>1, <1>2 DEF Polled
  <1> QED BY <1>9, <1>11, <1>12

\* So does the thread, which has a write-back of it.
LEMMA PollStatusReport ==
    ASSUME Step, PollStatus
    PROVE  Modes' /\ Running' /\ Polled'
  <1>0. engine \in Engines /\ got \in WriteBacks /\ Modes /\ Polled
    BY TypesOf DEF Step, Report
  <1>1. /\ thread = "service" /\ ~servicing
        /\ UNCHANGED <<poll_mode, pending, moved, wb, device, seen>>
    BY DEF PollStatus, lock_free, admin
  <1>2. poll_mode
    BY <1>0, <1>1 DEF Modes
  <1>3. engine.running /\ ~engine.busy /\ got.count = engine.count /\ got # NoWb /\ wb = NoWb
    BY <1>0, <1>1, <1>2 DEF Polled
  <1>4. engine' = poll_status(engine) /\ servicing' = TRUE /\ thread' = "answer" /\ got' = got
    BY <1>3 DEF PollStatus
  <1>5. got.err \/ got.count # 0
    <2>1. got.err \in BOOLEAN /\ got = [count |-> got.count, err |-> got.err]
      BY <1>0 DEF WriteBacks
    <2> QED BY <1>3, <2>1 DEF NoWb
  <1> DEFINE read == IF got.err THEN engine_status_read(engine) ELSE engine
             stop == xdma_engine_stop(read)
  <1>6. /\ read \in Engines /\ read.list = engine.list /\ read.pos = engine.pos
        /\ read.count = engine.count /\ read.dequeued = engine.dequeued
        /\ got.err => "BUSY" \notin read.status
    <2>1. read \in Engines
      BY <1>0, StatusFields DEF Kept
    <2> QED BY <1>0, <1>3, <2>1 DEF engine_status_read, Engines
  <1> HIDE DEF read
  <1>7. /\ stop.list = engine.list /\ ~stop.running
        /\ ~stop.busy /\ stop.pos = engine.pos
        /\ stop.count = engine.count /\ stop.dequeued = engine.dequeued
    BY <1>6 DEF xdma_engine_stop, Engines
  <1>8. engine' = stop
    BY <1>4, <1>5, <1>6 DEF poll_status, engine_service_shutdown, read
  <1> HIDE DEF stop
  <1>9. Running'
    BY <1>3, <1>7, <1>8, RunKept
  <1>10. Modes'
    BY <1>0, <1>1, <1>2, <1>4, <1>7, <1>8 DEF Modes
  <1>11. Polled'
    BY <1>1, <1>2, <1>3, <1>4, <1>7, <1>8 DEF Polled
  <1> QED BY <1>9, <1>10, <1>11

\* A reset stops the engine, in interrupt mode.
LEMMA OfflineReport ==
    ASSUME Step, OfflineStop
    PROVE  Modes' /\ Running' /\ Polled'
  <1>0. engine \in Engines /\ Modes
    BY TypesOf DEF Step, Report
  <1>1. /\ device = "stopping" /\ ~servicing
        /\ engine' = [xdma_engine_stop(engine) EXCEPT !.shutdown = @ \cup {"REQUEST"},
                                                      !.irq = FALSE]
        /\ UNCHANGED <<poll_mode, servicing, moved, thread, seen>>
    BY DEF OfflineStop, lock_free, poller
  <1>2. ~poll_mode /\ "reset" \in seen
    BY <1>0, <1>1 DEF Modes, Step, Regular
  <1>3. PICK e : e = xdma_engine_stop(engine)
    OBVIOUS
  <1>4. e \in Engines /\ ~e.running /\ ~e.busy
    <2>1. e \in Engines
      BY <1>0, <1>3, StatusFields DEF Kept
    <2> QED BY <1>0, <1>3, <2>1 DEF xdma_engine_stop, Engines
  <1>5. ~engine'.running /\ ~engine'.busy
    BY <1>1, <1>3, <1>4 DEF Engines
  <1>6. Running'
    BY <1>1, <1>5 DEF Running
  <1>7. Modes'
    BY <1>0, <1>1, <1>2, <1>5 DEF Modes
  <1>8. Polled'
    BY <1>1, <1>2 DEF Polled
  <1> QED BY <1>6, <1>7, <1>8


\* Queueing leaves a run alone, and starts one at the head of the list when
\* there is none.
LEMMA QueueReport ==
    ASSUME Step, NEW i \in Iocbs, Queue(i)
    PROVE  Modes' /\ Running' /\ Polled'
  <1>0. engine \in Engines /\ Modes /\ Polled /\ IInv
    BY TypesOf DEF Step, Report
  <1>1. /\ ~servicing /\ UNCHANGED <<poll_mode, servicing, moved, thread, wb, got, pending,
                                     device, seen>>
    BY DEF Queue, lock_free, poller, admin
  <1>2. PICK u \in Xfers : engine'.list = Append(engine.list, u)
    BY <1>0, QueueIs
  <1>3. /\ engine.running =>
              /\ engine'.running /\ engine'.busy = engine.busy /\ engine'.pos = engine.pos
              /\ engine'.count = engine.count /\ engine'.dequeued = engine.dequeued
        /\ ~engine.running =>
              /\ engine'.running /\ engine'.busy /\ engine'.count = 0 /\ engine'.dequeued = 0
              /\ engine'.pos = engine'.xfer[Head(engine'.list)].first
    BY <1>0, QueueRun
  <1>4. engine'.list \in Seq(Xfers) /\ engine'.list # <<>>
    <2>1. engine.list \in Seq(Xfers)
      BY <1>0 DEF Engines
    <2> QED BY <1>2, <2>1, AppendProperties
  <1>5. Modes'
    BY <1>0, <1>1, <1>3 DEF Modes
  <1>6. Polled'
    BY <1>0, <1>1, <1>3 DEF Polled, Modes
  <1>7. Running'
    <2>1. CASE engine.running
      <3>1. engine.list # <<>> => Head(engine'.list) = Head(engine.list)
        <4>1. ASSUME engine.list # <<>> PROVE Head(engine'.list) = Head(engine.list)
          <5>1. engine.list \in Seq(Xfers)
            BY <1>0 DEF Engines
          <5>2. /\ 1 \in 1 .. Len(engine.list) /\ Head(engine.list) = engine.list[1]
                /\ Head(engine'.list) = engine'.list[1]
            BY <1>4, <4>1, <5>1, HeadOn
          <5>3. engine'.list[1] = engine.list[1]
            BY <1>2, <5>1, <5>2, AppendProperties
          <5> QED BY <5>2, <5>3
        <4> QED BY <4>1
      <3> QED BY <1>1, <1>3, <1>4, <2>1, <3>1, RunKept
    <2>2. CASE ~engine.running
      <3>1. PICK x : x = Head(engine'.list)
        OBVIOUS
      <3>2. x \in Held' /\ x \in Xfers
        BY <1>4, <3>1, HeadOn DEF Held, On
      <3>3. Num(x)' > 0 /\ engine'.xfer[x] \in Transfers /\ Num(x)' \in Nat
        <4>1. Placed'
          BY StepFacts DEF Ring
        <4>2. engine'.xfer[x] \in Transfers
          BY <3>2 DEF Step, IInv, Types, Engines
        <4>3. Num(x)' \in Nat
          BY <4>2, Numbers DEF Num, Transfers
        <4> QED BY <3>2, <4>1, <4>2, <4>3 DEF Placed
      <3>4. engine'.pos = First(x)' /\ First(x)' \in Int
        <4>1. engine'.xfer[x].first \in Int
          BY <3>3, Numbers DEF Transfers, Slots
        <4> QED BY <1>3, <2>2, <3>1, <4>1 DEF First
      <3>5. Moved(x, engine.count)'
        BY <1>3, <2>2 DEF Moved
      <3>6. RunsAt(x)'
        BY <1>3, <1>4, <2>2, <3>1, <3>3, <3>4, <3>5 DEF RunsAt
      <3> QED BY <3>2, <3>6 DEF Running
    <2>3. engine.running \in BOOLEAN
      BY <1>0 DEF Engines
    <2> QED BY <2>1, <2>2, <2>3
  <1> QED BY <1>5, <1>6, <1>7

\* The descriptor that the hardware is at is the next one of the head.
LEMMA AtHead ==
    ASSUME Step, engine.busy
    PROVE  \E x \in Held :
              /\ RunsAt(x) /\ x \in Xfers /\ x[1] \in Segs /\ engine.running /\ ~servicing
              /\ engine.pos \in Slots /\ engine.pos = First(x) + engine.count
              /\ engine.count \in Nat /\ Num(x) \in Nat /\ First(x) \in Nat
              /\ engine.count < Num(x)
              /\ engine.ring[engine.pos].magic /\ engine.ring[engine.pos].req = x
              /\ engine.ring[engine.pos].index = Start(x) + engine.count
              /\ engine.ring[engine.pos].index \in 0 .. MaxDescs - 1
              /\ engine.ring[engine.pos].last <=> engine.count + 1 = Num(x)
  <1>0. engine \in Engines /\ Modes /\ IInv /\ Ring
    BY TypesOf, StepFacts DEF Step, Report
  <1>1. engine.running /\ ~servicing
    BY <1>0 DEF Modes
  <1>2. PICK x \in Held : RunsAt(x)
    BY <1>1 DEF Step, Report, Running
  <1>3. /\ engine.list # <<>> /\ Head(engine.list) = x
        /\ engine.pos = First(x) + engine.count /\ engine.count < Num(x)
    BY <1>2 DEF RunsAt
  <1>4. x \in Xfers /\ On(x)
    <2>1. engine.list \in Seq(Xfers)
      BY <1>0 DEF Engines
    <2> QED BY <1>3, <2>1, HeadOn DEF On
  <1>5. /\ First(x) \in 0 .. DescMax - 1 /\ Num(x) \in Nat /\ DescMax \in Nat
        /\ First(x) + Num(x) <= DescMax /\ engine.count \in Nat
    BY <1>0, <1>4, Place DEF Ring, Placed, Engines
  <1>6. PICK p : p = engine.pos
    OBVIOUS
  <1>7. p \in Chain(x) /\ p \in Slots /\ p - First(x) = engine.count
        /\ (p = First(x) + Num(x) - 1 <=> engine.count + 1 = Num(x))
    BY <1>3, <1>5, <1>6 DEF Chain, Slots
  <1>8. /\ engine.ring[p].magic /\ engine.ring[p].req = x
        /\ engine.ring[p].last = (p = First(x) + Num(x) - 1)
        /\ engine.ring[p].index = Start(x) + engine.count
    BY <1>0, <1>4, <1>7 DEF Ring, Chains, Chained
  <1>9. engine.ring[p].index \in 0 .. MaxDescs - 1
    <2>1. PICK d : d = engine.ring[p]
      OBVIOUS
    <2>2. d \in Descriptors /\ d.magic
      BY <1>0, <1>7, <1>8, <2>1 DEF Engines
    <2>3. d # NoDescriptor
      BY <2>2 DEF NoDescriptor
    <2>4. d.index \in 0 .. MaxDescs - 1
      BY <2>2, <2>3 DEF Descriptors
    <2> QED BY <2>1, <2>4
  <1>10. First(x) \in Nat /\ x[1] \in Segs
    BY <1>4, <1>5, XferParts
  <1> QED BY <1>1, <1>2, <1>3, <1>4, <1>5, <1>6, <1>7, <1>8, <1>9, <1>10

\* The hardware moves a descriptor.
LEMMA MoveReport ==
    ASSUME Step, Move
    PROVE  /\ Modes' /\ Running' /\ Polled'
           /\ moved' \in [Segs -> SUBSET (0 .. MaxDescs - 1)]
  <1>0. engine \in Engines /\ Modes /\ Polled /\ IInv
    BY TypesOf DEF Step, Report
  <1>1. engine.busy /\ engine' = HwMove(engine)
    BY DEF Move
  <1>2. PICK x \in Held :
            /\ RunsAt(x) /\ x \in Xfers /\ x[1] \in Segs /\ engine.running /\ ~servicing
            /\ engine.pos \in Slots /\ engine.pos = First(x) + engine.count
            /\ engine.count \in Nat /\ Num(x) \in Nat /\ First(x) \in Nat
            /\ engine.count < Num(x)
            /\ engine.ring[engine.pos].magic /\ engine.ring[engine.pos].req = x
            /\ engine.ring[engine.pos].index = Start(x) + engine.count
            /\ engine.ring[engine.pos].index \in 0 .. MaxDescs - 1
            /\ engine.ring[engine.pos].last <=> engine.count + 1 = Num(x)
    BY <1>1, AtHead
  <1>3. PICK s, j, last : /\ s = x[1] /\ j = engine.ring[engine.pos].index
                          /\ last = engine.ring[engine.pos].last
    OBVIOUS
  <1>4. /\ moved' = [moved EXCEPT ![s] = @ \cup {j}]
        /\ wb' = IF poll_mode /\ last THEN [count |-> engine.count + 1, err |-> FALSE] ELSE wb
        /\ UNCHANGED <<poll_mode, pending, servicing, thread, got, device, seen>>
    BY <1>2, <1>3 DEF Move, poller, admin
  <1>5. moved' \in [Segs -> SUBSET (0 .. MaxDescs - 1)] /\ j \in moved'[s]
    BY <1>0, <1>2, <1>3, <1>4 DEF Modes
  <1>6. /\ engine'.list = engine.list /\ engine'.running = engine.running
        /\ engine'.dequeued = engine.dequeued /\ engine'.count = engine.count + 1
        /\ last => ~engine'.busy
        /\ ~last => engine'.busy /\ engine'.pos = engine.pos + 1
    <2>1. CASE last
      BY <1>0, <1>1, <1>3, <2>1 DEF HwMove, Engines
    <2>2. CASE ~last
      BY <1>0, <1>1, <1>3, <2>2 DEF HwMove, Engines
    <2> QED BY <2>1, <2>2
  <1>7. Modes'
    BY <1>0, <1>2, <1>4, <1>5, <1>6 DEF Modes
  <1>8. x \in Held' /\ First(x)' = First(x) /\ Num(x)' = Num(x) /\ Start(x)' = Start(x)
    <2>1. engine.list # <<>> /\ Head(engine.list) = x
      BY <1>2 DEF RunsAt
    <2>2. engine'.list \in Seq(Xfers)
      BY <1>0, <1>6 DEF Engines
    <2>3. x \in Held'
      BY <1>2, <1>6, <2>1, <2>2, HeadOn DEF Held, On
    <2> QED BY <2>3, StepFacts
  <1>9. PICK c \in Nat : c = engine.count
    BY <1>2
  <1>10. Moved(x, c)'
    <2>1. Moved(x, c)
      BY <1>2, <1>9 DEF RunsAt
    <2> QED BY <1>8, <2>1, MovedKept
  <1>11. Moved(x, c + 1)'
    <2>1. ASSUME NEW k \in 0 .. c PROVE Start(x)' + k \in moved'[x[1]]
      <3>1. CASE k = c
        BY <1>2, <1>3, <1>5, <1>8, <1>9, <3>1
      <3>2. CASE k # c
        <4>1. k \in 0 .. c - 1
          BY <3>2
        <4> QED BY <1>10, <4>1 DEF Moved
      <3> QED BY <3>1, <3>2
    <2>2. (c + 1) - 1 = c
      OBVIOUS
    <2> QED BY <2>1, <2>2 DEF Moved
  <1>12. Moved(x, engine.count)'
    <2>1. engine'.count = c + 1
      BY <1>6, <1>9
    <2> QED BY <1>11, <2>1 DEF Moved, Start, Num
  <1>13. RunsAt(x)'
    <2>1. engine.list # <<>> /\ Head(engine.list) = x /\ engine.dequeued = 0
      BY <1>2 DEF RunsAt
    <2>2. engine'.count <= Num(x)'
      BY <1>2, <1>6, <1>8
    <2>3. engine'.busy => engine'.pos = First(x)' + engine'.count /\ engine'.count < Num(x)'
      BY <1>2, <1>3, <1>6, <1>8
    <2> QED BY <1>6, <1>12, <2>1, <2>2, <2>3 DEF RunsAt
  <1>14. Running'
    BY <1>8, <1>13 DEF Running
  <1>15. Polled'
    <2>1. poll_mode => wb = NoWb /\ thread \notin {"clear", "service", "answer"}
      BY <1>0, <1>1, <1>2 DEF Polled, Modes
    <2> QED BY <1>2, <1>4, <1>6, <2>1 DEF Polled
  <1> QED BY <1>5, <1>7, <1>14, <1>15

\* The hardware stops on an error.
LEMMA BusErrorReport ==
    ASSUME Step, BusError
    PROVE  Modes' /\ Running' /\ Polled'
  <1>0. engine \in Engines /\ Modes /\ Polled
    BY TypesOf DEF Step, Report
  <1>1. /\ engine.busy /\ engine' = HwError(engine)
        /\ wb' = IF poll_mode THEN [count |-> engine.count, err |-> TRUE] ELSE wb
        /\ UNCHANGED <<poll_mode, pending, servicing, thread, got, device, moved>>
        /\ seen \subseteq seen'
    BY DEF BusError, poller, admin
  <1>2. /\ engine'.list = engine.list /\ engine'.running = engine.running /\ ~engine'.busy
        /\ engine'.pos = engine.pos
        /\ engine'.dequeued = engine.dequeued /\ engine'.count = engine.count
    BY <1>0, <1>1 DEF HwError, Engines
  <1>3. engine.running /\ ~servicing
    BY <1>0, <1>1 DEF Modes
  <1>4. Modes'
    BY <1>0, <1>1, <1>2, <1>3 DEF Modes
  <1>5. Running'
    BY <1>1, <1>2, RunKept
  <1>6. Polled'
    <2>1. poll_mode => thread \notin {"clear", "service", "answer"}
      BY <1>0, <1>1, <1>3 DEF Polled, Modes
    <2> QED BY <1>1, <1>2, <1>3, <2>1 DEF Polled
  <1> QED BY <1>4, <1>5, <1>6

\* The descriptors of no transfer and of the one at the head.
LEMMA HeadSum ==
    ASSUME NEW e \in Engines, e.list # <<>>
    PROVE  DescSum(e, 0) = 0 /\ DescSum(e, 1) = e.xfer[Head(e.list)].num
  <1>1. /\ e.list \in Seq(Xfers) /\ 1 \in 1 .. Len(e.list) /\ Head(e.list) = e.list[1]
        /\ Head(e.list) \in Xfers /\ Len(e.list) \in Nat
    BY HeadOn, LenProperties DEF Engines
  <1>2. 0 \in 0 .. Len(e.list) /\ 1 \in 0 .. Len(e.list)
    BY <1>1
  <1>3. DescSum(e, 0) = 0
    <2>1. PICK f : DescSum(e, 0) = f[0] /\
                   f = [j \in 0 .. 0 |-> IF j = 0 THEN 0 ELSE f[j - 1] + e.xfer[e.list[j]].num]
      BY <1>2, DescSumType
    <2> QED BY <2>1
  <1>4. DescSum(e, 1) = e.xfer[e.list[1]].num
    <2>1. PICK f : DescSum(e, 1) = f[1] /\
                   f = [j \in 0 .. 1 |-> IF j = 0 THEN 0 ELSE f[j - 1] + e.xfer[e.list[j]].num]
      BY <1>2, DescSumType
    <2>2. f[0] = 0
      BY <2>1
    <2>3. f[1] = f[1 - 1] + e.xfer[e.list[1]].num
      BY <2>1
    <2>4. e.xfer[e.list[1]].num \in Nat
      BY <1>1, Numbers DEF Engines, Transfers
    <2> QED BY <2>1, <2>2, <2>3, <2>4
  <1> QED BY <1>1, <1>3, <1>4

\* A count that ends in the head covers no transfer but that: the list is left
\* to engine_service_final_transfer.
LEMMA NoneCovered ==
    ASSUME NEW e \in Engines, e.list # <<>>, NEW c \in Nat, c <= e.xfer[Head(e.list)].num
    PROVE  engine_service_transfer_list(e, c) = e
  <1> DEFINE P(k) == /\ \A j \in 1 .. k : c > DescSum(e, j)
                     /\ k < Len(e.list) => c <= DescSum(e, k + 1)
             k == Covered(e, c)
  <1>1. /\ e.list \in Seq(Xfers) /\ 1 \in 1 .. Len(e.list) /\ Len(e.list) \in Nat
        /\ Head(e.list) \in Xfers
    BY HeadOn, LenProperties DEF Engines
  <1>2. DescSum(e, 0) = 0 /\ DescSum(e, 1) = e.xfer[Head(e.list)].num /\ DescSum(e, 1) \in Nat
    <2>1. DescSum(e, 0) = 0 /\ DescSum(e, 1) = e.xfer[Head(e.list)].num
      BY HeadSum
    <2>2. e.xfer[Head(e.list)].num \in Nat
      BY <1>1, Numbers DEF Engines, Transfers
    <2> QED BY <2>1, <2>2
  <1>3. P(0) /\ 0 \in 0 .. Len(e.list)
    BY <1>1, <1>2
  <1>4. k = CHOOSE l \in 0 .. Len(e.list) : P(l)
    BY DEF Covered
  <1>5. P(k) /\ k \in 0 .. Len(e.list)
    <2> HIDE DEF P, k
    <2> QED BY <1>3, <1>4
  <1>6. k = 0
    <2> SUFFICES ASSUME k # 0 PROVE FALSE
      OBVIOUS
    <2> HIDE DEF k
    <2>1. 1 \in 1 .. k
      BY <1>1, <1>5
    <2> QED BY <1>2, <1>5, <2>1
  <1> HIDE DEF k
  <1> DEFINE x == [r \in Xfers |-> IF \E j \in 1 .. k : e.list[j] = r
                                   THEN [e.xfer[r] EXCEPT !.state = "COMPLETED"]
                                   ELSE e.xfer[r]]
             d == e.dequeued + DescSum(e, k)
             l == SubSeq(e.list, k + 1, Len(e.list))
  <1>7. engine_service_transfer_list(e, c) = [e EXCEPT !.xfer = x, !.dequeued = d, !.list = l]
    BY DEF engine_service_transfer_list, k
  <1>8. x = e.xfer
    <2>1. e.xfer \in [Xfers -> Transfers]
      BY DEF Engines
    <2>2. \A r \in Xfers : x[r] = e.xfer[r]
      BY <1>6
    <2>3. x = [r \in Xfers |-> x[r]]
      OBVIOUS
    <2> HIDE DEF x
    <2> QED BY <2>1, <2>2, <2>3
  <1>9. d = e.dequeued
    BY <1>2, <1>6 DEF Engines
  <1>10. l = e.list
    BY <1>1, <1>6, SubSeqFull
  <1> HIDE DEF x, d, l
  <1> QED BY <1>7, <1>8, <1>9, <1>10 DEF Engines

\* What answering c descriptors of the head makes of a stopped engine e.
Answers(f, e, c) ==
    /\ c = 0 => f.list = e.list /\ f.xfer = e.xfer
    /\ c # 0 => /\ f.list = Tail(e.list)
                /\ \A x \in Xfers : x # Head(e.list) => f.xfer[x] = e.xfer[x]
                /\ f.xfer[Head(e.list)].state = "COMPLETED" => c = e.xfer[Head(e.list)].num
    /\ f.busy => f.running
    /\ f.running => /\ f.list # <<>> /\ f.count = 0 /\ f.dequeued = 0
                    /\ f.pos = f.xfer[Head(f.list)].first

\* The transfer at the head is failed, or all of its descriptors were counted.
LEMMA FinalHead ==
    ASSUME NEW e \in Engines, e.list # <<>>, NEW c \in Nat, c <= e.xfer[Head(e.list)].num,
           ~e.running, ~e.busy
    PROVE  LET f == engine_service_final_transfer(e, c)
           IN  /\ f \in Engines /\ ~f.running /\ ~f.busy /\ f.list = Tail(e.list)
               /\ \A x \in Xfers : x # Head(e.list) => f.xfer[x] = e.xfer[x]
               /\ f.xfer[Head(e.list)].state = "COMPLETED" => c = e.xfer[Head(e.list)].num
  <1> DEFINE h == Head(e.list)
             num == e.xfer[h].num
             f == engine_service_final_transfer(e, c)
  <1>1. h \in Xfers /\ e.xfer \in [Xfers -> Transfers] /\ e.xfer[h] \in Transfers
    BY HeadOn DEF Engines
  <1>2. num \in Nat
    BY <1>1, Numbers DEF Transfers
  <1>3. f \in Engines
    BY FinalTransferFields
  <1>4. ASSUME NEW state, NEW d
        PROVE  LET a == Answer(e, state, d)
               IN  /\ a.running = e.running /\ a.busy = e.busy /\ a.list = Tail(e.list)
                   /\ \A x \in Xfers : x # h => a.xfer[x] = e.xfer[x]
                   /\ a.xfer[h].state = state
                   /\ xdma_engine_stop(a).list = a.list /\ xdma_engine_stop(a).xfer = a.xfer
                   /\ ~xdma_engine_stop(a).running /\ ~xdma_engine_stop(a).busy
    <2> DEFINE x == [e.xfer EXCEPT ![h] = [@ EXCEPT !.state = state]]
               q == e.dequeued + d
               t == Tail(e.list)
               a == [e EXCEPT !.xfer = x, !.dequeued = q, !.list = t]
    <2>1. Answer(e, state, d) = a
      BY DEF Answer
    <2>2. x[h].state = state /\ \A y \in Xfers : y # h => x[y] = e.xfer[y]
      <3> HIDE DEF h
      <3> QED BY <1>1 DEF Transfers
    <2> HIDE DEF x, q, t, h
    <2>3. a.running = e.running /\ a.busy = e.busy /\ a.list = t /\ a.xfer = x
      BY DEF Engines
    <2>4. /\ xdma_engine_stop(a).list = t /\ xdma_engine_stop(a).xfer = x
          /\ ~xdma_engine_stop(a).running /\ ~xdma_engine_stop(a).busy
      BY DEF xdma_engine_stop, Engines
    <2> HIDE DEF a
    <2> QED BY <2>1, <2>2, <2>3, <2>4 DEF t
  <1>5. CASE "ERROR" \in e.status
    <2>1. f = xdma_engine_stop(Answer(e, "FAILED", 0))
      BY <1>5 DEF engine_service_final_transfer
    <2> HIDE DEF f, h
    <2> QED BY <1>3, <1>4, <2>1 DEF f, h
  <1>6. CASE "ERROR" \notin e.status
    <2> DEFINE state == IF c < num THEN "FAILED" ELSE "COMPLETED"
    <2>1. f = Answer(e, state, num)
      BY <1>6 DEF engine_service_final_transfer
    <2>2. state = "COMPLETED" => c = num
      BY <1>2
    <2> HIDE DEF f, h, state, num
    <2>3. /\ f.running = e.running /\ f.busy = e.busy /\ f.list = Tail(e.list)
          /\ \A x \in Xfers : x # h => f.xfer[x] = e.xfer[x]
          /\ f.xfer[h].state = state
      BY <1>4, <2>1
    <2>4. /\ ~f.running /\ ~f.busy /\ f.list = Tail(e.list)
          /\ \A x \in Xfers : x # h => f.xfer[x] = e.xfer[x]
          /\ f.xfer[h].state = "COMPLETED" => c = num
      BY <2>2, <2>3
    <2> QED BY <1>3, <2>4 DEF f, h, num
  <1> QED BY <1>5, <1>6

\* Without a completed descriptor nothing is answered; otherwise the head is,
\* and a run begins with the next transfer, if there is one.
LEMMA HeadAnswered ==
    ASSUME NEW e \in Engines, e.list # <<>>, NEW c \in Nat, c <= e.xfer[Head(e.list)].num,
           ~e.running, ~e.busy, e.dequeued = 0
    PROVE  Answers(answer_transfers(e, c), e, c)
  <1>1. CASE c = 0
    <2>1. answer_transfers(e, c) = e
      BY <1>1 DEF answer_transfers
    <2> QED BY <1>1, <2>1 DEF Answers
  <1>2. CASE c # 0
    <2> DEFINE g == engine_service_final_transfer(e, c)
               f == engine_service_resume(g)
    <2>1. /\ g \in Engines /\ ~g.running /\ ~g.busy /\ g.list = Tail(e.list)
          /\ \A x \in Xfers : x # Head(e.list) => g.xfer[x] = e.xfer[x]
          /\ g.xfer[Head(e.list)].state = "COMPLETED" => c = e.xfer[Head(e.list)].num
      BY FinalHead
    <2>2. answer_transfers(e, c) = f
      <3>1. Unsigned(c - e.dequeued) = c
        BY DEF Unsigned
      <3>2. engine_service_transfer_list(e, c) = e
        BY NoneCovered
      <3>3. c - (e.dequeued - e.dequeued) = c
        OBVIOUS
      <3> QED BY <1>2, <3>1, <3>2, <3>3 DEF answer_transfers
    <2> HIDE DEF g
    <2>3. CASE g.list # <<>>
      <3> DEFINE status == g.events \cup {"BUSY"}
                 pos == g.xfer[Head(g.list)].first
      <3>1. f = [g EXCEPT !.shutdown = {}, !.dequeued = 0, !.running = TRUE,
                          !.busy = TRUE, !.count = 0, !.status = status, !.pos = pos]
        BY <2>1, <2>3 DEF engine_service_resume, engine_start
      <3> HIDE DEF status, pos
      <3>2. /\ f.running /\ f.busy /\ f.count = 0 /\ f.dequeued = 0
            /\ f.pos = pos /\ f.xfer = g.xfer /\ f.list = g.list
        BY <2>1, <3>1 DEF Engines
      <3>3. f.pos = f.xfer[Head(f.list)].first
        BY <3>2 DEF pos
      <3> HIDE DEF f
      <3> QED BY <1>2, <2>1, <2>2, <2>3, <3>2, <3>3 DEF Answers
    <2>4. CASE g.list = <<>>
      <3>1. f.list = g.list /\ f.xfer = g.xfer /\ ~f.running /\ ~f.busy
        <4>1. CASE "REQUEST" \in g.shutdown
          <5> DEFINE d == g.shutdown \cup {"IDLE"}
          <5>1. f = [g EXCEPT !.shutdown = d]
            BY <2>1, <2>4, <4>1 DEF engine_service_resume
          <5> HIDE DEF d
          <5> QED BY <2>1, <5>1 DEF Engines
        <4>2. CASE "REQUEST" \notin g.shutdown
          <5>1. f = g
            BY <2>1, <2>4, <4>2 DEF engine_service_resume
          <5> QED BY <2>1, <5>1
        <4> QED BY <4>1, <4>2
      <3> HIDE DEF f
      <3> QED BY <1>2, <2>1, <2>2, <3>1 DEF Answers
    <2> QED BY <2>3, <2>4
  <1> QED BY <1>1, <1>2

\* Both ways of servicing the engine answer the count of the hardware.
LEMMA AnswersCount ==
    ASSUME Step, ServiceTransfers \/ PollAnswer
    PROVE  \E e \in Engines :
              /\ Suffix(e.list, engine.list) /\ SameChains(e, engine)
              /\ Complete(e) /\ UNCHANGED submit
              /\ Answers(e, engine, engine.count)
              /\ \E x \in Held : RunsAt(x)
  <1>0. engine \in Engines /\ Modes /\ Polled /\ IInv
    BY TypesOf DEF Step, Report
  <1>1. servicing
    BY <1>0 DEF ServiceTransfers, PollAnswer, Modes
  <1>2. PICK x \in Held : RunsAt(x)
    BY <1>1 DEF Step, Report, Running
  <1>3. ~engine.running /\ ~engine.busy
    BY <1>0, <1>1 DEF Modes
  <1>4. /\ engine.list # <<>> /\ engine.dequeued = 0 /\ engine.count \in Nat
        /\ engine.count <= engine.xfer[Head(engine.list)].num
    BY <1>0, <1>2 DEF RunsAt, Num, Engines
  <1> DEFINE e == answer_transfers(engine, engine.count)
  <1>5. Answers(e, engine, engine.count)
    BY <1>0, <1>3, <1>4, HeadAnswered
  <1>6. e \in Engines /\ Suffix(e.list, engine.list) /\ SameChains(e, engine)
    BY <1>0, <1>4, AnsweredFields
  <1>7. CASE ServiceTransfers
    <2> DEFINE f == [e EXCEPT !.irq = TRUE]
    <2>1. Complete(f) /\ UNCHANGED submit
      BY <1>7 DEF ServiceTransfers, service_transfers
    <2> HIDE DEF e
    <2>2. Kept(f, e)
      BY <1>6, StatusFields
    <2>3. /\ f.list = e.list /\ f.xfer = e.xfer /\ f.running = e.running /\ f.busy = e.busy
          /\ f.pos = e.pos /\ f.count = e.count /\ f.dequeued = e.dequeued
      BY <1>6 DEF Engines
    <2> HIDE DEF f
    <2>4. Answers(f, engine, engine.count)
      BY <1>5, <2>3 DEF Answers
    <2>5. f \in Engines /\ Suffix(f.list, engine.list) /\ SameChains(f, engine)
      BY <1>6, <2>2 DEF Kept, SameChains
    <2> QED BY <1>2, <2>1, <2>4, <2>5
  <1>8. CASE PollAnswer
    <2>1. thread = "answer" /\ poll_mode
      BY <1>0, <1>8 DEF PollAnswer, Modes
    <2>2. got.count = engine.count
      BY <1>0, <2>1 DEF Polled
    <2>3. Complete(e) /\ UNCHANGED submit
      BY <1>8, <2>2 DEF PollAnswer
    <2> HIDE DEF e
    <2> QED BY <1>2, <1>5, <1>6, <2>3
  <1> QED BY <1>7, <1>8

\* A transfer that has been answered as complete was moved.
LEMMA AnsweredMoved ==
    ASSUME Step, NEW e \in Engines, Answers(e, engine, engine.count),
           \E y \in Held : RunsAt(y),
           NEW x \in Xfers, Current(x), e.xfer[x].state = "COMPLETED"
    PROVE  Moved(x, Num(x))
  <1>1. CASE engine.xfer[x].state = "COMPLETED"
    BY <1>1 DEF Step, Report, Completes
  <1>2. CASE engine.xfer[x].state # "COMPLETED"
    <2>1. engine.count # 0 /\ x = Head(engine.list) /\ engine.count = Num(x)
      BY <1>2 DEF Answers, Num
    <2>2. Moved(x, engine.count)
      BY <2>1 DEF RunsAt
    <2> QED BY <2>1, <2>2
  <1> QED BY <1>1, <1>2

\* After an answer the engine is stopped, or it runs at the next transfer.
LEMMA AnswerRunning ==
    ASSUME Step, ServiceTransfers \/ PollAnswer
    PROVE  Modes' /\ Running' /\ Polled' /\ Completes'
  <1>0. engine \in Engines /\ Modes /\ Polled /\ IInv
    BY TypesOf DEF Step, Report
  <1>1. PICK e \in Engines :
            /\ Suffix(e.list, engine.list) /\ SameChains(e, engine)
            /\ Complete(e) /\ UNCHANGED submit
            /\ Answers(e, engine, engine.count)
            /\ \E x \in Held : RunsAt(x)
    BY AnswersCount
  <1>2. /\ engine'.list = e.list
        /\ engine'.running = e.running /\ engine'.busy = e.busy /\ engine'.pos = e.pos
        /\ engine'.count = e.count /\ engine'.dequeued = e.dequeued
        /\ \A x \in Xfers : x[1] \notin Done(e) => engine'.xfer[x] = e.xfer[x]
        /\ \A s \in Segs : s \notin Done(e) => req'[s] = req[s]
        /\ \A s \in Done(e) : ~req'[s].live
    BY <1>0, <1>1, CompletionChains
  <1>3. /\ servicing' = FALSE /\ UNCHANGED <<poll_mode, pending, moved, device, seen>>
        /\ PollAnswer => thread' = "check" /\ wb' = wb
        /\ ServiceTransfers => ~poll_mode /\ thread' = thread
    BY DEF ServiceTransfers, PollAnswer, PollReturn, poller, admin
  <1>4. engine'.busy => engine'.running
    BY <1>1, <1>2 DEF Answers
  <1>5. Modes'
    <2>1. PollAnswer => thread = "answer"
      BY DEF PollAnswer
    <2> QED BY <1>0, <1>3, <1>4, <2>1 DEF Modes
  <1>6. Polled'
    <2>1. PollAnswer => thread = "answer"
      BY DEF PollAnswer
    <2> QED BY <1>0, <1>3, <2>1 DEF Polled
  <1>7. Running'
    <2> SUFFICES ASSUME engine'.running PROVE \E x \in Held' : RunsAt(x)'
      BY <1>3 DEF Running
    <2>1. PICK x : x = Head(engine'.list)
      OBVIOUS
    <2>2. /\ engine'.list # <<>> /\ engine'.count = 0 /\ engine'.dequeued = 0
          /\ engine'.pos = e.xfer[x].first /\ e.list # <<>>
      BY <1>1, <1>2, <2>1 DEF Answers
    <2>3. /\ e.list \in Seq(Xfers) /\ 1 \in 1 .. Len(e.list) /\ x = e.list[1] /\ x \in Xfers
      BY <1>2, <2>1, <2>2, HeadOn DEF Engines
    <2>4. x \in Held'
      BY <1>2, <2>3 DEF Held, On
    <2>5. x[1] \notin Done(e)
      BY <1>0, <1>1, <2>3, StaysOn DEF Stays
    <2>6. engine'.pos = First(x)'
      BY <1>2, <2>2, <2>3, <2>5 DEF First
    <2>7. Num(x)' > 0 /\ Num(x)' \in Nat /\ First(x)' \in Int
      <3>1. Placed'
        BY StepFacts DEF Ring
      <3>2. engine'.xfer[x] \in Transfers
        BY <2>3 DEF Step, IInv, Types, Engines
      <3>3. Num(x)' \in Nat /\ First(x)' \in Int
        BY <3>2, Numbers DEF Num, First, Transfers, Slots
      <3> QED BY <2>4, <3>1, <3>3 DEF Placed
    <2>8. Moved(x, engine.count)'
      BY <2>2 DEF Moved
    <2>9. RunsAt(x)'
      BY <2>1, <2>2, <2>6, <2>7, <2>8 DEF RunsAt
    <2> QED BY <2>4, <2>9
  <1>8. Completes'
    <2> SUFFICES ASSUME NEW x \in Xfers, Current(x)', engine'.xfer[x].state = "COMPLETED"
                 PROVE  Moved(x, Num(x))'
      BY DEF Completes
    <2>1. x[1] \in Segs /\ x[1] \notin Done(e)
      BY <1>2, XferParts DEF Current
    <2>2. Current(x) /\ e.xfer[x].state = "COMPLETED"
      BY <1>2, <2>1 DEF Current
    <2>3. PICK n : n = Num(x)
      OBVIOUS
    <2>4. Moved(x, n)
      BY <1>1, <2>2, <2>3, AnsweredMoved
    <2>5. x \in Held /\ x \in Held'
      BY <2>2 DEF Held, Current
    <2>6. Moved(x, n)' /\ Num(x)' = n
      BY <2>3, <2>4, <2>5, MovedKept, StepFacts
    <2> QED BY <2>6 DEF Moved, Num, Start
  <1> QED BY <1>5, <1>6, <1>7, <1>8

\* What is reported of segments that are done was moved of them: descriptor j of
\* transfer x is software descriptor Start(x) + j - 1 of its segment.
LEMMA ResultMoved ==
    ASSUME Step, NEW e \in Engines, Suffix(e.list, engine.list), SameChains(e, engine),
           Answers(e, engine, engine.count), \E x \in Held : RunsAt(x),
           NEW i \in Iocbs, NEW S, S \subseteq Done(e), \A s \in S : s[1] = i
    PROVE  Cardinality(UNION {Transferred(e, s) : s \in S})
              <= Cardinality(UNION {{s[2]} \X moved[s] : s \in S})
  <1> DEFINE U == UNION {Transferred(e, s) : s \in S}
             W == UNION {{s[2]} \X moved[s] : s \in S}
             Software(p) == <<p[1][1][2], Start(p[1]) + p[2] - 1>>
             f == [p \in U |-> Software(p)]
  <1>0. IInv /\ moved \in [Segs -> SUBSET (0 .. MaxDescs - 1)]
    BY DEF Step, Report, Modes
  <1>1. \A s \in S : s \in Segs /\ s[1] = i /\ s = <<i, s[2]>> /\ req[s].live
    BY <1>0, DoneFacts, SegParts
  <1>2. IsFiniteSet(W)
    BY <1>0, <1>1, MovedFinite
  <1>3. ASSUME NEW p \in U
        PROVE  /\ p = <<p[1], p[2]>> /\ p[1] \in Xfers /\ p[1][1] \in S /\ p[1][2] \in {0, 1}
               /\ p[1] = <<p[1][1], p[1][2]>>
               /\ Num(p[1]) \in Nat /\ p[2] \in 1 .. Num(p[1])
               /\ Start(p[1]) \in Nat /\ Start(p[1]) + p[2] - 1 \in moved[p[1][1]]
    <2>1. PICK s \in S : p \in Transferred(e, s)
      OBVIOUS
    <2> DEFINE X == {x \in {s} \X Looked(e, s) : e.xfer[x].state = "COMPLETED"}
    <2>2. PICK x \in X : p \in {x} \X (1 .. e.xfer[x].num)
      BY <2>1 DEF Transferred, Descs
    <2>3. /\ p = <<x, p[2]>> /\ p[1] = x /\ p[2] \in 1 .. e.xfer[x].num
          /\ x[1] = s /\ x[2] \in Looked(e, s) /\ x = <<s, x[2]>>
          /\ e.xfer[x].state = "COMPLETED"
      BY <2>2
    <2>4. s \in Segs /\ req[s].live /\ req[s].tfer \in 0 .. 2
      BY <1>0, <1>1, Numbers DEF IInv, Types, Reqs
    <2>5. x[2] \in {0, 1} /\ x \in Xfers /\ x[2] < req[s].tfer
      <3>1. x[2] \in {0, 1}
        BY <1>0, <2>3, <2>4, LookedIn
      <3>2. x[2] \in 0 .. req[s].tfer - 1
        BY <2>3 DEF Looked
      <3>3. <<s, x[2]>> \in Xfers
        BY <2>4, <3>1, XferOf
      <3>4. x[2] < req[s].tfer
        BY <2>4, <3>1, <3>2
      <3> QED BY <2>3, <3>1, <3>3, <3>4
    <2>6. Moved(x, Num(x))
      BY <2>3, <2>4, <2>5, AnsweredMoved DEF Current
    <2>7. Num(x) \in Nat /\ e.xfer[x].num = Num(x) /\ Start(x) \in Nat
      <3>1. Num(x) \in Nat
        BY <1>0, <2>5, Place
      <3>2. <<s, 0>> \in Xfers
        BY <2>4, XferOf
      <3>3. Num(<<s, 0>>) \in Nat
        BY <1>0, <3>2, Place
      <3> QED BY <2>3, <2>5, <3>1, <3>3 DEF SameChains, Num, Start
    <2>8. Start(x) + p[2] - 1 \in moved[s]
      <3>1. PICK j : j = p[2] - 1
        OBVIOUS
      <3>2. j \in 0 .. Num(x) - 1 /\ Start(x) + p[2] - 1 = Start(x) + j
        BY <2>3, <2>7, <3>1
      <3> QED BY <2>3, <2>6, <3>2 DEF Moved
    <2> QED BY <2>3, <2>5, <2>7, <2>8
  <1>4. \A p \in U : Software(p) \in W
    <2>1. TAKE p \in U
    <2>2. PICK s : s = p[1][1]
      OBVIOUS
    <2>3. s \in S /\ Software(p) \in {s[2]} \X moved[s]
      BY <1>3, <2>2
    <2> QED BY <2>3
  <1>5. ASSUME NEW p \in U, NEW q \in U, Software(p) = Software(q) PROVE p = q
    <2> HIDE DEF U
    <2>1. p[1][1][2] = q[1][1][2] /\ Start(p[1]) + p[2] - 1 = Start(q[1]) + q[2] - 1
      BY <1>5
    <2>2. PICK x, y, j, k : x = p[1] /\ y = q[1] /\ j = p[2] /\ k = q[2]
      OBVIOUS
    <2>3. /\ p = <<x, j>> /\ x[1] \in S /\ x[2] \in {0, 1} /\ x = <<x[1], x[2]>>
          /\ Num(x) \in Nat /\ j \in 1 .. Num(x) /\ Start(x) \in Nat
          /\ q = <<y, k>> /\ y[1] \in S /\ y[2] \in {0, 1} /\ y = <<y[1], y[2]>>
          /\ Num(y) \in Nat /\ k \in 1 .. Num(y) /\ Start(y) \in Nat
      BY <1>3, <2>2
    <2>4. x[1] = y[1]
      BY <1>1, <2>1, <2>2, <2>3
    <2>5. Start(x) + j = Start(y) + k
      BY <2>1, <2>2, <2>3
    <2>6. x[2] = y[2]
      <3>1. CASE x[2] = 0 /\ y[2] = 1
        <4>1. Start(x) = 0 /\ Start(y) = Num(x)
          BY <2>3, <2>4, <3>1 DEF Start
        <4> QED BY <2>3, <2>5, <4>1
      <3>2. CASE x[2] = 1 /\ y[2] = 0
        <4>1. Start(y) = 0 /\ Start(x) = Num(y)
          BY <2>3, <2>4, <3>2 DEF Start
        <4> QED BY <2>3, <2>5, <4>1
      <3> QED BY <2>3, <3>1, <3>2
    <2>7. x = y
      BY <2>3, <2>4, <2>6
    <2>8. j = k
      BY <2>3, <2>5, <2>7
    <2> QED BY <2>3, <2>7, <2>8
  <1>6. f \in Injection(U, W)
    <2> HIDE DEF U, W, Software
    <2> QED BY <1>4, <1>5 DEF Injection, IsInjective
  <1>7. Cardinality(U) <= Cardinality(W)
    <2> HIDE DEF U, W, f
    <2> QED BY <1>2, <1>6, FS_Injection
  <1> QED BY <1>7

\* So what an iocb is reported stays within what was moved for it.
LEMMA AnswerTold ==
    ASSUME Step, ServiceTransfers \/ PollAnswer
    PROVE  Told'
  <1>0. IInv /\ moved \in [Segs -> SUBSET (0 .. MaxDescs - 1)] /\ moved' = moved
    BY DEF Step, Report, Modes, ServiceTransfers, PollAnswer
  <1>1. PICK e \in Engines :
            /\ Suffix(e.list, engine.list) /\ SameChains(e, engine)
            /\ Complete(e) /\ UNCHANGED submit
            /\ Answers(e, engine, engine.count)
            /\ \E x \in Held : RunsAt(x)
    BY AnswersCount
  <1>2. ASSUME NEW i \in Iocbs PROVE caio'[i].res <= Cardinality(MovedOf(i)')
    <2> DEFINE S == {s \in Done(e) : s[1] = i}
               U == UNION {Transferred(e, s) : s \in S}
               W == UNION {{s[2]} \X moved[s] : s \in S}
               M == UNION {{s[2]} \X moved[s] : s \in Completed(i)}
               V == UNION {{s[2]} \X moved'[s] : s \in Completed(i)'}
    <2>1. caio'[i].res = caio[i].res + Cardinality(U)
      <3>1. caio' = async_io_handler(e)
        BY <1>1 DEF Complete
      <3>2. caio[i] \in Caios(i)
        BY <1>0 DEF IInv, Types
      <3> QED BY <3>1, <3>2 DEF async_io_handler, Caios
    <2>2. \A s \in Done(e) : s \in Segs /\ s = <<s[1], s[2]>> /\ req[s].live /\ req[s].total > 0
      BY <1>0, <1>1, DoneFacts, SegParts
    <2>3. \A s \in Completed(i) : s \in Segs /\ s = <<s[1], s[2]>> /\ s[1] = i /\ ~req[s].live
      BY SegParts DEF Completed
    <2>4. IsFiniteSet(M) /\ Cardinality(M) \in Nat /\ IsFiniteSet(W) /\ Cardinality(W) \in Nat
      <3>1. S \subseteq Segs /\ Completed(i) \subseteq Segs
        BY <2>2, <2>3
      <3>2. \A s \in S : s[1] = i
        OBVIOUS
      <3>3. IsFiniteSet(M) /\ Cardinality(M) \in Nat
        BY <1>0, <2>3, <3>1, MovedFinite
      <3>4. IsFiniteSet(W) /\ Cardinality(W) \in Nat
        <4> HIDE DEF S
        <4> QED BY <1>0, <3>1, <3>2, MovedFinite
      <3> QED BY <3>3, <3>4
    <2>5. IsFiniteSet(V) /\ Cardinality(V) \in Nat
      <3>1. Completed(i)' \subseteq Segs /\ \A s \in Completed(i)' : s[1] = i
        BY DEF Completed
      <3>2. moved' \in [Segs -> SUBSET (0 .. MaxDescs - 1)]
        BY <1>0
      <3> QED BY <3>1, <3>2, MovedFinite
    <2>6. M \cap W = {}
      <3> SUFFICES ASSUME NEW p \in M, p \in W PROVE FALSE
        OBVIOUS
      <3>1. PICK s \in Completed(i) : p \in {s[2]} \X moved[s]
        OBVIOUS
      <3>2. PICK t \in S : p \in {t[2]} \X moved[t]
        OBVIOUS
      <3>3. s[2] = t[2] /\ t[1] = i
        BY <3>1, <3>2
      <3> QED BY <2>2, <2>3, <3>3
    <2>7. Completed(i) \subseteq Completed(i)' /\ S \subseteq Completed(i)'
      <3>1. Completed(i) \subseteq Completed(i)'
        BY <1>0, CompletedGrows DEF Step
      <3>2. ASSUME NEW s \in S PROVE s \in Completed(i)'
        <4>1. req' = [t \in Segs |-> IF t \in Done(e) THEN [req[t] EXCEPT !.live = FALSE]
                                     ELSE req[t]]
          BY <1>1 DEF Complete
        <4>2. s \in Segs /\ req[s] \in Reqs /\ req[s].total > 0 /\ s \in Done(e) /\ s[1] = i
          BY <1>0, <2>2 DEF IInv, Types
        <4>3. ~req'[s].live /\ req'[s].total = req[s].total
          BY <4>1, <4>2 DEF Reqs
        <4> QED BY <4>2, <4>3 DEF Completed
      <3> QED BY <3>1, <3>2
    <2>8. M \cup W \subseteq V
      BY <1>0, <2>7
    <2>9. Cardinality(U) <= Cardinality(W)
      BY <1>1, ResultMoved
    <2>10. Cardinality(U) \in Nat
      BY <1>0, <1>1, ResultNatural
    <2>11. caio[i].res <= Cardinality(M) /\ caio[i].res \in Nat
      BY <1>0 DEF Step, Report, Told, MovedOf, IInv, Types, Caios
    <2>12. V = MovedOf(i)'
      BY DEF MovedOf
    <2> HIDE DEF S, U, W, M, V
    <2>13. Cardinality(M \cup W) = Cardinality(M) + Cardinality(W) - Cardinality(M \cap W)
      BY <2>4, FS_Union
    <2>14. Cardinality(M \cap W) = 0
      BY <2>6, FS_EmptySet
    <2>15. Cardinality(M \cup W) <= Cardinality(V)
      BY <2>5, <2>8, FS_Subset
    <2>16. caio'[i].res <= Cardinality(V)
      BY <2>1, <2>4, <2>5, <2>9, <2>10, <2>11, <2>13, <2>14, <2>15
    <2> QED BY <2>12, <2>16
  <1> QED BY <1>2 DEF Told

\* A regular history was regular before.
LEMMA RegularBefore ==
    ASSUME [Next]_vars, Regular'
    PROVE  Regular
  <1>1. seen \subseteq seen'
    BY SeenGrows
  <1>2. poll_mode' = poll_mode
    <2>1. ASSUME NEW i \in Iocbs, Proceed(i) PROVE poll_mode' = poll_mode
      BY <2>1 DEF Proceed, AlignFailed, MapFailed, SubmitRefused, Submit, Build, CheckOnline,
                  Queue, QueueRefused, Wakeup, driver
    <2>2. ASSUME NEW i \in Iocbs, NEW n \in 1 .. MaxSegs[i], AioStart(i, n)
          PROVE  poll_mode' = poll_mode
      BY <2>2 DEF AioStart, driver
    <2>3. CASE Interrupts \/ Poll \/ PollTimeout \/ OfflineFlag \/ OfflineStop \/ Online
                  \/ Hardware \/ UNCHANGED vars
      BY <2>3 DEF Interrupts, xdma_isr, ServiceStatus, ServiceTransfers, Poll, PollTimeout,
                  PollCheck, PollWake, PollProc, PollRead, PollClear, PollStatus, PollAnswer,
                  OfflineFlag, OfflineStop, Online, Hardware, Move, BusError, vars, driver
    <2> QED BY <2>1, <2>2, <2>3 DEF Next
  <1> QED BY <1>1, <1>2 DEF Regular, Orderly

\* Initially nothing runs and nothing is reported,
LEMMA ReportInit == Init => ReportInv
  <1> SUFFICES ASSUME Init PROVE Report
    BY DEF ReportInv
  <1>1. engine = [EngineInit EXCEPT !.idx = DescMax - 1]
    BY DEF Init
  <1>2. engine.running = FALSE /\ engine.busy = FALSE
    BY <1>1 DEF EngineInit
  <1>3. Modes
    BY <1>2 DEF Init, Modes
  <1>4. Running
    BY <1>2 DEF Init, Running
  <1>5. Polled
    BY DEF Init, Polled
  <1>6. Completes
    BY XferParts DEF Init, Completes, Current, NoReq
  <1>7. ASSUME NEW i \in Iocbs PROVE caio[i].res <= Cardinality(MovedOf(i))
    <2>1. caio[i].res = 0
      BY DEF Init, NoCaio
    <2>2. Completed(i) \subseteq Segs /\ \A s \in Completed(i) : s[1] = i
      BY DEF Completed
    <2>3. Cardinality(MovedOf(i)) \in Nat
      BY <1>3, <2>2, MovedFinite DEF MovedOf, Modes
    <2> QED BY <2>1, <2>3
  <1> QED BY <1>3, <1>4, <1>5, <1>6, <1>7 DEF Report, Told

\* and every step keeps it so.
LEMMA ReportNext == IInv /\ PartsInv /\ RingInv /\ ReportInv /\ [Next]_vars => ReportInv'
  <1> SUFFICES ASSUME IInv, PartsInv, RingInv, ReportInv, [Next]_vars, Regular'
               PROVE  Report'
    BY DEF ReportInv
  <1>0. Step
    BY RegularBefore, InvNext, PartsNext, RingNext DEF Step, ReportInv
  <1>1. CASE ServiceTransfers \/ PollAnswer
    BY <1>0, <1>1, AnswerRunning, AnswerTold DEF Report
  <1>2. CASE ~(ServiceTransfers \/ PollAnswer)
    <2> DEFINE G == Modes' /\ Running' /\ Polled'
    <2>1. G
      <3>1. ASSUME NEW i \in Iocbs, NEW n \in 1 .. MaxSegs[i], AioStart(i, n) PROVE G
        BY <1>0, <3>1, SubmitterReport
      <3>2. ASSUME NEW i \in Iocbs, Proceed(i) PROVE G
        BY <1>0, <3>2, SubmitterReport, QueueReport DEF Proceed
      <3>3. CASE xdma_isr \/ OfflineFlag \/ Online \/ UNCHANGED vars
        BY <1>0, <3>3, CalmReport
      <3>4. CASE PollCheck \/ PollWake \/ PollProc \/ PollRead \/ PollClear \/ PollTimeout
        BY <1>0, <3>4, ThreadReport
      <3>5. CASE ServiceStatus
        BY <1>0, <3>5, StatusReport
      <3>6. CASE PollStatus
        BY <1>0, <3>6, PollStatusReport
      <3>7. CASE OfflineStop
        BY <1>0, <3>7, OfflineReport
      <3>8. CASE Move
        BY <1>0, <3>8, MoveReport
      <3>9. CASE BusError
        BY <1>0, <3>9, BusErrorReport
      <3> HIDE DEF G
      <3> QED BY <1>2, <3>1, <3>2, <3>3, <3>4, <3>5, <3>6, <3>7, <3>8, <3>9
              DEF Next, Interrupts, Poll, Hardware
    <2>2. moved' \in [Segs -> SUBSET (0 .. MaxDescs - 1)]
      BY <2>1 DEF Modes
    <2> QED BY <1>0, <1>2, <2>1, <2>2, UnansweredReport DEF Report
  <1> QED BY <1>1, <1>2

\* An iocb is never reported more descriptors than the hardware has moved for
\* it: async_io_handler adds up only transfers that engine_service_final_transfer
\* found covered by the count of their own run, in interrupt mode also across
\* errors and resets, for a ring of any size and any number of submitters.
THEOREM ReportedAlwaysMoved == Spec => []ReportedIsMoved
  <1>1. IInv /\ ReportInv => ReportedIsMoved
    <2> SUFFICES ASSUME IInv, Report, NEW i \in Iocbs
                 PROVE  caio[i].res <= Cardinality(
                            UNION {{n} \X moved[<<i, n>>] : n \in 1 .. MaxSegs[i]})
      BY DEF ReportInv, ReportedIsMoved, Regular
    <2> DEFINE C == {s \in Segs : s[1] = i}
               U == UNION {{s[2]} \X moved[s] : s \in C}
               V == UNION {{n} \X moved[<<i, n>>] : n \in 1 .. MaxSegs[i]}
    <2>1. U = V
      <3>1. ASSUME NEW p \in U PROVE p \in V
        <4>1. PICK s \in C : p \in {s[2]} \X moved[s]
          OBVIOUS
        <4>2. s[2] \in 1 .. MaxSegs[i] /\ s = <<i, s[2]>>
          BY SegParts
        <4> QED BY <4>1, <4>2
      <3>2. ASSUME NEW p \in V PROVE p \in U
        <4>1. PICK n \in 1 .. MaxSegs[i] : p \in {n} \X moved[<<i, n>>]
          OBVIOUS
        <4>2. PICK s : s = <<i, n>>
          OBVIOUS
        <4>3. s \in C /\ s[2] = n
          BY <4>2, SegOf
        <4> QED BY <4>1, <4>2, <4>3
      <3> QED BY <3>1, <3>2
    <2>2. moved \in [Segs -> SUBSET (0 .. MaxDescs - 1)]
      BY DEF Report, Modes
    <2>3. IsFiniteSet(U) /\ Cardinality(U) \in Nat
      BY <2>2, MovedFinite
    <2>4. MovedOf(i) \subseteq U
      BY DEF MovedOf, Completed
    <2>5. caio[i].res <= Cardinality(MovedOf(i)) /\ caio[i].res \in Nat
      BY DEF Report, Told, IInv, Types, Caios
    <2> HIDE DEF U, V
    <2>6. Cardinality(MovedOf(i)) <= Cardinality(U) /\ IsFiniteSet(MovedOf(i))
      BY <2>3, <2>4, FS_Subset
    <2>7. Cardinality(MovedOf(i)) \in Nat
      BY <2>6, FS_CardinalityType
    <2>8. caio[i].res <= Cardinality(V)
      BY <2>1, <2>3, <2>5, <2>6, <2>7
    <2> QED BY <2>8 DEF V
  <1>2. Spec => []PartsInv
    BY InvHolds, PartsInit, PartsNext, PTL DEF Spec
  <1>3. Spec => []RingInv
    BY <1>2, InvHolds, RingInit, RingNext, PTL DEF Spec
  <1> QED BY <1>1, <1>2, <1>3, InvHolds, ReportInit, ReportNext, PTL DEF Spec

-----------------------------------------------------------------------------
(* The types that IInv leaves out: what desc_used and desc_dequeued count, *)
(* and where the hardware may be, also in a ring that was overrun.         *)

\* The variables that the rest does not speak of.
Rest ==
    /\ poll_mode \in BOOLEAN /\ pending \in BOOLEAN /\ servicing \in BOOLEAN
    /\ thread \in {"check", "sleep", "proc", "poll", "clear", "service", "answer"}
    /\ schedule \in BOOLEAN /\ expected \in 0 .. DescMax
    /\ wb.count <= DescMax /\ got.count <= DescMax
    /\ device \in {"up", "stopping", "down"} /\ offline \in BOOLEAN
    /\ faults \in 0 .. MaxFaults
    /\ moved \in [Segs -> SUBSET (0 .. MaxDescs - 1)]
    /\ seen \subseteq {"overrun", "interleaved", "error", "reset", "early"}

\* The hardware is in the ring, and has moved no more than it has passed: a
\* chain stops at the end of the ring, if not before.
Fits(e) ==
    /\ e.pos \in Slots /\ e.count <= DescMax
    /\ e.busy => e.count <= e.pos
    /\ e.ring[DescMax - 1].magic => e.ring[DescMax - 1].last
Within == Fits(engine)

Short == \A x \in Xfers : Num(x) <= MaxDescs

\* desc_used counts at least what is held.
Counted == engine.used <= MaxUsed /\ Cardinality(Descs(engine, Held)) <= engine.used

\* A segment adds no more to the result than it may have descriptors.
Bounded == \A i \in Iocbs : caio[i].res <= caio[i].cmpl_cnt * MaxDescs

\* The software descriptors of transfer x, counted from 1.
Software(x) == Start(x) + 1 .. Start(x) + Num(x)

\* Those that have not been answered: of segments to come, not built yet, or
\* of transfers that are listed or about to be.
Unspent ==
    {p \in Segs \X (1 .. MaxDescs) :
        \/ Ahead(p[1])
        \/ req[p[1]].live /\ p[2] > req[p[1]].next
        \/ \E x \in Xfers : x[1] = p[1] /\ (On(x) \/ Unqueued(x)) /\ p[2] \in Software(x)}

\* desc_dequeued counts each of the others at most once.
Dequeues == engine.dequeued + Cardinality(Unspent) <= Cardinality(Segs) * MaxDescs

TypeInv == Rest /\ Within /\ Short /\ Counted /\ Bounded /\ Dequeues

\* The hardware of f is where that of e is, or was.
SameRun(f, e) ==
    f.pos = e.pos /\ f.count = e.count /\ f.ring = e.ring /\ (f.busy => e.busy)

\* And nothing is dequeued on the way.
SameDequeued(f, e) == SameRun(f, e) /\ f.dequeued = e.dequeued

\* Then it is within the ring as well.
LEMMA FitsSame ==
    ASSUME NEW e, NEW f, Fits(e), SameRun(f, e)
    PROVE  Fits(f)
  BY DEF Fits, SameRun

\* Registers, and the flags of the driver.
LEMMA RegisterRun ==
    ASSUME NEW e \in Engines
    PROVE  /\ SameDequeued(engine_status_read(e), e) /\ SameDequeued(xdma_engine_stop(e), e)
           /\ SameDequeued(HwError(e), e)
           /\ \A b : SameDequeued([e EXCEPT !.irq = b], e)
           /\ \A d : SameDequeued([e EXCEPT !.shutdown = d], e)
           /\ \A d, b : SameDequeued([e EXCEPT !.shutdown = d, !.irq = b], e)
  <1>1. SameDequeued(engine_status_read(e), e)
    <2> DEFINE status == e.events \cup (IF e.busy THEN {"BUSY"} ELSE {})
               f == [e EXCEPT !.status = status, !.events = {}]
    <2>1. engine_status_read(e) = f
      BY DEF engine_status_read
    <2> HIDE DEF status
    <2> QED BY <2>1 DEF Engines, SameDequeued, SameRun
  <1>2. SameDequeued(xdma_engine_stop(e), e)
    BY DEF Engines, xdma_engine_stop, SameDequeued, SameRun
  <1>3. SameDequeued(HwError(e), e)
    <2> DEFINE events == e.events \cup {"ERROR"}
    <2>1. HwError(e) = [e EXCEPT !.busy = FALSE, !.events = events]
      BY DEF HwError
    <2> HIDE DEF events
    <2> QED BY <2>1 DEF Engines, SameDequeued, SameRun
  <1>4. \A b : SameDequeued([e EXCEPT !.irq = b], e)
    BY DEF Engines, SameDequeued, SameRun
  <1>5. \A d : SameDequeued([e EXCEPT !.shutdown = d], e)
    BY DEF Engines, SameDequeued, SameRun
  <1>6. \A d, b : SameDequeued([e EXCEPT !.shutdown = d, !.irq = b], e)
    BY DEF Engines, SameDequeued, SameRun
  <1> QED BY <1>1, <1>2, <1>3, <1>4, <1>5, <1>6

\* A run begins in the ring.
LEMMA StartFits ==
    ASSUME NEW e \in Engines, Fits(e)
    PROVE  Fits(engine_start(e))
  <1>1. CASE e.running \/ e.list = <<>>
    BY <1>1 DEF engine_start
  <1>2. CASE ~(e.running \/ e.list = <<>>)
    <2> DEFINE status == e.events \cup {"BUSY"}
               pos == e.xfer[Head(e.list)].first
               f == [e EXCEPT !.shutdown = {}, !.dequeued = 0, !.running = TRUE,
                              !.busy = TRUE, !.count = 0, !.status = status,
                              !.pos = pos]
    <2>1. engine_start(e) = f
      BY <1>2 DEF engine_start
    <2>2. pos \in Slots
      <3>1. Head(e.list) \in Xfers
        BY <1>2, HeadOn DEF Engines
      <3> QED BY <3>1 DEF Engines, Transfers
    <2> HIDE DEF status, pos
    <2>3. f.pos = pos /\ f.count = 0 /\ f.ring = e.ring
      BY DEF Engines
    <2>4. 0 <= DescMax /\ 0 <= pos
      BY <2>2, Numbers DEF Slots
    <2> HIDE DEF f
    <2> QED BY <2>1, <2>2, <2>3, <2>4 DEF Fits
  <1> QED BY <1>1, <1>2

\* Answering a transfer leaves the hardware alone.
LEMMA AnswerRun ==
    ASSUME NEW e \in Engines, NEW state, NEW d
    PROVE  /\ SameRun(Answer(e, state, d), e)
           /\ Answer(e, state, d).dequeued = e.dequeued + d
           /\ Answer(e, state, d).list = Tail(e.list)
  <1> DEFINE x == [e.xfer EXCEPT ![Head(e.list)] = [@ EXCEPT !.state = state]]
             q == e.dequeued + d
             t == Tail(e.list)
             a == [e EXCEPT !.xfer = x, !.dequeued = q, !.list = t]
  <1>1. Answer(e, state, d) = a
    BY DEF Answer
  <1> HIDE DEF x, q, t
  <1>2. SameRun(a, e) /\ a.dequeued = q /\ a.list = t
    BY DEF Engines, SameRun
  <1> QED BY <1>1, <1>2 DEF q, t

\* So does answering the transfers that are covered.
LEMMA TransferListRun ==
    ASSUME NEW e \in Engines, NEW n \in Int
    PROVE  /\ SameRun(engine_service_transfer_list(e, n), e)
           /\ engine_service_transfer_list(e, n).dequeued = e.dequeued + DescSum(e, Covered(e, n))
           /\ engine_service_transfer_list(e, n).list
                 = SubSeq(e.list, Covered(e, n) + 1, Len(e.list))
  <1> DEFINE k == Covered(e, n)
             x == [r \in Xfers |-> IF \E j \in 1 .. k : e.list[j] = r
                                   THEN [e.xfer[r] EXCEPT !.state = "COMPLETED"]
                                   ELSE e.xfer[r]]
             d == e.dequeued + DescSum(e, k)
             l == SubSeq(e.list, k + 1, Len(e.list))
             f == [e EXCEPT !.xfer = x, !.dequeued = d, !.list = l]
  <1>1. engine_service_transfer_list(e, n) = f
    BY DEF engine_service_transfer_list
  <1> HIDE DEF x, d, l
  <1>2. SameRun(f, e) /\ f.dequeued = d /\ f.list = l
    BY DEF Engines, SameRun
  <1> QED BY <1>1, <1>2 DEF d, l

\* engine_service_resume stops the run or begins one.
LEMMA ResumeFits ==
    ASSUME NEW e \in Engines, Fits(e)
    PROVE  Fits(engine_service_resume(e))
  <1>1. CASE ~e.running /\ e.list # <<>>
    BY <1>1, StartFits DEF engine_service_resume
  <1>2. CASE ~e.running /\ e.list = <<>> /\ "REQUEST" \in e.shutdown
    <2> DEFINE d == e.shutdown \cup {"IDLE"}
    <2>1. engine_service_resume(e) = [e EXCEPT !.shutdown = d]
      BY <1>2 DEF engine_service_resume
    <2> HIDE DEF d
    <2> QED BY <2>1, RegisterRun, FitsSame DEF SameDequeued
  <1>3. CASE e.running /\ e.list = <<>>
    <2>1. engine_service_resume(e) = xdma_engine_stop(e)
      BY <1>3 DEF engine_service_resume, engine_service_shutdown
    <2> QED BY <2>1, RegisterRun, FitsSame DEF SameDequeued
  <1>4. CASE \/ e.running /\ e.list # <<>>
             \/ ~e.running /\ e.list = <<>> /\ "REQUEST" \notin e.shutdown
    <2>1. engine_service_resume(e) = e
      BY <1>4 DEF engine_service_resume
    <2> QED BY <2>1
  <1>5. e.running \in BOOLEAN
    BY DEF Engines
  <1> QED BY <1>1, <1>2, <1>3, <1>4, <1>5

\* The transfer at the head leaves the list, and adds at most its length.
LEMMA FinalRun ==
    ASSUME NEW e \in Engines, NEW n \in Int
    PROVE  LET f == engine_service_final_transfer(e, n)
           IN  /\ SameRun(f, e)
               /\ e.list = <<>> => f = e
               /\ e.list # <<>> => /\ f.list = Tail(e.list)
                                   /\ f.dequeued <= e.dequeued + e.xfer[Head(e.list)].num
  <1> DEFINE num == e.xfer[Head(e.list)].num
             f == engine_service_final_transfer(e, n)
             G == /\ SameRun(f, e)
                  /\ e.list = <<>> => f = e
                  /\ e.list # <<>> => f.list = Tail(e.list) /\ f.dequeued <= e.dequeued + num
  <1> SUFFICES G
    OBVIOUS
  <1>0. e.list # <<>> => num \in Nat /\ e.dequeued \in Nat
    <2>1. e.list # <<>> => Head(e.list) \in Xfers
      BY HeadOn DEF Engines
    <2> QED BY <2>1, Numbers DEF Engines, Transfers
  <1>1. CASE e.list = <<>>
    <2>1. f = e
      BY <1>1 DEF engine_service_final_transfer
    <2> QED BY <1>1, <2>1 DEF SameRun
  <1>2. CASE e.list # <<>> /\ "ERROR" \in e.status
    <2> DEFINE a == Answer(e, "FAILED", 0)
    <2>1. f = xdma_engine_stop(a)
      BY <1>2 DEF engine_service_final_transfer
    <2>2. a \in Engines
      BY <1>2, AnswerFields DEF TransferStates
    <2>3. SameRun(a, e) /\ a.dequeued = e.dequeued + 0 /\ a.list = Tail(e.list)
      BY AnswerRun
    <2> HIDE DEF a, num
    <2>4. /\ SameRun(xdma_engine_stop(a), a) /\ xdma_engine_stop(a).list = a.list
          /\ xdma_engine_stop(a).dequeued = a.dequeued
      BY <2>2, RegisterRun DEF xdma_engine_stop, Engines, SameDequeued
    <2>5. a.dequeued <= e.dequeued + num
      BY <1>0, <1>2, <2>3
    <2> HIDE DEF f
    <2> QED BY <1>2, <2>1, <2>3, <2>4, <2>5 DEF SameRun
  <1>3. CASE e.list # <<>> /\ "ERROR" \notin e.status
    <2> DEFINE state == IF n < num THEN "FAILED" ELSE "COMPLETED"
    <2>1. f = Answer(e, state, num)
      BY <1>3 DEF engine_service_final_transfer
    <2> HIDE DEF f, state
    <2>2. SameRun(f, e) /\ f.dequeued = e.dequeued + num /\ f.list = Tail(e.list)
      BY <2>1, AnswerRun
    <2> HIDE DEF num
    <2> QED BY <1>0, <1>3, <2>2
  <1> QED BY <1>1, <1>2, <1>3

\* Servicing the engine keeps the hardware within the ring.
LEMMA AnswerFits ==
    ASSUME NEW e \in Engines, Fits(e), NEW count \in Nat
    PROVE  Fits(answer_transfers(e, count))
  <1>1. CASE count = 0
    BY <1>1 DEF answer_transfers
  <1>2. CASE count # 0
    <2> DEFINE desc_count == Unsigned(count - e.dequeued)
               listed == engine_service_transfer_list(e, desc_count)
               rest == desc_count - (listed.dequeued - e.dequeued)
               final == engine_service_final_transfer(listed, rest)
    <2>1. answer_transfers(e, count) = engine_service_resume(final)
      BY <1>2 DEF answer_transfers
    <2>2. desc_count \in Int /\ e.dequeued \in Nat
      BY DEF Unsigned, Engines
    <2> HIDE DEF desc_count
    <2>3. listed \in Engines /\ SameRun(listed, e)
      BY <2>2, TransferListFields, TransferListRun
    <2> HIDE DEF listed
    <2>4. rest \in Int
      BY <2>2, <2>3 DEF Engines
    <2> HIDE DEF rest
    <2>5. final \in Engines /\ SameRun(final, listed)
      BY <2>3, <2>4, FinalTransferFields, FinalRun
    <2> HIDE DEF final
    <2> QED BY <2>1, <2>3, <2>5, FitsSame, ResumeFits
  <1> QED BY <1>1, <1>2

\* The driver, the thread and resets leave the hardware where it is, or stop it.
LEMMA QuietRun ==
    ASSUME IInv, \/ xdma_isr \/ ServiceStatus \/ PollStatus \/ PollTimeout
                 \/ PollCheck \/ PollWake \/ PollProc \/ PollRead \/ PollClear
                 \/ OfflineFlag \/ OfflineStop \/ Online \/ BusError \/ UNCHANGED vars
    PROVE  SameDequeued(engine', engine)
  <1>0. engine \in Engines /\ SameDequeued(engine, engine)
    BY TypesOf DEF SameDequeued, SameRun
  <1>1. \A e, f, g : SameDequeued(f, e) /\ SameDequeued(g, f) => SameDequeued(g, e)
    BY DEF SameDequeued, SameRun
  <1>2. CASE PollTimeout \/ PollCheck \/ PollWake \/ PollProc \/ PollRead \/ PollClear
                \/ OfflineFlag \/ UNCHANGED vars
    BY <1>0, <1>2 DEF PollTimeout, PollCheck, PollWake, PollProc, PollRead, PollClear,
                OfflineFlag, vars, driver
  <1>3. CASE xdma_isr \/ BusError
    BY <1>0, <1>3, RegisterRun DEF xdma_isr, BusError
  <1>4. CASE Online
    <2> DEFINE d == engine.shutdown \ {"REQUEST"}
    <2>1. engine' = [engine EXCEPT !.shutdown = d, !.irq = TRUE]
      BY <1>4 DEF Online
    <2> HIDE DEF d
    <2> QED BY <1>0, <2>1, RegisterRun
  <1>5. CASE OfflineStop
    <2> DEFINE e == xdma_engine_stop(engine)
               d == e.shutdown \cup {"REQUEST"}
    <2>1. e \in Engines /\ SameDequeued(e, engine)
      BY <1>0, RegisterRun, StatusFields DEF Kept
    <2>2. engine' = [e EXCEPT !.shutdown = d, !.irq = FALSE]
      BY <1>5 DEF OfflineStop
    <2> HIDE DEF e, d
    <2>3. SameDequeued(engine', e)
      BY <2>1, <2>2, RegisterRun
    <2> QED BY <1>1, <2>1, <2>3
  <1>6. CASE ServiceStatus
    <2> DEFINE read == engine_status_read(engine)
               e == service_status(engine)
               b == IF engine.running THEN e.irq ELSE TRUE
    <2>1. read \in Engines /\ SameDequeued(read, engine)
      BY <1>0, RegisterRun, StatusFields DEF Kept
    <2>2. xdma_engine_stop(read) \in Engines /\ SameDequeued(xdma_engine_stop(read), read)
      <3> HIDE DEF read
      <3> QED BY <2>1, RegisterRun, StatusFields DEF Kept
    <2>3. e \in {read, xdma_engine_stop(read)}
      <3>1. engine.running \in BOOLEAN /\ engine.busy \in BOOLEAN
        BY <1>0 DEF Engines
      <3> QED BY <3>1 DEF service_status, engine_service_shutdown
    <2>4. engine' = [e EXCEPT !.irq = b]
      BY <1>6 DEF ServiceStatus
    <2> HIDE DEF read, e, b
    <2>5. e \in Engines /\ SameDequeued(e, engine)
      BY <1>1, <2>1, <2>2, <2>3
    <2>6. SameDequeued(engine', e)
      BY <2>4, <2>5, RegisterRun
    <2> QED BY <1>1, <2>5, <2>6
  <1>7. CASE PollStatus
    <2>1. CASE ~engine.running
      BY <1>0, <1>7, <2>1, RegisterRun DEF PollStatus
    <2>2. CASE engine.running
      <3> DEFINE read == IF got.err THEN engine_status_read(engine) ELSE engine
      <3>1. read \in Engines /\ SameDequeued(read, engine)
        BY <1>0, RegisterRun, StatusFields DEF Kept
      <3>2. engine' \in {read, xdma_engine_stop(read)}
        BY <1>7, <2>2 DEF PollStatus, poll_status, engine_service_shutdown
      <3> HIDE DEF read
      <3>3. SameDequeued(xdma_engine_stop(read), read)
        BY <3>1, RegisterRun
      <3> QED BY <1>1, <3>1, <3>2, <3>3
    <2> QED BY <2>1, <2>2
  <1> QED BY <1>2, <1>3, <1>4, <1>5, <1>6, <1>7

\* The hardware moves on within the ring: it does not pass the last slot, which
\* stops it.
LEMMA MoveFits ==
    ASSUME IInv, Within, Move
    PROVE  /\ Within' /\ engine'.dequeued = engine.dequeued
           /\ engine.pos \in Slots /\ engine.count + 1 <= DescMax
  <1>0. /\ engine \in Engines /\ engine.count \in Nat /\ engine.busy
        /\ engine.ring[engine.pos].magic
    BY TypesOf DEF Move
  <1>1. /\ engine.pos \in Slots /\ engine.count <= engine.pos /\ DescMax \in Nat
        /\ engine.pos + 1 <= DescMax /\ engine.count + 1 <= DescMax
    BY <1>0, Numbers DEF Within, Fits, Slots
  <1> DEFINE events == engine.events \cup {"STOPPED"}
             count == engine.count + 1
             pos == engine.pos + 1
  <1>2. CASE engine.ring[engine.pos].last
    <2>1. engine' = [engine EXCEPT !.count = count, !.busy = FALSE, !.events = events]
      BY <1>2 DEF Move, HwMove
    <2> HIDE DEF events, count
    <2>2. /\ engine'.pos = engine.pos /\ engine'.count = count /\ engine'.busy = FALSE
          /\ engine'.ring = engine.ring /\ engine'.dequeued = engine.dequeued
      BY <1>0, <2>1 DEF Engines
    <2> QED BY <1>1, <2>2 DEF Within, Fits, count
  <1>3. CASE ~engine.ring[engine.pos].last
    <2>1. engine' = [engine EXCEPT !.count = count, !.pos = pos]
      BY <1>3 DEF Move, HwMove
    <2>2. engine.pos # DescMax - 1
      BY <1>0, <1>3 DEF Within, Fits
    <2>3. pos \in Slots /\ count <= pos /\ count <= DescMax
      BY <1>0, <1>1, <2>2 DEF Slots
    <2> HIDE DEF pos, count
    <2>4. /\ engine'.pos = pos /\ engine'.count = count
          /\ engine'.ring = engine.ring /\ engine'.dequeued = engine.dequeued
      BY <1>0, <2>1 DEF Engines
    <2> QED BY <1>1, <2>3, <2>4 DEF Within, Fits
  <1> QED BY <1>2, <1>3

\* A chain that reaches the end of the ring stops there.
LEMMA BuildFits ==
    ASSUME IInv, Within, NEW i \in Iocbs, Build(i)
    PROVE  Within'
  <1>1. PICK new, num : Built(i, new, num)
    BY BuildIs
  <1>2. /\ engine'.pos = engine.pos /\ engine'.count = engine.count
        /\ engine'.busy = engine.busy
    BY <1>1 DEF Built
  <1> DEFINE end == DescMax - 1
  <1>3. /\ end \in Slots /\ engine.idx + num <= end + 1
        /\ engine.idx \in Int /\ num \in Int /\ end \in Int
    BY <1>1, Numbers, TypesOf DEF Built, Engines, Slots
  <1>4. CASE end \in engine.idx .. engine.idx + num - 1
    <2>1. end = engine.idx + num - 1
      BY <1>3, <1>4
    <2>2. engine'.ring[end].last = (end = engine.idx + num - 1)
      <3> HIDE DEF end
      <3> QED BY <1>1, <1>4 DEF Built
    <2>3. engine'.ring[end].last
      BY <2>1, <2>2
    <2> QED BY <1>2, <2>3 DEF Within, Fits
  <1>5. CASE end \notin engine.idx .. engine.idx + num - 1
    <2>1. engine'.ring[end] = engine.ring[end]
      <3> HIDE DEF end
      <3> QED BY <1>1, <1>3, <1>5 DEF Built
    <2> QED BY <1>2, <2>1 DEF Within, Fits
  <1> QED BY <1>4, <1>5

\* transfer_queue leaves a run alone or begins one.
LEMMA QueueFits ==
    ASSUME IInv, Within, NEW i \in Iocbs, Queue(i)
    PROVE  Within' /\ engine'.dequeued <= engine.dequeued
  <1>1. /\ engine' \in Engines /\ engine'.ring = engine.ring /\ engine'.list # <<>>
        /\ engine.running \in BOOLEAN /\ engine.dequeued \in Nat
    <2>1. engine \in Engines /\ Xfer(i) \in Xfers /\ engine' = transfer_queue(engine, Xfer(i))
      BY TypesOf, QueueIs
    <2>2. engine' \in Engines /\ engine'.list = Append(engine.list, Xfer(i))
      BY <2>1, QueueFields
    <2>3. engine'.list # <<>>
      BY <2>1, <2>2, AppendProperties DEF Engines
    <2> QED BY <2>1, <2>2, <2>3, QueueIs DEF SameChains, Engines
  <1>2. CASE engine.running
    <2>1. /\ engine'.busy = engine.busy /\ engine'.pos = engine.pos
          /\ engine'.count = engine.count /\ engine'.dequeued = engine.dequeued
      BY <1>2, QueueRun
    <2> QED BY <1>1, <2>1 DEF Within, Fits
  <1>3. CASE ~engine.running
    <2>1. /\ engine'.count = 0 /\ engine'.dequeued = 0
          /\ engine'.pos = engine'.xfer[Head(engine'.list)].first
      BY <1>3, QueueRun
    <2>2. Head(engine'.list) \in Xfers
      BY <1>1, HeadOn DEF Engines
    <2>3. engine'.pos \in Slots
      BY <1>1, <2>1, <2>2 DEF Engines, Transfers
    <2>4. 0 <= engine'.pos /\ 0 <= DescMax
      BY <2>3, Numbers DEF Slots
    <2> QED BY <1>1, <2>1, <2>3, <2>4 DEF Within, Fits
  <1> QED BY <1>1, <1>2, <1>3

-----------------------------------------------------------------------------
(* Counting descriptors *)

\* Iocbs, segments and what they may have of descriptors are finitely many.
LEMMA SegsFinite ==
    /\ IsFiniteSet(Segs) /\ Cardinality(Segs) \in Nat
    /\ IsFiniteSet(1 .. MaxDescs) /\ Cardinality(1 .. MaxDescs) = MaxDescs
    /\ IsFiniteSet(Segs \X (1 .. MaxDescs))
    /\ Cardinality(Segs \X (1 .. MaxDescs)) = Cardinality(Segs) * MaxDescs
  <1>1. IsFiniteSet(Segs)
    <2> DEFINE f == [i \in Iocbs |-> {i} \X (1 .. MaxSegs[i])]
               T == {{i} \X (1 .. MaxSegs[i]) : i \in Iocbs}
    <2>1. f \in Surjection(Iocbs, T)
      BY DEF Surjection
    <2>2. ASSUME NEW t \in T
          PROVE  IsFiniteSet(t)
      <3>1. PICK i \in Iocbs : t = {i} \X (1 .. MaxSegs[i])
        OBVIOUS
      <3>2. MaxSegs[i] \in Int /\ 1 \in Int
        BY Numbers
      <3>3. IsFiniteSet(1 .. MaxSegs[i]) /\ IsFiniteSet({i})
        BY <3>2, FS_Interval, FS_Singleton
      <3> QED BY <3>1, <3>3, FS_Product
    <2>3. Segs = UNION T
      BY DEF Segs
    <2> HIDE DEF f, T
    <2>4. IsFiniteSet(T)
      BY <2>1, FiniteAssumption, FS_Surjection
    <2> QED BY <2>2, <2>3, <2>4, FS_UNION
  <1>2. IsFiniteSet(1 .. MaxDescs) /\ Cardinality(1 .. MaxDescs) = MaxDescs
    <2>1. MaxDescs \in Int /\ 1 \in Int /\ MaxDescs >= 1
      BY Numbers
    <2> QED BY <2>1, FS_Interval
  <1> QED BY <1>1, <1>2, FS_Product, FS_CardinalityType

\* One thing, n times.
LEMMA Column ==
    ASSUME NEW x, NEW n \in Nat
    PROVE  IsFiniteSet({x} \X (1 .. n)) /\ Cardinality({x} \X (1 .. n)) = n
  <1> DEFINE S == {x}
             I == 1 .. n
  <1>1. IsFiniteSet(S) /\ Cardinality(S) = 1
    BY FS_Singleton
  <1>2. IsFiniteSet(I) /\ Cardinality(I) = n
    <2>1. 1 \in Int /\ n \in Int
      OBVIOUS
    <2> QED BY <2>1, FS_Interval
  <1> HIDE DEF S, I
  <1>3. IsFiniteSet(S \X I) /\ Cardinality(S \X I) = Cardinality(S) * Cardinality(I)
    BY <1>1, <1>2, FS_Product
  <1>4. Cardinality(S \X I) = n
    BY <1>1, <1>2, <1>3
  <1> QED BY <1>3, <1>4 DEF S, I

\* A transfer more has its descriptors more.
LEMMA DescsCount ==
    ASSUME NEW e \in Engines, NEW X, X \subseteq Xfers
    PROVE  /\ IsFiniteSet(Descs(e, X)) /\ Cardinality(Descs(e, X)) \in Nat
           /\ \A x \in Xfers \ X :
                 Cardinality(Descs(e, X \cup {x})) = Cardinality(Descs(e, X)) + e.xfer[x].num
  <1>1. IsFiniteSet(Descs(e, X)) /\ Cardinality(Descs(e, X)) \in Nat
    BY SegsFinite, DescsFinite DEF Xfers
  <1>2. ASSUME NEW x \in Xfers \ X
        PROVE  Cardinality(Descs(e, X \cup {x})) = Cardinality(Descs(e, X)) + e.xfer[x].num
    <2> DEFINE n == e.xfer[x].num
               D == Descs(e, X)
               E == {x} \X (1 .. n)
    <2>1. n \in Nat /\ n \in Int /\ 1 \in Int
      BY Numbers DEF Engines, Transfers
    <2>2. Descs(e, X \cup {x}) = D \cup E
      BY DEF Descs
    <2>3. D \cap E = {}
      BY DEF Descs
    <2>0. IsFiniteSet(D) /\ Cardinality(D) \in Nat
      BY <1>1
    <2> HIDE DEF D, n
    <2>4. IsFiniteSet(E) /\ Cardinality(E) = n
      BY <2>1, Column
    <2> HIDE DEF E
    <2>5. Cardinality(D \cup E) = Cardinality(D) + Cardinality(E) - Cardinality(D \cap E)
      BY <2>0, <2>4, FS_Union
    <2>6. Cardinality(D \cap E) = 0
      BY <2>3, FS_EmptySet
    <2>7. Cardinality(D \cup E) = Cardinality(D) + n
      BY <2>0, <2>1, <2>4, <2>5, <2>6
    <2> QED BY <2>2, <2>7 DEF D, n
  <1> QED BY <1>1, <1>2

\* Two separate parts are no more than the whole.
LEMMA TwoParts ==
    ASSUME NEW C, IsFiniteSet(C), NEW A, A \subseteq C, NEW B, B \subseteq C, A \cap B = {}
    PROVE  /\ Cardinality(A) \in Nat /\ Cardinality(B) \in Nat /\ Cardinality(C) \in Nat
           /\ Cardinality(A) + Cardinality(B) <= Cardinality(C)
  <1>1. IsFiniteSet(A) /\ IsFiniteSet(B)
    BY FS_Subset
  <1>2. Cardinality(A \cup B) = Cardinality(A) + Cardinality(B) - Cardinality(A \cap B)
    BY <1>1, FS_Union
  <1>3. Cardinality(A \cap B) = 0
    BY FS_EmptySet
  <1>4. Cardinality(A \cup B) <= Cardinality(C)
    <2>1. A \cup B \in SUBSET C
      OBVIOUS
    <2> QED BY <2>1, FS_Subset
  <1>5. Cardinality(A) \in Nat /\ Cardinality(B) \in Nat /\ Cardinality(C) \in Nat
    BY <1>1, FS_CardinalityType
  <1> QED BY <1>2, <1>3, <1>4, <1>5

\* The first k transfers on the list of e.
Firsts(e, k) == {e.list[j] : j \in 1 .. k}

\* The list of e names no transfer twice.
Distinct(e) == \A j, k \in 1 .. Len(e.list) : e.list[j] = e.list[k] => j = k

\* One more of them.
LEMMA FirstsCount ==
    ASSUME NEW e \in Engines, Distinct(e), NEW k \in 1 .. Len(e.list)
    PROVE  /\ Cardinality(Descs(e, Firsts(e, k - 1))) \in Nat
           /\ Cardinality(Descs(e, Firsts(e, k)))
                 = Cardinality(Descs(e, Firsts(e, k - 1))) + e.xfer[e.list[k]].num
  <1>0. /\ e.list \in Seq(Xfers) /\ Len(e.list) \in Nat
        /\ \A j \in 1 .. Len(e.list) : e.list[j] \in Xfers
    BY LenProperties, ElementOfSeq DEF Engines
  <1>1. Firsts(e, k - 1) \subseteq Xfers
    BY <1>0 DEF Firsts
  <1>2. e.list[k] \in Xfers \ Firsts(e, k - 1)
    <2>1. \A j \in 1 .. k - 1 : j \in 1 .. Len(e.list) /\ j # k
      BY <1>0
    <2> QED BY <1>0, <2>1 DEF Firsts, Distinct
  <1>3. Firsts(e, k) = Firsts(e, k - 1) \cup {e.list[k]}
    <2>1. 1 .. k = (1 .. k - 1) \cup {k}
      BY <1>0
    <2> QED BY <2>1 DEF Firsts
  <1> QED BY <1>1, <1>2, <1>3, DescsCount

\* The sum of the first k transfers is the number of their descriptors.
LEMMA SumCounts ==
    ASSUME NEW e \in Engines, Distinct(e), NEW k \in 0 .. Len(e.list)
    PROVE  DescSum(e, k) = Cardinality(Descs(e, Firsts(e, k)))
  <1> DEFINE C(j) == Cardinality(Descs(e, Firsts(e, j)))
  <1>0. Len(e.list) \in Nat
    BY LenProperties DEF Engines
  <1>1. PICK f : /\ DescSum(e, k) = f[k]
                 /\ f = [j \in 0 .. k |-> IF j = 0 THEN 0
                                          ELSE f[j - 1] + e.xfer[e.list[j]].num]
    BY DescSumType
  <1>2. C(0) = 0
    <2>1. Descs(e, Firsts(e, 0)) = {}
      BY DEF Descs, Firsts
    <2> QED BY <2>1, FS_EmptySet
  <1>3. \A j \in 1 .. Len(e.list) : C(j) = C(j - 1) + e.xfer[e.list[j]].num
    BY FirstsCount
  <1> HIDE DEF C
  <1> DEFINE T == {j \in 0 .. k : f[j] # C(j)}
  <1>4. T = {}
    <2> SUFFICES ASSUME T # {} PROVE FALSE
      OBVIOUS
    <2>1. T \subseteq Nat
      OBVIOUS
    <2>2. PICK m \in T : \A y \in T : m <= y
      <3> HIDE DEF T
      <3> QED BY <2>1, Least
    <2>3. m \in 0 .. k /\ f[m] # C(m)
      BY <2>2
    <2>4. m # 0
      <3>1. 0 \in 0 .. k
        BY <1>0
      <3>2. f[0] = 0
        BY <1>1, <3>1
      <3> QED BY <1>2, <2>3, <3>2
    <2>5. m - 1 \in 0 .. k /\ m \in 1 .. Len(e.list) /\ ~(m <= m - 1)
      BY <1>0, <2>3, <2>4
    <2>6. f[m - 1] = C(m - 1)
      BY <2>2, <2>5
    <2>7. f[m] = f[m - 1] + e.xfer[e.list[m]].num
      BY <1>1, <2>3, <2>4
    <2> QED BY <1>3, <2>3, <2>5, <2>6, <2>7
  <1>5. k \in 0 .. k
    BY <1>0
  <1> QED BY <1>1, <1>4, <1>5 DEF C

\* From e to f the first k transfers are taken from the list, and no more than
\* their descriptors are added to desc_dequeued.
Takes(f, e, k) ==
    /\ k \in Nat /\ k <= Len(e.list) /\ Len(f.list) = Len(e.list) - k
    /\ f.dequeued <= e.dequeued + Cardinality(Descs(e, Firsts(e, k)))

\* The descriptors of the first k, by their number.
LEMMA FirstsNatural ==
    ASSUME NEW e \in Engines
    PROVE  /\ Len(e.list) \in Nat /\ e.list \in Seq(Xfers) /\ e.dequeued \in Nat
           /\ \A k \in 1 .. Len(e.list) : e.list[k] \in Xfers /\ e.xfer[e.list[k]].num \in Nat
           /\ \A k \in 0 .. Len(e.list) : Cardinality(Descs(e, Firsts(e, k))) \in Nat
  <1>0. /\ e.list \in Seq(Xfers) /\ Len(e.list) \in Nat /\ e.dequeued \in Nat
        /\ \A j \in 1 .. Len(e.list) : e.list[j] \in Xfers
    BY LenProperties, ElementOfSeq DEF Engines
  <1>1. ASSUME NEW k \in 0 .. Len(e.list)
        PROVE  Cardinality(Descs(e, Firsts(e, k))) \in Nat
    <2>1. Firsts(e, k) \subseteq Xfers
      BY <1>0 DEF Firsts
    <2> QED BY <2>1, DescsCount
  <1>2. ASSUME NEW k \in 1 .. Len(e.list)
        PROVE  e.xfer[e.list[k]].num \in Nat
    BY <1>0, Numbers DEF Engines, Transfers
  <1> QED BY <1>0, <1>1, <1>2

\* engine_service_transfer_list takes what n descriptors cover.
LEMMA TransferListTakes ==
    ASSUME NEW e \in Engines, Distinct(e), NEW n \in Int
    PROVE  LET f == engine_service_transfer_list(e, n)
               k == Covered(e, n)
           IN  /\ f \in Engines /\ SameChains(f, e) /\ Takes(f, e, k)
               /\ f.list # <<>> => k + 1 <= Len(e.list) /\ Head(f.list) = e.list[k + 1]
  <1> DEFINE f == engine_service_transfer_list(e, n)
             k == Covered(e, n)
             G == /\ f \in Engines /\ SameChains(f, e) /\ Takes(f, e, k)
                  /\ f.list # <<>> => k + 1 <= Len(e.list) /\ Head(f.list) = e.list[k + 1]
  <1> SUFFICES G
    OBVIOUS
  <1>0. Len(e.list) \in Nat /\ e.list \in Seq(Xfers) /\ e.dequeued \in Nat
    BY FirstsNatural
  <1>1. /\ f \in Engines /\ SameChains(f, e) /\ k \in 0 .. Len(e.list)
        /\ f.dequeued = e.dequeued + DescSum(e, k)
        /\ f.list = SubSeq(e.list, k + 1, Len(e.list))
    BY TransferListFields, TransferListRun, CoveredIn
  <1> HIDE DEF f, k
  <1>2. k \in Nat /\ k <= Len(e.list) /\ k + 1 \in Int /\ Len(e.list) \in Int
    BY <1>0, <1>1
  <1>3. \A j \in k + 1 .. Len(e.list) : e.list[j] \in Xfers
    BY <1>0, <1>2, ElementOfSeq
  <1> DEFINE a == k + 1
             b == Len(e.list)
  <1>4. /\ Len(SubSeq(e.list, a, b)) = IF a <= b THEN b - a + 1 ELSE 0
        /\ \A j \in 1 .. b - a + 1 : SubSeq(e.list, a, b)[j] = e.list[a + j - 1]
    <2>1. a \in Int /\ b \in Int /\ \A j \in a .. b : e.list[j] \in Xfers
      BY <1>2, <1>3
    <2> HIDE DEF a, b
    <2> QED BY <2>1, SubSeqProperties
  <1>5. Len(f.list) = Len(e.list) - k
    BY <1>0, <1>1, <1>2, <1>4
  <1>6. f.dequeued <= e.dequeued + Cardinality(Descs(e, Firsts(e, k)))
    <2>1. DescSum(e, k) = Cardinality(Descs(e, Firsts(e, k)))
      BY <1>1, SumCounts
    <2>2. f.dequeued \in Nat /\ f.dequeued = e.dequeued + Cardinality(Descs(e, Firsts(e, k)))
      BY <1>1, <2>1 DEF Engines
    <2> DEFINE c == e.dequeued + Cardinality(Descs(e, Firsts(e, k)))
    <2>3. c \in Nat /\ f.dequeued = c
      BY <2>2
    <2> HIDE DEF c
    <2>4. f.dequeued <= c
      BY <2>3
    <2> QED BY <2>4 DEF c
  <1>7. ASSUME f.list # <<>>
        PROVE  k + 1 <= Len(e.list) /\ Head(f.list) = e.list[k + 1]
    <2>1. 1 \in 1 .. Len(f.list) /\ Head(f.list) = f.list[1]
      BY <1>1, <1>7, HeadOn DEF Engines
    <2>2. Len(f.list) >= 1
      BY <2>1
    <2>3. k + 1 <= Len(e.list) /\ 1 \in 1 .. b - a + 1 /\ a + 1 - 1 = k + 1
      BY <1>0, <1>2, <1>5, <2>2
    <2>4. f.list[1] = e.list[a + 1 - 1]
      BY <1>1, <1>4, <2>3
    <2> HIDE DEF a, b
    <2> QED BY <2>1, <2>3, <2>4
  <1> QED BY <1>1, <1>2, <1>5, <1>6, <1>7 DEF Takes

\* Then engine_service_final_transfer takes one more, if there is one.
LEMMA FinalTakes ==
    ASSUME NEW e \in Engines, Distinct(e), NEW f \in Engines, SameChains(f, e),
           NEW k, Takes(f, e, k),
           f.list # <<>> => k + 1 <= Len(e.list) /\ Head(f.list) = e.list[k + 1],
           NEW n \in Int
    PROVE  \E l : Takes(engine_service_final_transfer(f, n), e, l)
  <1> DEFINE g == engine_service_final_transfer(f, n)
             C(j) == Cardinality(Descs(e, Firsts(e, j)))
  <1>0. /\ Len(e.list) \in Nat /\ e.dequeued \in Nat /\ f.dequeued \in Nat /\ g.dequeued \in Nat
        /\ k \in Nat /\ k <= Len(e.list) /\ Len(f.list) = Len(e.list) - k
        /\ f.dequeued <= e.dequeued + C(k) /\ f.list \in Seq(Xfers)
    BY FirstsNatural, FinalTransferFields DEF Takes, Engines
  <1>1. CASE f.list = <<>>
    BY <1>1, FinalRun
  <1>2. CASE f.list # <<>>
    <2>1. /\ g.list = Tail(f.list)
          /\ g.dequeued <= f.dequeued + f.xfer[Head(f.list)].num
      BY <1>2, FinalRun
    <2> HIDE DEF g
    <2>2. k + 1 <= Len(e.list) /\ Head(f.list) = e.list[k + 1]
      BY <1>2
    <2>3. k + 1 \in 1 .. Len(e.list) /\ k \in 0 .. Len(e.list) /\ k + 1 - 1 = k
      BY <1>0, <2>2
    <2>4. /\ f.xfer[Head(f.list)].num = e.xfer[e.list[k + 1]].num
          /\ e.xfer[e.list[k + 1]].num \in Nat /\ C(k) \in Nat
      BY <2>2, <2>3, FirstsNatural DEF SameChains
    <2>5. C(k + 1) = C(k + 1 - 1) + e.xfer[e.list[k + 1]].num
      BY <2>3, FirstsCount
    <2>6. Len(g.list) = Len(f.list) - 1
      BY <1>0, <1>2, <2>1, HeadTailProperties
    <2>7. C(k + 1) = C(k) + e.xfer[e.list[k + 1]].num
      BY <2>3, <2>5
    <2> DEFINE c == C(k)
               d == C(k + 1)
               m == e.xfer[e.list[k + 1]].num
    <2>8. /\ c \in Nat /\ m \in Nat /\ d = c + m /\ f.dequeued <= e.dequeued + c
          /\ g.dequeued <= f.dequeued + m
      BY <1>0, <2>1, <2>4, <2>7
    <2> HIDE DEF C, c, d, m
    <2>9. g.dequeued <= e.dequeued + d
      BY <1>0, <2>8
    <2>10. Len(g.list) = Len(e.list) - (k + 1) /\ k + 1 \in Nat
      BY <1>0, <2>6
    <2>11. Takes(g, e, k + 1)
      BY <2>2, <2>9, <2>10 DEF Takes, d, C
    <2> QED BY <2>11 DEF g
  <1> QED BY <1>1, <1>2

\* engine_service_resume adds nothing: a new run counts from zero.
LEMMA ResumeDequeued ==
    ASSUME NEW e \in Engines
    PROVE  LET f == engine_service_resume(e)
           IN  f.list = e.list /\ f.dequeued <= e.dequeued /\ f.dequeued \in Nat
  <1> DEFINE f == engine_service_resume(e)
  <1>1. f \in Engines /\ f.list = e.list
    BY ResumeFields DEF Kept
  <1>2. f.dequeued \in Nat /\ e.dequeued \in Nat
    BY <1>1 DEF Engines
  <1>3. f.dequeued = 0 \/ f.dequeued = e.dequeued
    <2>1. CASE ~e.running /\ e.list # <<>>
      <3> DEFINE status == e.events \cup {"BUSY"}
                 pos == e.xfer[Head(e.list)].first
      <3>1. f = [e EXCEPT !.shutdown = {}, !.dequeued = 0, !.running = TRUE,
                          !.busy = TRUE, !.count = 0, !.status = status, !.pos = pos]
        BY <2>1 DEF engine_service_resume, engine_start
      <3> HIDE DEF status, pos, f
      <3> QED BY <3>1 DEF Engines
    <2>2. CASE ~(~e.running /\ e.list # <<>>)
      <3> DEFINE d == e.shutdown \cup {"IDLE"}
      <3>1. f \in {e, xdma_engine_stop(e), [e EXCEPT !.shutdown = d]}
        <4>1. e.running \in BOOLEAN
          BY DEF Engines
        <4> QED BY <2>2, <4>1 DEF engine_service_resume, engine_service_shutdown
      <3> HIDE DEF d, f
      <3>2. xdma_engine_stop(e).dequeued = e.dequeued
        BY RegisterRun DEF SameDequeued
      <3>3. [e EXCEPT !.shutdown = d].dequeued = e.dequeued
        BY DEF Engines
      <3> QED BY <3>1, <3>2, <3>3
    <2> QED BY <2>1, <2>2
  <1> HIDE DEF f
  <1>4. f.dequeued <= e.dequeued
    BY <1>2, <1>3
  <1> QED BY <1>1, <1>2, <1>4 DEF f

\* So servicing the engine adds to desc_dequeued at most the descriptors of the
\* transfers that it takes from the list.
LEMMA AnswerTakes ==
    ASSUME NEW e \in Engines, Distinct(e), NEW count \in Nat
    PROVE  \E k : Takes(answer_transfers(e, count), e, k)
  <1>1. CASE count = 0
    <2>1. answer_transfers(e, count) = e
      BY <1>1 DEF answer_transfers
    <2>2. Len(e.list) \in Nat /\ e.dequeued \in Nat /\ 0 \in 0 .. Len(e.list)
      BY FirstsNatural
    <2> DEFINE c == Cardinality(Descs(e, Firsts(e, 0)))
    <2>3. c \in Nat
      BY <2>2, FirstsNatural
    <2> HIDE DEF c
    <2>4. e.dequeued <= e.dequeued + c
      BY <2>2, <2>3
    <2>5. Takes(e, e, 0)
      BY <2>2, <2>4 DEF Takes, c
    <2> QED BY <2>1, <2>5
  <1>2. CASE count # 0
    <2> DEFINE desc_count == Unsigned(count - e.dequeued)
               listed == engine_service_transfer_list(e, desc_count)
               rest == desc_count - (listed.dequeued - e.dequeued)
               final == engine_service_final_transfer(listed, rest)
               f == answer_transfers(e, count)
    <2>1. f = engine_service_resume(final)
      BY <1>2 DEF answer_transfers
    <2>2. desc_count \in Int /\ e.dequeued \in Nat
      BY FirstsNatural DEF Unsigned
    <2> HIDE DEF desc_count, f
    <2>3. PICK k : /\ listed \in Engines /\ SameChains(listed, e) /\ Takes(listed, e, k)
                   /\ listed.list # <<>> =>
                         k + 1 <= Len(e.list) /\ Head(listed.list) = e.list[k + 1]
      BY <2>2, TransferListTakes
    <2> HIDE DEF listed
    <2>4. rest \in Int
      BY <2>2, <2>3 DEF Engines
    <2> HIDE DEF rest
    <2>5. final \in Engines
      BY <2>3, <2>4, FinalTransferFields
    <2>6. PICK l : Takes(final, e, l)
      BY <2>3, <2>4, FinalTakes
    <2> HIDE DEF final
    <2>7. /\ f.list = final.list /\ f.dequeued <= final.dequeued /\ f.dequeued \in Nat
          /\ final.dequeued \in Nat
      BY <2>1, <2>5, ResumeDequeued DEF Engines
    <2> DEFINE c == Cardinality(Descs(e, Firsts(e, l)))
    <2>8. c \in Nat /\ final.dequeued <= e.dequeued + c
      <3>1. l \in 0 .. Len(e.list)
        BY <2>6, FirstsNatural DEF Takes
      <3> QED BY <2>6, <3>1, FirstsNatural DEF Takes
    <2> HIDE DEF c
    <2>9. f.dequeued <= e.dequeued + c
      BY <2>2, <2>7, <2>8
    <2>10. Takes(f, e, l)
      BY <2>6, <2>7, <2>9 DEF Takes, c
    <2> QED BY <2>10 DEF f
  <1> QED BY <1>1, <1>2

-----------------------------------------------------------------------------
(* What servicing the engine keeps *)

\* Engine_service goes from engine to e, and completes requests.
Serviced(e) ==
    /\ e \in Engines /\ Suffix(e.list, engine.list) /\ SameChains(e, engine)
    /\ Complete(e) /\ UNCHANGED submit
    /\ Within => Fits(e)
    /\ \E k : Takes(e, engine, k)

\* No transfer is listed twice.
LEMMA ListDistinct ==
    ASSUME IInv
    PROVE  Distinct(engine)
  <1> SUFFICES ASSUME NEW j \in 1 .. Len(engine.list), NEW k \in 1 .. Len(engine.list),
                      engine.list[j] = engine.list[k], j # k
               PROVE  FALSE
    BY DEF Distinct
  <1>1. j \in Nat /\ k \in Nat /\ (j < k \/ k < j)
    BY TypesOf
  <1>2. engine.list[j][2] \in {0, 1} /\ engine.list[k][2] \in {0, 1}
    BY TypesOf, ElementOfSeq, XferParts
  <1>3. engine.list[j][2] < engine.list[k][2] \/ engine.list[k][2] < engine.list[j][2]
    BY <1>1 DEF IInv, Listed
  <1> QED BY <1>2, <1>3

\* Both ways of servicing it do.
LEMMA ServicedIs ==
    ASSUME IInv, ServiceTransfers \/ PollAnswer
    PROVE  \E e : Serviced(e)
  <1>0. engine \in Engines /\ engine.count \in Nat /\ Distinct(engine)
    BY TypesOf, ListDistinct
  <1>1. CASE ServiceTransfers
    <2> DEFINE e == answer_transfers(engine, engine.count)
               f == [e EXCEPT !.irq = TRUE]
    <2>1. /\ e \in Engines /\ Suffix(e.list, engine.list) /\ SameChains(e, engine)
          /\ Within => Fits(e)
          /\ \E k : Takes(e, engine, k)
      BY <1>0, AnsweredFields, AnswerFits, AnswerTakes DEF Within
    <2>2. Complete(f) /\ UNCHANGED submit
      BY <1>1 DEF ServiceTransfers, service_transfers
    <2> HIDE DEF e
    <2>3. Kept(f, e) /\ SameDequeued(f, e)
      BY <2>1, StatusFields, RegisterRun
    <2> HIDE DEF f
    <2>4. f \in Engines /\ Suffix(f.list, engine.list) /\ SameChains(f, engine)
      BY <2>1, <2>3 DEF Kept, SameChains
    <2>5. Within => Fits(f)
      BY <2>1, <2>3, FitsSame DEF SameDequeued
    <2>6. \E k : Takes(f, engine, k)
      BY <2>1, <2>3 DEF Kept, SameDequeued, Takes
    <2> QED BY <2>2, <2>4, <2>5, <2>6 DEF Serviced
  <1>2. CASE PollAnswer
    <2> DEFINE count == IF got.count # 0 THEN got.count ELSE engine.count
               e == answer_transfers(engine, count)
    <2>1. count \in Nat
      BY TypesOf DEF WriteBacks
    <2>2. Complete(e) /\ UNCHANGED submit
      BY <1>2 DEF PollAnswer
    <2> HIDE DEF count
    <2>3. /\ e \in Engines /\ Suffix(e.list, engine.list) /\ SameChains(e, engine)
          /\ Within => Fits(e)
          /\ \E k : Takes(e, engine, k)
      BY <1>0, <2>1, AnsweredFields, AnswerFits, AnswerTakes DEF Within
    <2> HIDE DEF e
    <2> QED BY <2>2, <2>3 DEF Serviced
  <1> QED BY <1>1, <1>2

\* What is held afterwards was held before, for a request that is not done.
LEMMA ServicedHeld ==
    ASSUME IInv, NEW e, Serviced(e)
    PROVE  /\ \A x : On(x)' <=> Stays(e, x)
           /\ \A x \in Held' : x \in Held /\ x \in Xfers /\ x[1] \notin Done(e)
                               /\ Num(x)' = Num(x)
  <1>0. /\ e \in Engines /\ Suffix(e.list, engine.list) /\ SameChains(e, engine)
        /\ Complete(e) /\ UNCHANGED submit
    BY DEF Serviced
  <1>1. /\ engine'.list = e.list
        /\ \A x \in Xfers : x[1] \notin Done(e) => First(x)' = First(x) /\ Num(x)' = Num(x)
        /\ \A s \in Segs : s \notin Done(e) => req'[s] = req[s]
        /\ \A s \in Done(e) : ~req'[s].live
    BY <1>0, CompletionChains
  <1>2. \A x : On(x)' <=> Stays(e, x)
    BY <1>1 DEF On, Stays
  <1>3. \A x : Stays(e, x) => On(x) /\ x \in Xfers /\ x[1] \notin Done(e)
    BY <1>0, StaysOn
  <1>4. ASSUME NEW x \in Held'
        PROVE  x \in Held /\ x \in Xfers /\ x[1] \notin Done(e) /\ Num(x)' = Num(x)
    <2>1. x \in Xfers /\ x[1] \in Segs
      BY XferParts DEF Held
    <2>2. On(x)' \/ (req'[x[1]].live /\ x[2] < req'[x[1]].tfer)
      BY DEF Held
    <2>3. x[1] \notin Done(e)
      BY <1>1, <1>2, <1>3, <2>2
    <2>4. req'[x[1]] = req[x[1]]
      BY <1>1, <2>1, <2>3
    <2> QED BY <1>1, <1>2, <1>3, <2>1, <2>2, <2>3, <2>4 DEF Held
  <1> QED BY <1>2, <1>4

\* The hardware stays within the ring: slots are kept or zeroed.
LEMMA ServicedFits ==
    ASSUME IInv, Within, NEW e, Serviced(e)
    PROVE  Within'
  <1>0. /\ e \in Engines /\ Suffix(e.list, engine.list) /\ SameChains(e, engine)
        /\ Complete(e) /\ UNCHANGED submit /\ Fits(e)
    BY DEF Serviced
  <1>1. engine'.busy = e.busy /\ engine'.pos = e.pos /\ engine'.count = e.count
    BY <1>0, CompletionChains
  <1> DEFINE end == DescMax - 1
             Of(x) == e.xfer[x].first .. e.xfer[x].first + e.xfer[x].num - 1
             used == e.used - Cardinality(Descs(e, Gone(e)))
             ring == [i \in Slots |-> IF \E x \in Gone(e) : i \in Of(x)
                                      THEN NoDescriptor ELSE e.ring[i]]
             xfer == [x \in Xfers |-> IF x[1] \in Done(e) THEN NoTransfer ELSE e.xfer[x]]
  <1>2. engine' = [e EXCEPT !.used = used, !.ring = ring, !.xfer = xfer]
    BY <1>0 DEF Complete, xdma_xfer_completion, Gone
  <1>3. end \in Slots
    BY Numbers DEF Slots
  <1>4. ring[end] = NoDescriptor \/ ring[end] = e.ring[end]
    <2> HIDE DEF Of, end
    <2> QED BY <1>3
  <1> HIDE DEF used, ring, xfer, end
  <1>5. engine'.ring = ring
    BY <1>0, <1>2 DEF Engines
  <1>6. engine'.ring[end].magic => engine'.ring[end].last
    <2>1. NoDescriptor.magic = FALSE
      BY DEF NoDescriptor
    <2>2. e.ring[end].magic => e.ring[end].last
      BY <1>0 DEF Fits, end
    <2> QED BY <1>4, <1>5, <2>1, <2>2
  <1>7. /\ engine'.pos \in Slots /\ engine'.count <= DescMax
        /\ engine'.busy => engine'.count <= engine'.pos
    BY <1>0, <1>1 DEF Fits
  <1> QED BY <1>6, <1>7 DEF Within, Fits, end

\* desc_used falls by the descriptors of transfers that are held no more.
LEMMA ServicedCounted ==
    ASSUME IInv, Counted, NEW e, Serviced(e), IInv'
    PROVE  Counted'
  <1>0. /\ e \in Engines /\ Suffix(e.list, engine.list) /\ SameChains(e, engine)
        /\ Complete(e) /\ UNCHANGED submit /\ engine \in Engines
    BY TypesOf DEF Serviced
  <1> DEFINE A == Descs(engine', Held')
             B == Descs(e, Gone(e))
             C == Descs(engine, Held)
  <1>1. A \subseteq C
    <2> SUFFICES ASSUME NEW p \in A PROVE p \in C
      OBVIOUS
    <2>1. PICK x \in Held' : p \in {x} \X (1 .. engine'.xfer[x].num)
      BY DEF Descs
    <2>2. x \in Held /\ engine'.xfer[x].num = engine.xfer[x].num
      BY ServicedHeld DEF Num
    <2> QED BY <2>1, <2>2 DEF Descs
  <1>2. \A x \in Gone(e) : x \in Held /\ x \in Xfers /\ x[1] \in Done(e)
    BY <1>0, GoneHeld
  <1>3. B \subseteq C
    <2> SUFFICES ASSUME NEW p \in B PROVE p \in C
      OBVIOUS
    <2>1. PICK x \in Gone(e) : p \in {x} \X (1 .. e.xfer[x].num)
      BY DEF Descs
    <2>2. x \in Held /\ e.xfer[x].num = engine.xfer[x].num
      BY <1>0, <1>2 DEF SameChains
    <2> QED BY <2>1, <2>2 DEF Descs
  <1>4. A \cap B = {}
    <2> SUFFICES ASSUME NEW p \in A, p \in B PROVE FALSE
      OBVIOUS
    <2>1. PICK x \in Held' : p \in {x} \X (1 .. engine'.xfer[x].num)
      BY DEF Descs
    <2>2. PICK y \in Gone(e) : p \in {y} \X (1 .. e.xfer[y].num)
      BY DEF Descs
    <2>3. x = y
      BY <2>1, <2>2
    <2> QED BY <1>2, <2>3, ServicedHeld
  <1>5. IsFiniteSet(C)
    BY <1>0, DescsCount DEF Held
  <1>6. /\ Cardinality(C) <= engine.used /\ engine.used <= MaxUsed /\ engine.used \in Int
        /\ engine'.used = engine.used - Cardinality(B) /\ MaxUsed \in Nat
    BY <1>0, CompletionChains, AsyncAssumption DEF Counted, Engines
  <1> HIDE DEF A, B, C
  <1>7. /\ Cardinality(A) \in Nat /\ Cardinality(B) \in Nat /\ Cardinality(C) \in Nat
        /\ Cardinality(A) + Cardinality(B) <= Cardinality(C)
    BY <1>1, <1>3, <1>4, <1>5, TwoParts
  <1>8. Cardinality(A) <= engine'.used /\ engine'.used <= MaxUsed
    BY <1>6, <1>7
  <1> QED BY <1>8 DEF Counted, A

\* The software descriptors of a transfer are below what its request has built.
LEMMA SoftwareIn ==
    ASSUME IInv, PartsInv, Short, NEW x \in Held
    PROVE  /\ x \in Xfers /\ x[1] \in Segs /\ Start(x) \in Nat /\ Num(x) \in Nat
           /\ Start(x) + Num(x) <= MaxDescs
           /\ req[x[1]].live => Start(x) + Num(x) <= req[x[1]].next
  <1>0. /\ x \in Xfers /\ x[1] \in Segs /\ x[2] \in {0, 1} /\ x = <<x[1], x[2]>>
        /\ MaxDescs \in Nat /\ req[x[1]] \in Reqs
    BY XferParts, Numbers DEF Held, IInv, Types
  <1> DEFINE s == x[1]
             y == <<s, 0>>
             z == <<s, 1>>
  <1>1. y \in Xfers /\ z \in Xfers
    BY <1>0, XferOf
  <1>2. Num(x) \in Nat /\ Num(y) \in Nat /\ Num(z) \in Nat /\ Num(x) <= MaxDescs
    BY <1>0, <1>1, Place DEF Short
  <1>3. x[2] = 0 => x = y /\ Start(x) = 0
    BY <1>0 DEF Start
  <1>4. x[2] = 1 => x = z /\ Start(x) = Num(y)
    BY <1>0 DEF Start
  <1>5. Start(x) \in Nat
    BY <1>0, <1>2, <1>3, <1>4
  <1>6. CASE req[s].live
    <2>1. /\ req[s].tfer \in 0 .. 2 /\ req[s].next \in 0 .. MaxDescs /\ x[2] < req[s].tfer
          /\ req[s].tfer = 1 => req[s].next = Num(y)
          /\ req[s].tfer = 2 => req[s].next = Num(y) + Num(z)
      BY <1>0, <1>6, HeldBuilt, Numbers DEF PartsInv, Parts, Reqs
    <2> HIDE DEF y, z
    <2>2. Start(x) + Num(x) <= req[s].next
      BY <1>0, <1>2, <1>3, <1>4, <2>1
    <2> QED BY <1>0, <1>2, <1>5, <2>1, <2>2
  <1>7. CASE ~req[s].live
    <2>1. x[2] = 0
      BY <1>0, <1>7 DEF Held, PartsInv, Orphans
    <2> QED BY <1>0, <1>2, <1>3, <1>5, <1>7, <2>1
  <1> QED BY <1>6, <1>7

\* And those of the other transfer of the request are others.
LEMMA SoftwareApart ==
    ASSUME IInv, PartsInv, Short, NEW x \in Held, NEW y \in Held, x[1] = y[1], x # y
    PROVE  Software(x) \cap Software(y) = {}
  <1>0. /\ x[2] \in {0, 1} /\ y[2] \in {0, 1} /\ x = <<x[1], x[2]>> /\ y = <<y[1], y[2]>>
    BY XferParts DEF Held
  <1>1. /\ Start(x) \in Nat /\ Num(x) \in Nat /\ Start(y) \in Nat /\ Num(y) \in Nat
    BY SoftwareIn
  <1>2. CASE x[2] = 0 /\ y[2] = 1
    <2>1. Start(x) = 0 /\ Start(y) = Num(x)
      BY <1>0, <1>2 DEF Start
    <2> QED BY <1>1, <2>1 DEF Software
  <1>3. CASE x[2] = 1 /\ y[2] = 0
    <2>1. Start(y) = 0 /\ Start(x) = Num(y)
      BY <1>0, <1>3 DEF Start
    <2> QED BY <1>1, <2>1 DEF Software
  <1> QED BY <1>0, <1>2, <1>3

\* So transfers have no more descriptors than there are places T for their
\* software descriptors.
LEMMA DescsPlaced ==
    ASSUME IInv, PartsInv, Short, NEW X, X \subseteq Held, NEW T, IsFiniteSet(T),
           \A x \in X : \A j \in 1 .. Num(x) : <<x[1], Start(x) + j>> \in T
    PROVE  Cardinality(Descs(engine, X)) <= Cardinality(T)
  <1> DEFINE D == Descs(engine, X)
             f == [p \in D |-> <<p[1][1], Start(p[1]) + p[2]>>]
  <1>1. ASSUME NEW p \in D
        PROVE  p[1] \in X /\ p[2] \in 1 .. Num(p[1]) /\ p = <<p[1], p[2]>>
    <2>1. PICK x \in X : p \in {x} \X (1 .. engine.xfer[x].num)
      BY DEF Descs
    <2> QED BY <2>1 DEF Num
  <1>2. \A p \in D : f[p] \in T
    BY <1>1
  <1>3. ASSUME NEW p \in D, NEW q \in D, f[p] = f[q]
        PROVE  p = q
    <2>1. /\ p[1] \in X /\ p[2] \in 1 .. Num(p[1]) /\ p = <<p[1], p[2]>>
          /\ q[1] \in X /\ q[2] \in 1 .. Num(q[1]) /\ q = <<q[1], q[2]>>
      BY <1>1
    <2>2. p[1][1] = q[1][1] /\ Start(p[1]) + p[2] = Start(q[1]) + q[2]
      BY <1>3
    <2>3. PICK x, y, i, j : x = p[1] /\ y = q[1] /\ i = p[2] /\ j = q[2]
      OBVIOUS
    <2>4. /\ x \in Held /\ y \in Held /\ x[1] = y[1] /\ i \in 1 .. Num(x) /\ j \in 1 .. Num(y)
          /\ Start(x) + i = Start(y) + j
      BY <2>1, <2>2, <2>3
    <2>5. Start(x) \in Nat /\ Num(x) \in Nat /\ Start(y) \in Nat /\ Num(y) \in Nat
      BY <2>4, SoftwareIn
    <2>6. Start(x) + i \in Software(x) /\ Start(y) + j \in Software(y)
      BY <2>4, <2>5 DEF Software
    <2>7. x = y
      BY <2>4, <2>6, SoftwareApart
    <2>8. i = j
      BY <2>4, <2>5, <2>7
    <2> QED BY <2>1, <2>3, <2>7, <2>8
  <1>4. f \in Injection(D, T)
    BY <1>2, <1>3 DEF Injection, IsInjective
  <1> HIDE DEF f, D
  <1>5. Cardinality(D) <= Cardinality(T)
    BY <1>4, FS_Injection
  <1> QED BY <1>5 DEF D

\* The software descriptors of a transfer that stays are the same.
LEMMA SoftwareKept ==
    ASSUME IInv, PartsInv, IInv', PartsInv', [Next]_vars, NEW x, x \in Held, x \in Held'
    PROVE  Software(x)' = Software(x)
  <1>1. \A y \in Held' : y \in Held => Num(y)' = Num(y)
    BY HeldLasts
  <1>2. Start(x)' = Start(x)
    BY <1>1, StartKept
  <1> QED BY <1>1, <1>2 DEF Software

\* A transfer that is listed, or about to be, is held.
LEMMA UnspentHeld ==
    ASSUME IInv, NEW x \in Xfers, On(x) \/ Unqueued(x)
    PROVE  x \in Held
  <1>1. CASE On(x)
    BY <1>1 DEF Held
  <1>2. CASE Unqueued(x)
    <2>1. x[1] \in Segs /\ x[1][1] \in Iocbs
      BY XferParts, SegParts
    <2>2. req[x[1]].live /\ req[x[1]].tfer \in Nat /\ x[2] = req[x[1]].tfer - 1
      BY <1>2, <2>1, Numbers DEF Unqueued, IInv, Submitting, Busy, Types, Reqs
    <2> QED BY <2>2 DEF Held
  <1> QED BY <1>1, <1>2

\* Also after a step.
LEMMA UnspentHeldNext ==
    ASSUME IInv', NEW x \in Xfers, On(x)' \/ Unqueued(x)'
    PROVE  x \in Held'
  <1>1. CASE On(x)'
    BY <1>1 DEF Held
  <1>2. CASE Unqueued(x)'
    <2>1. PICK s \in Segs, i \in Iocbs : s = x[1] /\ i = x[1][1]
      BY XferParts, SegParts
    <2>2. s = Seg(i)' /\ pc'[i] \in Busy /\ x[2] = req'[s].tfer - 1
      BY <1>2, <2>1 DEF Unqueued, Busy
    <2>3. req'[s].live
      BY <2>2 DEF IInv, Submitting
    <2>4. req'[s].tfer \in Nat
      BY Numbers DEF IInv, Types, Reqs
    <2>5. req'[s].live /\ x[2] < req'[s].tfer
      BY <2>2, <2>3, <2>4
    <2>6. req'[x[1]].live /\ x[2] < req'[x[1]].tfer
      BY <2>1, <2>5
    <2> QED BY <2>6 DEF Held
  <1> QED BY <1>1, <1>2

\* A step that takes up nothing but what was ahead or not built yet leaves no
\* more to be answered.
LEMMA UnspentKept ==
    ASSUME IInv, PartsInv, IInv', PartsInv', [Next]_vars,
           \A s \in Segs : Ahead(s)' => Ahead(s),
           \A s \in Segs : req'[s].live =>
               Ahead(s) \/ (req[s].live /\ req[s].next <= req'[s].next),
           \A x \in Xfers : On(x)' \/ Unqueued(x)' =>
               \/ On(x) \/ Unqueued(x)
               \/ /\ req[x[1]].live
                  /\ \A j \in Software(x)' : j > req[x[1]].next
    PROVE  Unspent' \subseteq Unspent
  <1> SUFFICES ASSUME NEW p \in Unspent' PROVE p \in Unspent
    OBVIOUS
  <1>0. p \in Segs \X (1 .. MaxDescs) /\ p[1] \in Segs /\ p[2] \in Nat
    BY Numbers DEF Unspent
  <1>1. CASE Ahead(p[1])'
    BY <1>0, <1>1 DEF Unspent
  <1>2. CASE req'[p[1]].live /\ p[2] > req'[p[1]].next
    <2>1. req[p[1]].next \in Nat /\ req'[p[1]].next \in Nat
      BY <1>0, Numbers DEF IInv, Types, Reqs
    <2>2. Ahead(p[1]) \/ (req[p[1]].live /\ p[2] > req[p[1]].next)
      BY <1>0, <1>2, <2>1
    <2> QED BY <1>0, <2>2 DEF Unspent
  <1>3. CASE \E x \in Xfers : x[1] = p[1] /\ (On(x)' \/ Unqueued(x)') /\ p[2] \in Software(x)'
    <2>1. PICK x \in Xfers : x[1] = p[1] /\ (On(x)' \/ Unqueued(x)') /\ p[2] \in Software(x)'
      BY <1>3
    <2>2. CASE On(x) \/ Unqueued(x)
      <3>1. x \in Held
        BY <2>2, UnspentHeld
      <3>2. x \in Held'
        BY <2>1, UnspentHeldNext
      <3>3. Software(x)' = Software(x)
        BY <3>1, <3>2, SoftwareKept
      <3> QED BY <1>0, <2>1, <2>2, <3>3 DEF Unspent
    <2>3. CASE ~(On(x) \/ Unqueued(x))
      <3>1. req[p[1]].live /\ p[2] > req[p[1]].next
        BY <2>1, <2>3
      <3> QED BY <1>0, <3>1 DEF Unspent
    <2> QED BY <2>2, <2>3
  <1> QED BY <1>1, <1>2, <1>3 DEF Unspent

\* Multiplication distributes over what is completed at once.
LEMMA Products ==
    ASSUME NEW a \in Nat, NEW b \in Nat, NEW c \in Nat
    PROVE  /\ (a + b) * c = a * c + b * c
           /\ a * c \in Nat /\ b * c \in Nat
           /\ a <= b => a * c <= b * c
  <1>1. (a + b) * c = a * c + b * c
    OBVIOUS
  <1>2. a * c \in Nat /\ b * c \in Nat
    OBVIOUS
  <1>3. ASSUME a <= b PROVE a * c <= b * c
    <2>1. PICK d \in Nat : b = a + d
      <3>1. b - a \in Nat /\ b = a + (b - a)
        BY <1>3
      <3> QED BY <3>1
    <2>2. b * c = a * c + d * c /\ d * c \in Nat
      BY <2>1
    <2> QED BY <1>2, <2>2
  <1> QED BY <1>1, <1>2, <1>3

\* A segment that is done adds no more than its descriptors to the result.
LEMMA ServicedBounded ==
    ASSUME IInv, PartsInv, Short, Bounded, NEW e, Serviced(e)
    PROVE  Bounded'
  <1>0. /\ e \in Engines /\ Suffix(e.list, engine.list) /\ SameChains(e, engine)
        /\ Complete(e) /\ engine \in Engines
    BY TypesOf DEF Serviced
  <1> SUFFICES ASSUME NEW i \in Iocbs
               PROVE  caio'[i].res <= caio'[i].cmpl_cnt * MaxDescs
    BY DEF Bounded
  <1> DEFINE S == {s \in Done(e) : s[1] = i}
             U == UNION {Transferred(e, s) : s \in S}
             X == {x \in Gone(e) : x[1] \in S}
             T == S \X (1 .. MaxDescs)
  <1>1. /\ caio'[i].res = caio[i].res + Cardinality(U)
        /\ caio'[i].cmpl_cnt = caio[i].cmpl_cnt + Cardinality(S)
        /\ caio[i].res \in Nat /\ caio[i].cmpl_cnt \in Nat
    <2>1. caio' = async_io_handler(e)
      BY <1>0 DEF Complete
    <2>2. caio[i] \in Caios(i)
      BY DEF IInv, Types
    <2> QED BY <2>1, <2>2 DEF async_io_handler, Caios
  <1>2. IsFiniteSet(S) /\ Cardinality(S) \in Nat
    <2>1. IsFiniteSet(Done(e)) /\ S \in SUBSET Done(e)
      BY <1>0, DoneFinite
    <2> QED BY <2>1, FS_Subset, FS_CardinalityType
  <1>3. IsFiniteSet(T) /\ Cardinality(T) = Cardinality(S) * MaxDescs
    <2>1. IsFiniteSet(1 .. MaxDescs) /\ Cardinality(1 .. MaxDescs) = MaxDescs
      BY SegsFinite
    <2> DEFINE N == 1 .. MaxDescs
    <2> HIDE DEF S, N
    <2>2. IsFiniteSet(S \X N) /\ Cardinality(S \X N) = Cardinality(S) * Cardinality(N)
      BY <1>2, <2>1, FS_Product DEF N
    <2> QED BY <2>1, <2>2 DEF N
  <1>4. X \subseteq Held
    BY <1>0, GoneHeld
  <1>5. Cardinality(Descs(engine, X)) <= Cardinality(T)
    <2>1. ASSUME NEW x \in X, NEW j \in 1 .. Num(x)
          PROVE  <<x[1], Start(x) + j>> \in T
      <3>1. Start(x) \in Nat /\ Num(x) \in Nat /\ Start(x) + Num(x) <= MaxDescs
        BY <1>4, SoftwareIn
      <3>2. Start(x) + j \in 1 .. MaxDescs
        BY <3>1, Numbers
      <3> QED BY <3>2
    <2> HIDE DEF X, T
    <2> QED BY <1>3, <1>4, <2>1, DescsPlaced
  <1>6. U \subseteq Descs(engine, X)
    <2> SUFFICES ASSUME NEW p \in U PROVE p \in Descs(engine, X)
      OBVIOUS
    <2>1. PICK s \in S : p \in Transferred(e, s)
      OBVIOUS
    <2>2. PICK x \in {s} \X Looked(e, s) : p \in {x} \X (1 .. e.xfer[x].num)
      BY <2>1 DEF Transferred, Descs
    <2>3. x[1] = s /\ x \in Gone(e)
      BY <2>2 DEF Gone
    <2>4. x \in X /\ x \in Xfers
      BY <1>0, <2>3, GoneHeld
    <2>5. e.xfer[x].num = engine.xfer[x].num
      BY <1>0, <2>4 DEF SameChains
    <2> QED BY <2>2, <2>4, <2>5 DEF Descs
  <1>7. IsFiniteSet(Descs(engine, X)) /\ Cardinality(Descs(engine, X)) \in Nat
    BY <1>0, <1>4, DescsCount DEF Held
  <1> HIDE DEF S, U, X, T
  <1>8. Cardinality(U) <= Cardinality(Descs(engine, X)) /\ Cardinality(U) \in Nat
    BY <1>6, <1>7, FS_Subset, FS_CardinalityType
  <1> DEFINE c == caio[i].cmpl_cnt
             m == Cardinality(S)
             u == Cardinality(U)
             r == caio[i].res
  <1>9. c \in Nat /\ m \in Nat /\ MaxDescs \in Nat /\ u \in Nat /\ r \in Nat
    BY <1>1, <1>2, <1>8, Numbers
  <1>10. /\ (c + m) * MaxDescs = c * MaxDescs + m * MaxDescs
         /\ c * MaxDescs \in Nat /\ m * MaxDescs \in Nat
    <2> HIDE DEF c, m
    <2> QED BY <1>9, Products
  <1>11. r <= c * MaxDescs
    BY DEF Bounded
  <1>12. u <= m * MaxDescs
    <2> DEFINE w == m * MaxDescs
               d == Cardinality(Descs(engine, X))
    <2>1. u <= d /\ d <= w /\ u \in Nat /\ d \in Nat /\ w \in Nat
      BY <1>3, <1>5, <1>7, <1>8, <1>10
    <2> HIDE DEF u, d, w
    <2>2. u <= w
      BY <2>1
    <2> QED BY <2>2 DEF w
  <1>13. caio'[i].res = r + u /\ caio'[i].cmpl_cnt = c + m
    BY <1>1
  <1> DEFINE cw == c * MaxDescs
             mw == m * MaxDescs
  <1>14. /\ r <= cw /\ u <= mw /\ cw \in Nat /\ mw \in Nat
         /\ (c + m) * MaxDescs = cw + mw
    BY <1>10, <1>11, <1>12
  <1> HIDE DEF c, m, u, r, cw, mw
  <1>15. r + u <= cw + mw
    BY <1>9, <1>14
  <1> QED BY <1>13, <1>14, <1>15

\* What is answered is spent: desc_dequeued grows by no more.
LEMMA ServicedDequeues ==
    ASSUME IInv, PartsInv, Short, Dequeues, IInv', PartsInv', [Next]_vars,
           NEW e, Serviced(e)
    PROVE  Dequeues'
  <1>0. /\ e \in Engines /\ Suffix(e.list, engine.list) /\ SameChains(e, engine)
        /\ Complete(e) /\ UNCHANGED submit /\ engine \in Engines /\ Distinct(engine)
    BY TypesOf, ListDistinct DEF Serviced
  <1>1. PICK k : Takes(e, engine, k)
    BY DEF Serviced
  <1>2. /\ engine'.dequeued = e.dequeued /\ pc' = pc /\ cur' = cur
        /\ \A s \in Segs : s \notin Done(e) => req'[s] = req[s]
        /\ \A s \in Done(e) : ~req'[s].live
    BY <1>0, CompletionChains
  <1>3. \A x : On(x)' => Stays(e, x)
    BY ServicedHeld
  <1>4. \A s \in Segs : Ahead(s)' <=> Ahead(s)
    BY <1>2 DEF Ahead
  <1>5. \A x \in Xfers : Unqueued(x)' => Unqueued(x)
    <2> SUFFICES ASSUME NEW x \in Xfers, Unqueued(x)' PROVE Unqueued(x)
      OBVIOUS
    <2>1. x[1] \in Segs /\ x[1][1] \in Iocbs
      BY XferParts, SegParts
    <2>2. x[1] = Seg(x[1][1]) /\ pc[x[1][1]] \in {"queue", "admit"} /\ x[2] = req'[x[1]].tfer - 1
      BY <1>2 DEF Unqueued, Seg
    <2>3. x[1] \notin Done(e)
      BY <1>0, <2>1, <2>2, DoneFacts DEF Busy
    <2> QED BY <1>2, <2>1, <2>2, <2>3 DEF Unqueued
  <1>6. Unspent' \subseteq Unspent
    <2>1. \A s \in Segs : req'[s].live =>
               Ahead(s) \/ (req[s].live /\ req[s].next <= req'[s].next)
      <3> SUFFICES ASSUME NEW s \in Segs, req'[s].live
                   PROVE  req[s].live /\ req[s].next <= req'[s].next
        OBVIOUS
      <3>1. req'[s] = req[s] /\ req[s].next \in Nat
        BY <1>2, Numbers DEF IInv, Types, Reqs
      <3> QED BY <3>1
    <2>2. \A x \in Xfers : On(x)' \/ Unqueued(x)' => On(x) \/ Unqueued(x)
      BY <1>0, <1>3, <1>5, StaysOn
    <2> QED BY <1>4, <2>1, <2>2, UnspentKept
  <1> DEFINE A == Firsts(engine, k)
             T == Unspent \ Unspent'
             D == Descs(engine, A)
  <1>7. IsFiniteSet(Unspent) /\ Cardinality(Unspent) \in Nat
    <2>1. Unspent \in SUBSET (Segs \X (1 .. MaxDescs))
      BY DEF Unspent
    <2> QED BY <2>1, SegsFinite, FS_Subset, FS_CardinalityType
  <1>8. /\ Len(engine.list) \in Nat /\ k \in Nat /\ k <= Len(engine.list)
        /\ Len(e.list) = Len(engine.list) - k
    BY <1>1, TypesOf DEF Takes
  <1>9. ASSUME NEW x \in A
        PROVE  /\ x \in Held /\ x \in Xfers /\ x[1] \in Segs /\ On(x)
               /\ ~Stays(e, x) /\ ~Unqueued(x) /\ ~Ahead(x[1])
    <2>1. PICK j \in 1 .. k : x = engine.list[j]
      BY DEF Firsts
    <2>2. j \in 1 .. Len(engine.list)
      BY <1>8
    <2>3. x \in Held /\ On(x) /\ ~Ahead(x[1]) /\ ~Unqueued(x)
      BY <2>1, <2>2, ListHeld DEF IInv, Listed
    <2>4. ~Stays(e, x)
      <3> SUFFICES ASSUME NEW l \in 1 .. Len(e.list), e.list[l] = x PROVE FALSE
        BY DEF Stays
      <3>1. e.list[l] = engine.list[Len(engine.list) - Len(e.list) + l]
        BY <1>0 DEF Suffix
      <3>2. PICK m : m = Len(engine.list) - Len(e.list) + l
        OBVIOUS
      <3>3. m \in 1 .. Len(engine.list) /\ m # j
        BY <1>8, <3>2
      <3> QED BY <1>0, <2>1, <2>2, <3>1, <3>2, <3>3 DEF Distinct
    <2> QED BY <2>3, <2>4, XferParts DEF Held
  <1>10. ASSUME NEW x \in A, NEW j \in 1 .. Num(x)
         PROVE  <<x[1], Start(x) + j>> \in T
    <2>1. /\ Start(x) \in Nat /\ Num(x) \in Nat /\ Start(x) + Num(x) <= MaxDescs
          /\ req[x[1]].live => Start(x) + Num(x) <= req[x[1]].next
      BY <1>9, SoftwareIn
    <2> DEFINE q == Start(x) + j
               p == <<x[1], q>>
    <2>2. q \in 1 .. MaxDescs /\ q \in Software(x) /\ q <= Start(x) + Num(x) /\ q \in Nat
      BY <2>1, Numbers DEF Software
    <2> HIDE DEF q
    <2>3. p \in Segs \X (1 .. MaxDescs) /\ p[1] = x[1] /\ p[2] = q
      BY <1>9, <2>2
    <2>4. p \in Unspent
      BY <1>9, <2>2, <2>3 DEF Unspent
    <2>5. p \notin Unspent'
      <3> SUFFICES ASSUME p \in Unspent' PROVE FALSE
        OBVIOUS
      <3>1. ~Ahead(x[1])'
        BY <1>4, <1>9
      <3>2. ~(req'[x[1]].live /\ q > req'[x[1]].next)
        <4> SUFFICES ASSUME req'[x[1]].live, q > req'[x[1]].next PROVE FALSE
          OBVIOUS
        <4>1. req'[x[1]] = req[x[1]] /\ req[x[1]].next \in Nat
          BY <1>2, <1>9, Numbers DEF IInv, Types, Reqs
        <4>2. Start(x) + Num(x) <= req[x[1]].next
          BY <2>1, <4>1
        <4> QED BY <2>1, <2>2, <4>1, <4>2
      <3>3. PICK y \in Xfers : y[1] = x[1] /\ (On(y)' \/ Unqueued(y)') /\ q \in Software(y)'
        <4> HIDE DEF p
        <4> QED BY <2>3, <3>1, <3>2 DEF Unspent
      <3>4. On(y) \/ Unqueued(y)
        BY <1>0, <1>3, <1>5, <3>3, StaysOn
      <3>5. y \in Held
        BY <3>4, UnspentHeld
      <3>6. y # x
        BY <1>3, <1>5, <1>9, <3>3
      <3>7. y \in Held'
        BY <3>3, UnspentHeldNext
      <3>8. q \in Software(y)
        BY <3>3, <3>5, <3>7, SoftwareKept
      <3> QED BY <1>9, <2>2, <3>3, <3>5, <3>6, <3>8, SoftwareApart
    <2>6. p \in T
      BY <2>4, <2>5
    <2> HIDE DEF T
    <2> QED BY <2>6 DEF q
  <1>11. A \subseteq Held
    BY <1>9
  <1>12. IsFiniteSet(T)
    BY <1>7, FS_Difference
  <1>13. Cardinality(D) <= Cardinality(T)
    <2> HIDE DEF A, T
    <2> QED BY <1>10, <1>11, <1>12, DescsPlaced
  <1>14. Cardinality(D) \in Nat
    BY <1>0, <1>11, DescsCount DEF Held
  <1>15. engine'.dequeued <= engine.dequeued + Cardinality(D)
    BY <1>1, <1>2 DEF Takes
  <1>16. engine'.dequeued \in Nat /\ engine.dequeued \in Nat
    BY <1>0, <1>2 DEF Engines
  <1> DEFINE V == Unspent'
             W == Cardinality(Segs) * MaxDescs
  <1>17. engine.dequeued + Cardinality(Unspent) <= W /\ W \in Nat
    BY Products, SegsFinite, Numbers DEF Dequeues
  <1>18. /\ Cardinality(V) \in Nat /\ Cardinality(T) \in Nat
         /\ Cardinality(V) + Cardinality(T) <= Cardinality(Unspent)
    <2>1. V \subseteq Unspent /\ T \subseteq Unspent /\ V \cap T = {}
      BY <1>6
    <2> HIDE DEF V, T
    <2> QED BY <1>7, <2>1, TwoParts
  <1> HIDE DEF V, T, W, D
  <1>19. engine'.dequeued + Cardinality(V) <= W
    BY <1>7, <1>13, <1>14, <1>15, <1>16, <1>17, <1>18
  <1> QED BY <1>19 DEF Dequeues, V, W

-----------------------------------------------------------------------------
(* Steps of the submitters *)

\* What is not held is not counted.
LEMMA CountedKept ==
    ASSUME IInv, IInv', [Next]_vars, Counted, Held' \subseteq Held, engine'.used = engine.used
    PROVE  Counted'
  <1> DEFINE A == Descs(engine', Held')
             C == Descs(engine, Held)
  <1>1. A \subseteq C
    <2> SUFFICES ASSUME NEW p \in A PROVE p \in C
      OBVIOUS
    <2>1. PICK x \in Held' : p \in {x} \X (1 .. engine'.xfer[x].num)
      BY DEF Descs
    <2>2. x \in Held /\ engine'.xfer[x].num = engine.xfer[x].num
      BY HeldLasts DEF Num
    <2> QED BY <2>1, <2>2 DEF Descs
  <1>2. IsFiniteSet(C)
    BY TypesOf, DescsCount DEF Held
  <1>3. Cardinality(C) <= engine.used /\ engine.used <= MaxUsed /\ engine.used \in Int
    BY TypesOf DEF Counted, Engines
  <1> HIDE DEF A, C
  <1>4. Cardinality(A) <= Cardinality(C) /\ Cardinality(A) \in Nat /\ Cardinality(C) \in Nat
    BY <1>1, <1>2, FS_Subset, FS_CardinalityType
  <1>5. Cardinality(A) <= engine.used
    BY <1>3, <1>4
  <1>6. Cardinality(A) <= engine'.used /\ engine'.used <= MaxUsed
    BY <1>3, <1>5
  <1> QED BY <1>6 DEF Counted, A

\* desc_dequeued stays within its bound when it does not grow, and nothing comes
\* to be answered.
LEMMA DequeuesKept ==
    ASSUME IInv, IInv', Dequeues, Unspent' \subseteq Unspent,
           engine'.dequeued <= engine.dequeued
    PROVE  Dequeues'
  <1> DEFINE V == Unspent'
             W == Cardinality(Segs) * MaxDescs
  <1>1. IsFiniteSet(Unspent) /\ Cardinality(Unspent) \in Nat
    <2>1. Unspent \in SUBSET (Segs \X (1 .. MaxDescs))
      BY DEF Unspent
    <2> QED BY <2>1, SegsFinite, FS_Subset, FS_CardinalityType
  <1>2. engine'.dequeued \in Nat /\ engine.dequeued \in Nat
    BY DEF IInv, Types, Engines
  <1>3. engine.dequeued + Cardinality(Unspent) <= W /\ W \in Nat
    BY Products, SegsFinite, Numbers DEF Dequeues
  <1>4. V \in SUBSET Unspent
    OBVIOUS
  <1> HIDE DEF V, W
  <1>5. Cardinality(V) <= Cardinality(Unspent) /\ Cardinality(V) \in Nat
    BY <1>1, <1>4, FS_Subset, FS_CardinalityType
  <1>6. engine'.dequeued + Cardinality(V) <= W
    BY <1>1, <1>2, <1>3, <1>5
  <1> QED BY <1>6 DEF Dequeues, V, W

\* A submitter goes on to point p at segment c.
LEMMA SubmitterUnspent ==
    ASSUME IInv, PartsInv, IInv', PartsInv', [Next]_vars, NEW i \in Iocbs, NEW p, NEW c,
           pc' = [pc EXCEPT ![i] = p], cur' = [cur EXCEPT ![i] = c],
           \/ c = cur[i] /\ (p \in {"out", "seg"} => pc[i] \in {"out", "seg"})
           \/ c = cur[i] + 1 /\ p = "seg",
           \A s \in Segs : s # Seg(i) => req'[s] = req[s],
           req'[Seg(i)].live => \/ Ahead(Seg(i))
                                \/ /\ req[Seg(i)].live
                                   /\ req[Seg(i)].next <= req'[Seg(i)].next,
           \A x \in Xfers : On(x)' => On(x) \/ Unqueued(x),
           p \in {"queue", "admit"} =>
               \A x \in Xfers : x[1] = Seg(i) /\ x[2] = req'[x[1]].tfer - 1 =>
                   \/ Unqueued(x)
                   \/ req[x[1]].live /\ \A j \in Software(x)' : j > req[x[1]].next
    PROVE  Unspent' \subseteq Unspent
  <1>0. /\ Seg(i) \in Segs /\ cur[i] \in Nat /\ pc \in [Iocbs -> Points] /\ cur \in [Iocbs -> Nat]
        /\ Seg(i) = <<i, cur[i]>>
    BY SegFacts DEF Seg
  <1>1. ASSUME NEW s \in Segs, Ahead(s)' PROVE Ahead(s)
    <2>1. PICK j \in Iocbs, n \in Nat : j = s[1] /\ n = s[2]
      BY SegParts
    <2>2. n > cur'[j] \/ (n = cur'[j] /\ pc'[j] \in {"out", "seg"})
      BY <1>1, <2>1 DEF Ahead
    <2>3. n > cur[j] \/ (n = cur[j] /\ pc[j] \in {"out", "seg"})
      <3>1. CASE j # i
        BY <1>0, <2>2, <3>1
      <3>2. CASE j = i
        <4>1. cur'[j] = c /\ pc'[j] = p
          BY <1>0, <3>2
        <4> QED BY <1>0, <2>2, <3>2, <4>1
      <3> QED BY <3>1, <3>2
    <2> QED BY <2>1, <2>3 DEF Ahead
  <1>2. \A s \in Segs : req'[s].live =>
               Ahead(s) \/ (req[s].live /\ req[s].next <= req'[s].next)
    <2> SUFFICES ASSUME NEW s \in Segs, req'[s].live, s # Seg(i)
                 PROVE  req[s].live /\ req[s].next <= req'[s].next
      OBVIOUS
    <2>1. req'[s] = req[s] /\ req[s].next \in Nat
      BY Numbers DEF IInv, Types, Reqs
    <2> QED BY <2>1
  <1>3. p \in Busy => c = cur[i]
    BY DEF Busy
  <1>4. /\ \A x \in Xfers : x[1] # Seg(i) => (Unqueued(x)' => Unqueued(x))
        /\ \A x \in Xfers : x[1] = Seg(i) =>
              (Unqueued(x)' <=> p \in {"queue", "admit"} /\ x[2] = req'[x[1]].tfer - 1)
    BY <1>3, MoveBuilding
  <1>5. \A x \in Xfers : On(x)' \/ Unqueued(x)' =>
               \/ On(x) \/ Unqueued(x)
               \/ req[x[1]].live /\ \A j \in Software(x)' : j > req[x[1]].next
    BY <1>4
  <1> QED BY <1>1, <1>2, <1>5, UnspentKept

\* What the types say besides Rest.
Counts == Within /\ Short /\ Counted /\ Bounded /\ Dequeues

\* A step of the driver in which they are to hold.
Onward ==
    /\ IInv /\ PartsInv /\ IInv' /\ PartsInv' /\ [Next]_vars
    /\ Within /\ Short /\ Counted /\ Bounded /\ Dequeues

\* A submitter that leaves the engine alone.
LEMMA IdleCounts ==
    ASSUME Onward, NEW i \in Iocbs,
           \/ \E n \in 1 .. MaxSegs[i] : AioStart(i, n)
           \/ AlignFailed(i) \/ MapFailed(i) \/ SubmitRefused(i)
           \/ \E n \in 1 .. MaxDescs : Submit(i, n)
           \/ CheckOnline(i) \/ Wakeup(i)
    PROVE  Counts'
  <1>0. IInv /\ PartsInv /\ IInv' /\ PartsInv' /\ [Next]_vars
    BY DEF Onward
  <1>1. engine' = engine
    BY DEF AioStart, AlignFailed, MapFailed, SubmitRefused, Submit, CheckOnline, Wakeup, driver
  <1>2. Within' /\ Short'
    BY <1>1 DEF Onward, Within, Fits, Short, Num
  <1>3. \A x : On(x)' <=> On(x)
    BY <1>1 DEF On
  <1>4. /\ Seg(i) \in Segs /\ req \in [Segs -> Reqs] /\ req[Seg(i)] \in Reqs
        /\ req[Seg(i)].next \in Nat
    BY <1>0, SegFacts, Numbers DEF Reqs
  <1>5. Bounded'
    <2> SUFFICES ASSUME NEW j \in Iocbs PROVE caio'[j].res <= caio'[j].cmpl_cnt * MaxDescs
      BY DEF Bounded
    <2>0. caio[j] \in Caios(j) /\ DOMAIN caio = Iocbs /\ MaxDescs \in Nat
      BY <1>0, Numbers DEF IInv, Types
    <2>1. caio[j].res <= caio[j].cmpl_cnt * MaxDescs
      BY DEF Onward, Bounded
    <2>2. CASE \E n \in 1 .. MaxSegs[i] : AioStart(i, n)
      <3>1. PICK n : caio' = [caio EXCEPT ![i] = [NoCaio EXCEPT !.live = TRUE, !.req_cnt = n]]
        BY <2>2 DEF AioStart
      <3>2. CASE j = i
        <4>1. caio'[j].res = 0 /\ caio'[j].cmpl_cnt = 0
          BY <2>0, <3>1, <3>2 DEF NoCaio
        <4> QED BY <2>0, <4>1
      <3>3. CASE j # i
        <4>1. caio'[j] = caio[j]
          BY <2>0, <3>1, <3>3
        <4> QED BY <2>1, <4>1
      <3> QED BY <3>2, <3>3
    <2>3. CASE ~\E n \in 1 .. MaxSegs[i] : AioStart(i, n)
      <3>1. caio' = caio \/ caio' = [caio EXCEPT ![i].live = FALSE]
        BY <2>3 DEF AlignFailed, MapFailed, SubmitRefused, Submit, CheckOnline, Wakeup, requests
      <3>2. caio'[j].res = caio[j].res /\ caio'[j].cmpl_cnt = caio[j].cmpl_cnt
        BY <2>0, <3>1 DEF Caios
      <3> QED BY <2>1, <3>2
    <2> QED BY <2>2, <2>3
  <1>6. /\ cur = [cur EXCEPT ![i] = cur[i]]
        /\ \A x \in Xfers : x[1] = Seg(i) /\ pc[i] \in {"queue", "admit"}
                                /\ x[2] = req[x[1]].tfer - 1 => Unqueued(x)
    <2>1. cur = [cur EXCEPT ![i] = cur[i]] /\ Seg(i)[1] = i
      BY <1>0, Unmoved, SegFacts
    <2> QED BY <2>1 DEF Unqueued
  <1>7. CASE \E n \in 1 .. MaxDescs : Submit(i, n)
    <2>1. PICK n \in 1 .. MaxDescs : Submit(i, n)
      BY <1>7
    <2> DEFINE r == [NoReq EXCEPT !.live = TRUE, !.total = n]
    <2>2. /\ pc' = [pc EXCEPT ![i] = "build"] /\ cur' = cur /\ pc[i] = "seg"
          /\ req' = [req EXCEPT ![Seg(i)] = r]
      BY <2>1 DEF Submit
    <2>3. /\ \A s \in Segs : s # Seg(i) => req'[s] = req[s]
          /\ req'[Seg(i)].tfer = 0
      BY <1>4, <2>2 DEF NoReq
    <2>4. Held' \subseteq Held
      <3> SUFFICES ASSUME NEW x \in Held' PROVE x \in Held
        OBVIOUS
      <3>1. x \in Xfers /\ x[1] \in Segs /\ x[2] \in {0, 1}
        BY XferParts DEF Held
      <3>2. On(x)' \/ (req'[x[1]].live /\ x[2] < req'[x[1]].tfer)
        BY DEF Held
      <3>3. On(x) \/ (x[1] # Seg(i) /\ req'[x[1]].live /\ x[2] < req'[x[1]].tfer)
        BY <1>3, <2>3, <3>1, <3>2
      <3> QED BY <2>3, <3>1, <3>3 DEF Held
    <2>5. Ahead(Seg(i))
      <3>1. Seg(i)[1] = i /\ Seg(i)[2] = cur[i]
        BY <1>0, SegFacts
      <3> QED BY <2>2, <3>1 DEF Ahead
    <2>6. Unspent' \subseteq Unspent
      <3>1. cur' = [cur EXCEPT ![i] = cur[i]]
        BY <1>6, <2>2
      <3> QED BY <1>0, <1>3, <2>2, <2>3, <2>5, <3>1, SubmitterUnspent
    <2>7. Counted' /\ Dequeues'
      <3>1. engine.dequeued \in Nat
        BY <1>0, TypesOf DEF Engines
      <3> QED BY <1>0, <1>1, <2>4, <2>6, <3>1, CountedKept, DequeuesKept DEF Onward
    <2> QED BY <1>2, <1>5, <2>7 DEF Counts
  <1>8. CASE ~\E n \in 1 .. MaxDescs : Submit(i, n)
    <2>1. req' = req
      BY <1>8 DEF AioStart, AlignFailed, MapFailed, SubmitRefused, CheckOnline, Wakeup, requests
    <2>2. Held' \subseteq Held
      BY <1>3, <2>1 DEF Held
    <2>3. Unspent' \subseteq Unspent
      <3>1. \A s \in Segs : s # Seg(i) => req'[s] = req[s]
        BY <2>1
      <3>2. req'[Seg(i)].live => req[Seg(i)].live /\ req[Seg(i)].next <= req'[Seg(i)].next
        BY <1>4, <2>1
      <3>3. PICK p, c : /\ pc' = [pc EXCEPT ![i] = p] /\ cur' = [cur EXCEPT ![i] = c]
                        /\ \/ c = cur[i] /\ (p \in {"out", "seg"} => pc[i] \in {"out", "seg"})
                           \/ c = cur[i] + 1 /\ p = "seg"
                        /\ p \in {"queue", "admit"} => pc[i] \in {"queue", "admit"}
        <4>1. CASE SubmitRefused(i)
          BY <1>0, <4>1, NextSegmentMoves DEF SubmitRefused
        <4>2. CASE ~SubmitRefused(i)
          <5>1. PICK p : /\ pc' = [pc EXCEPT ![i] = p] /\ cur' = cur
                         /\ p \in {"out", "seg"} => pc[i] \in {"out", "seg"}
                         /\ p \in {"queue", "admit"} => pc[i] \in {"queue", "admit"}
            BY <1>8, <4>2 DEF AioStart, AlignFailed, MapFailed, CheckOnline, Wakeup
          <5> QED BY <1>6, <5>1
        <4> QED BY <4>1, <4>2
      <3>4. p \in {"queue", "admit"} =>
               \A x \in Xfers : x[1] = Seg(i) /\ x[2] = req'[x[1]].tfer - 1 => Unqueued(x)
        BY <1>6, <2>1, <3>3
      <3> QED BY <1>0, <1>3, <3>1, <3>2, <3>3, <3>4, SubmitterUnspent
    <2>4. Counted' /\ Dequeues'
      <3>1. engine.dequeued \in Nat
        BY <1>0, TypesOf DEF Engines
      <3> QED BY <1>0, <1>1, <2>2, <2>3, <3>1, CountedKept, DequeuesKept DEF Onward
    <2> QED BY <1>2, <1>5, <2>4 DEF Counts
  <1> QED BY <1>7, <1>8

\* desc_used and the descriptors held grow by as many; those of the new chain
\* were not built before.
LEMMA BuildCounts ==
    ASSUME Onward, NEW i \in Iocbs, Build(i)
    PROVE  Counts'
  <1>0. IInv /\ PartsInv /\ IInv' /\ PartsInv' /\ [Next]_vars
    BY DEF Onward
  <1>1. PICK new, num : Built(i, new, num)
    BY <1>0, BuildIs
  <1>2. /\ new \in Xfers /\ new[1] = Seg(i) /\ new[2] = req[Seg(i)].tfer /\ Seg(i) \in Segs
        /\ engine' \in Engines /\ engine'.used = engine.used + num /\ engine'.xfer[new].num = num
        /\ engine'.dequeued = engine.dequeued /\ num \in Nat
        /\ req[Seg(i)].live /\ req[Seg(i)].next \in Nat
        /\ req'[Seg(i)].next = req[Seg(i)].next + num
        /\ \A s \in Segs : s # Seg(i) => req'[s] = req[s]
        /\ \A x \in Xfers : x # new => engine'.xfer[x] = engine.xfer[x]
    BY <1>1 DEF Built
  <1>3. /\ Held' = Held \cup {new} /\ new \notin Held
        /\ \A x : On(x)' <=> On(x)
        /\ \A x \in Held : Num(x)' = Num(x)
        /\ Start(new)' = req[Seg(i)].next
    BY <1>0, <1>1, BuildHeld, BuildStart
  <1>4. Within'
    BY <1>0, BuildFits DEF Onward
  <1>5. Short'
    <2>1. num <= MaxDescs
      <3>1. req[Seg(i)].total \in 0 .. MaxDescs
        BY <1>0, SegFacts DEF Reqs
      <3> QED BY <1>1, <3>1, Numbers DEF Built
    <2> QED BY <1>2, <2>1 DEF Onward, Short, Num
  <1>6. Counted'
    <2> DEFINE A == Descs(engine', Held')
               C == Descs(engine, Held)
               D == Descs(engine', Held)
    <2>1. C = D
      <3>1. \A x \in Held : engine'.xfer[x].num = engine.xfer[x].num
        BY <1>3 DEF Num
      <3> QED BY <3>1 DEF Descs
    <2>2. Held \subseteq Xfers
      BY DEF Held
    <2>3. Cardinality(D) \in Nat /\ Cardinality(A) = Cardinality(D) + num
      BY <1>2, <1>3, <2>2, DescsCount
    <2>4. Cardinality(C) <= engine.used /\ engine.used \in Int
      BY <1>0, TypesOf DEF Onward, Counted, Engines
    <2>5. engine.used + num <= MaxUsed
      <3> DEFINE m == ChainLength(engine, req[Seg(i)].total - req[Seg(i)].next)
      <3>1. /\ engine.used + m <= MaxUsed
            /\ engine' = transfer_init(engine, new, req[Seg(i)].next, req[Seg(i)].total)
        BY <1>1 DEF Build, Built
      <3>2. engine'.used = engine.used + m
        BY <1>0, <3>1, TypesOf DEF transfer_init, Engines
      <3> QED BY <1>2, <3>1, <3>2
    <2> HIDE DEF A, C, D
    <2>6. Cardinality(A) <= engine'.used /\ engine'.used <= MaxUsed
      BY <1>2, <2>1, <2>3, <2>4, <2>5
    <2> QED BY <2>6 DEF Counted, A
  <1>7. Bounded'
    BY DEF Build, Onward, Bounded
  <1>8. Unspent' \subseteq Unspent
    <2>1. /\ pc' = [pc EXCEPT ![i] = "queue"] /\ cur' = [cur EXCEPT ![i] = cur[i]]
      BY <1>0, Unmoved DEF Build
    <2>2. req[Seg(i)].next <= req'[Seg(i)].next
      BY <1>2
    <2>3. ASSUME NEW x \in Xfers, x[1] = Seg(i), x[2] = req'[x[1]].tfer - 1
          PROVE  req[x[1]].live /\ \A j \in Software(x)' : j > req[x[1]].next
      <3>1. x = new
        <4>1. x[2] = new[2]
          BY <1>1, <2>3 DEF Built
        <4> QED BY <1>2, <2>3, <4>1, XferParts
      <3>2. Software(x)' = req[Seg(i)].next + 1 .. req[Seg(i)].next + num
        <4>1. Start(x)' = req[Seg(i)].next /\ Num(x)' = num
          BY <1>2, <1>3, <3>1 DEF Num
        <4> QED BY <4>1 DEF Software
      <3> QED BY <1>2, <2>3, <3>2
    <2> QED BY <1>0, <1>2, <1>3, <2>1, <2>2, <2>3, SubmitterUnspent
  <1>9. Dequeues'
    <2>1. engine.dequeued \in Nat
      BY <1>0, TypesOf DEF Engines
    <2> QED BY <1>0, <1>2, <1>8, <2>1, DequeuesKept DEF Onward
  <1> QED BY <1>4, <1>5, <1>6, <1>7, <1>9 DEF Counts

\* A transfer that is listed was waiting for it.
LEMMA QueueCounts ==
    ASSUME Onward, NEW i \in Iocbs, Queue(i)
    PROVE  Counts'
  <1>0. IInv /\ PartsInv /\ IInv' /\ PartsInv' /\ [Next]_vars
    BY DEF Onward
  <1>1. /\ Xfer(i) \in Xfers /\ Seg(i) \in Segs /\ req' = req /\ Unqueued(Xfer(i))
        /\ SameChains(engine', engine)
        /\ \A x : On(x)' <=> On(x) \/ x = Xfer(i)
    BY <1>0, QueueIs
  <1>2. Within' /\ engine'.dequeued <= engine.dequeued
    BY <1>0, QueueFits DEF Onward
  <1>3. Short'
    BY <1>1 DEF SameChains, Onward, Short, Num
  <1>4. Held' \subseteq Held
    <2>1. Xfer(i) \in Held
      BY <1>0, <1>1, UnspentHeld
    <2> QED BY <1>1, <2>1 DEF Held
  <1>5. Counted'
    BY <1>0, <1>1, <1>4, CountedKept DEF Onward, SameChains
  <1>6. Bounded'
    BY DEF Queue, requests, Onward, Bounded
  <1>7. PICK p, c : /\ pc' = [pc EXCEPT ![i] = p] /\ cur' = [cur EXCEPT ![i] = c]
                    /\ p \notin {"queue", "admit"}
                    /\ \/ c = cur[i] /\ p \notin {"out", "seg"}
                       \/ c = cur[i] + 1 /\ p = "seg"
    <2>1. CASE req[Seg(i)].next < req[Seg(i)].total
      BY <1>0, <2>1, Unmoved DEF Queue
    <2>2. CASE ~(req[Seg(i)].next < req[Seg(i)].total)
      BY <1>0, <2>2, NextSegmentMoves DEF Queue
    <2> QED BY <2>1, <2>2
  <1>8. Unspent' \subseteq Unspent
    <2>1. req[Seg(i)].next <= req'[Seg(i)].next
      BY <1>0, <1>1, SegFacts, Numbers DEF Reqs
    <2>2. /\ \A s \in Segs : s # Seg(i) => req'[s] = req[s]
          /\ req'[Seg(i)].live => req[Seg(i)].live /\ req[Seg(i)].next <= req'[Seg(i)].next
      BY <1>1, <2>1
    <2>3. \A x \in Xfers : On(x)' => On(x) \/ Unqueued(x)
      BY <1>1
    <2> QED BY <1>0, <1>7, <2>2, <2>3, SubmitterUnspent
  <1>9. Dequeues'
    BY <1>0, <1>2, <1>8, DequeuesKept DEF Onward
  <1> QED BY <1>2, <1>3, <1>5, <1>6, <1>9 DEF Counts

\* The descriptors of a request that is freed stay counted by desc_used, and are
\* not answered any more.
LEMMA RefusedCounts ==
    ASSUME Onward, NEW i \in Iocbs, QueueRefused(i)
    PROVE  Counts'
  <1>0. IInv /\ PartsInv /\ IInv' /\ PartsInv' /\ [Next]_vars
    BY DEF Onward
  <1>1. /\ Seg(i) \in Segs /\ req'[Seg(i)] = NoReq
        /\ \A t \in Segs : t # Seg(i) => req'[t] = req[t]
        /\ \A x \in Xfers : x # Xfer(i) => engine'.xfer[x] = engine.xfer[x]
        /\ engine'.list = engine.list /\ engine'.busy = engine.busy /\ engine'.pos = engine.pos
        /\ engine'.count = engine.count /\ engine'.dequeued = engine.dequeued
        /\ engine'.ring = engine.ring
    BY <1>0, RefusedIs
  <1>2. Within'
    BY <1>1 DEF Onward, Within, Fits
  <1>3. engine'.used = engine.used /\ \A x \in Xfers : x = Xfer(i) => engine'.xfer[x].num = 0
    <2> DEFINE xfer == [engine.xfer EXCEPT ![Xfer(i)] = NoTransfer]
    <2>1. engine' = [engine EXCEPT !.xfer = xfer]
      BY DEF QueueRefused
    <2>2. engine \in Engines /\ engine.xfer \in [Xfers -> Transfers]
      BY <1>0, TypesOf DEF Engines
    <2>3. \A x \in Xfers : x = Xfer(i) => xfer[x].num = 0
      BY <2>2 DEF NoTransfer
    <2> HIDE DEF xfer
    <2>4. engine'.used = engine.used /\ engine'.xfer = xfer
      BY <2>1, <2>2 DEF Engines
    <2> QED BY <2>3, <2>4
  <1>4. Short'
    <2>1. 0 <= MaxDescs
      BY Numbers
    <2> QED BY <1>1, <1>3, <2>1 DEF Onward, Short, Num
  <1>5. \A x : On(x)' <=> On(x)
    BY <1>1 DEF On
  <1>6. req'[Seg(i)].live = FALSE
    BY <1>1 DEF NoReq
  <1>7. Held' \subseteq Held
    <2> SUFFICES ASSUME NEW x \in Held' PROVE x \in Held
      OBVIOUS
    <2>1. x \in Xfers /\ x[1] \in Segs
      BY XferParts DEF Held
    <2>2. On(x) \/ (req'[x[1]].live /\ x[2] < req'[x[1]].tfer)
      BY <1>5 DEF Held
    <2> QED BY <1>1, <1>6, <2>1, <2>2 DEF Held
  <1>8. Counted'
    BY <1>0, <1>3, <1>7, CountedKept DEF Onward
  <1>9. Bounded'
    BY DEF QueueRefused, Onward, Bounded
  <1>10. Unspent' \subseteq Unspent
    <2>1. PICK p \in {"seg", "wake"}, c \in Nat :
              /\ pc' = [pc EXCEPT ![i] = p] /\ cur' = [cur EXCEPT ![i] = c]
              /\ \/ c = cur[i] /\ p = "wake"
                 \/ c = cur[i] + 1 /\ p = "seg"
      BY <1>0, NextSegmentMoves DEF QueueRefused
    <2> QED BY <1>0, <1>1, <1>5, <1>6, <2>1, SubmitterUnspent
  <1>11. Dequeues'
    <2>1. engine.dequeued \in Nat
      BY <1>0, TypesOf DEF Engines
    <2> QED BY <1>0, <1>1, <1>10, <2>1, DequeuesKept DEF Onward
  <1> QED BY <1>2, <1>4, <1>8, <1>9, <1>11 DEF Counts

-----------------------------------------------------------------------------
(* Other steps *)

\* Without a change to the list, the requests and the chains there is only the
\* hardware to look at.
LEMMA QuietCounts ==
    ASSUME Onward, \/ xdma_isr \/ ServiceStatus \/ PollStatus \/ PollTimeout
                   \/ PollCheck \/ PollWake \/ PollProc \/ PollRead \/ PollClear
                   \/ OfflineFlag \/ OfflineStop \/ Online \/ Hardware \/ UNCHANGED vars
    PROVE  Counts'
  <1>0. IInv /\ PartsInv /\ IInv' /\ PartsInv' /\ [Next]_vars
    BY DEF Onward
  <1>1. /\ engine'.list = engine.list /\ SameChains(engine', engine)
        /\ pc' = pc /\ cur' = cur /\ caio' = caio /\ req' = req
    BY <1>0, OthersQuiet DEF Quiet, Kept, submit, requests
  <1>2. Within' /\ engine'.dequeued = engine.dequeued
    <2>1. CASE Move
      BY <1>0, <2>1, MoveFits DEF Onward
    <2>2. CASE ~Move
      <3>1. SameDequeued(engine', engine)
        BY <1>0, <2>2, QuietRun DEF Hardware
      <3> QED BY <3>1, FitsSame DEF SameDequeued, Within, Onward
    <2> QED BY <2>1, <2>2
  <1>3. Short'
    BY <1>1 DEF SameChains, Onward, Short, Num
  <1>4. \A x : On(x)' <=> On(x)
    BY <1>1 DEF On
  <1>5. Held' \subseteq Held
    BY <1>1, <1>4 DEF Held
  <1>6. Counted'
    BY <1>0, <1>1, <1>5, CountedKept DEF Onward, SameChains
  <1>7. Bounded'
    BY <1>1 DEF Onward, Bounded
  <1>8. Unspent' \subseteq Unspent
    <2>1. \A s \in Segs : Ahead(s)' => Ahead(s)
      BY <1>1 DEF Ahead
    <2>2. \A s \in Segs : req'[s].live => req[s].live /\ req[s].next <= req'[s].next
      <3>1. \A s \in Segs : req[s].next \in Nat
        BY <1>0, Numbers DEF IInv, Types, Reqs
      <3> QED BY <1>1, <3>1
    <2>3. \A x \in Xfers : Unqueued(x)' => Unqueued(x)
      BY <1>1 DEF Unqueued, Seg
    <2> QED BY <1>0, <1>4, <2>1, <2>2, <2>3, UnspentKept
  <1>9. Dequeues'
    <2>1. engine.dequeued \in Nat
      BY <1>0, TypesOf DEF Engines
    <2> QED BY <1>0, <1>2, <1>8, <2>1, DequeuesKept DEF Onward
  <1> QED BY <1>2, <1>3, <1>6, <1>7, <1>9 DEF Counts

\* Transfers that are answered leave what is held and what is to be answered.
LEMMA AnswerCounts ==
    ASSUME Onward, ServiceTransfers \/ PollAnswer
    PROVE  Counts'
  <1>0. IInv /\ PartsInv /\ IInv' /\ PartsInv' /\ [Next]_vars
    BY DEF Onward
  <1>1. PICK e : Serviced(e)
    BY <1>0, ServicedIs
  <1>2. Short'
    <2>0. e \in Engines /\ SameChains(e, engine) /\ Complete(e)
      BY <1>1 DEF Serviced
    <2> DEFINE Of(x) == e.xfer[x].first .. e.xfer[x].first + e.xfer[x].num - 1
               used == e.used - Cardinality(Descs(e, Gone(e)))
               ring == [i \in Slots |-> IF \E x \in Gone(e) : i \in Of(x)
                                        THEN NoDescriptor ELSE e.ring[i]]
               xfer == [x \in Xfers |-> IF x[1] \in Done(e) THEN NoTransfer ELSE e.xfer[x]]
    <2>1. engine' = [e EXCEPT !.used = used, !.ring = ring, !.xfer = xfer]
      BY <2>0 DEF Complete, xdma_xfer_completion, Gone
    <2>2. \A x \in Xfers : xfer[x].num = 0 \/ xfer[x].num = e.xfer[x].num
      BY DEF NoTransfer
    <2> HIDE DEF used, ring, xfer
    <2>3. engine'.xfer = xfer
      BY <2>0, <2>1 DEF Engines
    <2>4. 0 <= MaxDescs
      BY Numbers
    <2> QED BY <2>0, <2>2, <2>3, <2>4 DEF Onward, Short, Num, SameChains
  <1>3. Within' /\ Counted' /\ Bounded'
    BY <1>0, <1>1, ServicedFits, ServicedCounted, ServicedBounded DEF Onward
  <1>4. Dequeues'
    BY <1>0, <1>1, ServicedDequeues DEF Onward
  <1> QED BY <1>2, <1>3, <1>4 DEF Counts

\* That is all the driver and the hardware do.
LEMMA CountsNext ==
    ASSUME Onward
    PROVE  Counts'
  <1>0. [Next]_vars
    BY DEF Onward
  <1>1. ASSUME NEW i \in Iocbs, NEW n \in 1 .. MaxSegs[i], AioStart(i, n) PROVE Counts'
    BY <1>1, IdleCounts
  <1>2. ASSUME NEW i \in Iocbs, Proceed(i) PROVE Counts'
    BY <1>2, IdleCounts, BuildCounts, QueueCounts, RefusedCounts DEF Proceed
  <1>3. CASE ServiceTransfers \/ PollAnswer
    BY <1>3, AnswerCounts
  <1>4. CASE \/ xdma_isr \/ ServiceStatus \/ PollStatus \/ PollTimeout
             \/ PollCheck \/ PollWake \/ PollProc \/ PollRead \/ PollClear
             \/ OfflineFlag \/ OfflineStop \/ Online \/ Hardware \/ UNCHANGED vars
    BY <1>4, QuietCounts
  <1> QED BY <1>0, <1>1, <1>2, <1>3, <1>4 DEF Next, Interrupts, Poll

-----------------------------------------------------------------------------
(* The variables of Rest *)

\* Flags, points of the thread and histories, but for what they count.
Flags ==
    /\ poll_mode \in BOOLEAN /\ pending \in BOOLEAN /\ servicing \in BOOLEAN
    /\ thread \in {"check", "sleep", "proc", "poll", "clear", "service", "answer"}
    /\ schedule \in BOOLEAN
    /\ device \in {"up", "stopping", "down"} /\ offline \in BOOLEAN
    /\ faults \in 0 .. MaxFaults
    /\ seen \subseteq {"overrun", "interleaved", "error", "reset", "early"}

\* A submitter writes to the histories, the faults and thp->schedule.
LEMMA SubmitterFlags ==
    ASSUME Flags, NEW i \in Iocbs, Proceed(i) \/ \E n \in 1 .. MaxSegs[i] : AioStart(i, n)
    PROVE  Flags'
  <1>1. /\ poll_mode' = poll_mode /\ pending' = pending /\ servicing' = servicing
        /\ thread' = thread /\ device' = device /\ offline' = offline
    BY DEF Proceed, AioStart, AlignFailed, MapFailed, SubmitRefused, Submit, Build, CheckOnline,
           Queue, QueueRefused, Wakeup, driver, poller, admin
  <1>2. faults' = faults \/ Fault
    BY DEF Proceed, AioStart, AlignFailed, MapFailed, SubmitRefused, Submit, Build, CheckOnline,
           Queue, QueueRefused, Wakeup
  <1>3. faults' \in 0 .. MaxFaults
    BY <1>2, AsyncAssumption DEF Flags, Fault
  <1>4. schedule' = schedule \/ schedule' = (schedule \/ poll_mode)
    BY DEF Proceed, AioStart, AlignFailed, MapFailed, SubmitRefused, Submit, Build, CheckOnline,
           Queue, QueueRefused, Wakeup, poller
  <1>5. schedule' \in BOOLEAN
    BY <1>4 DEF Flags
  <1>6. seen' = seen \/ \E num : seen' = seen \cup Overrun(num) \cup Interleaved(i)
    BY DEF Proceed, AioStart, AlignFailed, MapFailed, SubmitRefused, Submit, Build, CheckOnline,
           Queue, QueueRefused, Wakeup
  <1>7. seen' \subseteq {"overrun", "interleaved", "error", "reset", "early"}
    BY <1>6 DEF Flags, Overrun, Interleaved
  <1> QED BY <1>1, <1>3, <1>5, <1>7 DEF Flags

\* So does the bottom half, and the thread goes from point to point.
LEMMA ServiceFlags ==
    ASSUME IInv, Flags, Interrupts \/ Poll \/ PollTimeout
    PROVE  Flags'
  <1>0. engine.running \in BOOLEAN
    BY TypesOf DEF Engines
  <1>1. /\ poll_mode' = poll_mode /\ device' = device /\ offline' = offline /\ faults' = faults
        /\ seen' = seen \/ seen' = seen \cup (IF engine.busy THEN {"early"} ELSE {})
    BY DEF Interrupts, xdma_isr, ServiceStatus, ServiceTransfers, Poll, PollTimeout,
           PollCheck, PollWake, PollProc, PollRead, PollClear, PollStatus, PollAnswer,
           driver, admin
  <1>2. seen' \subseteq {"overrun", "interleaved", "error", "reset", "early"}
    BY <1>1 DEF Flags
  <1>3. /\ pending' = pending \/ pending' = TRUE \/ pending' = FALSE
        /\ \/ servicing' = servicing \/ servicing' = TRUE \/ servicing' = FALSE
           \/ servicing' = engine.running
        /\ \/ schedule' = schedule \/ schedule' = FALSE
           \/ schedule' = (schedule /\ engine.list = <<>>)
    BY DEF Interrupts, xdma_isr, ServiceStatus, ServiceTransfers, Poll, PollTimeout,
           PollCheck, PollWake, PollProc, PollRead, PollClear, PollStatus, PollAnswer,
           driver, poller
  <1>4. pending' \in BOOLEAN /\ servicing' \in BOOLEAN
    BY <1>0, <1>3 DEF Flags
  <1>5. schedule' \in BOOLEAN
    BY <1>3 DEF Flags
  <1>6. thread' \in {"check", "sleep", "proc", "poll", "clear", "service", "answer"}
    BY DEF Flags, Interrupts, xdma_isr, ServiceStatus, ServiceTransfers, Poll, PollTimeout,
           PollCheck, PollWake, PollProc, PollRead, PollClear, PollStatus, PollAnswer,
           PollReturn, poller
  <1> QED BY <1>1, <1>2, <1>4, <1>5, <1>6 DEF Flags

\* A reset and the hardware.
LEMMA DeviceFlags ==
    ASSUME Flags, OfflineFlag \/ OfflineStop \/ Online \/ Hardware \/ UNCHANGED vars
    PROVE  Flags'
  <1>1. /\ poll_mode' = poll_mode /\ pending' = pending /\ servicing' = servicing
        /\ thread' = thread /\ schedule' = schedule
    BY DEF OfflineFlag, OfflineStop, Online, Hardware, Move, BusError, vars, driver, poller
  <1>2. /\ device' = device \/ device' = "up" \/ device' = "stopping" \/ device' = "down"
        /\ offline' = offline \/ offline' = TRUE \/ offline' = FALSE
    BY DEF OfflineFlag, OfflineStop, Online, Hardware, Move, BusError, vars, admin
  <1>3. faults' = faults \/ Fault
    BY DEF OfflineFlag, OfflineStop, Online, Hardware, Move, BusError, vars
  <1>4. faults' \in 0 .. MaxFaults
    BY <1>3, AsyncAssumption DEF Flags, Fault
  <1>5. seen' = seen \/ seen' = seen \cup {"reset"} \/ seen' = seen \cup {"error"}
    BY DEF OfflineFlag, OfflineStop, Online, Hardware, Move, BusError, vars
  <1>6. seen' \subseteq {"overrun", "interleaved", "error", "reset", "early"}
    BY <1>5 DEF Flags
  <1> QED BY <1>1, <1>2, <1>4, <1>6 DEF Flags

\* The counts in the write-back and in what was read of it, and the number that
\* is waited for, are within the ring.
LEMMA CountsRead ==
    ASSUME IInv, Rest, Within, [Next]_vars
    PROVE  expected' \in 0 .. DescMax /\ wb'.count <= DescMax /\ got'.count <= DescMax
  <1>0. /\ expected \in 0 .. DescMax /\ wb.count <= DescMax /\ got.count <= DescMax
        /\ 0 \in 0 .. DescMax /\ NoWb.count <= DescMax /\ engine.count <= DescMax
    BY Numbers DEF Rest, NoWb, Within, Fits
  <1>1. expected' \in 0 .. DescMax /\ got'.count <= DescMax
    <2>1. CASE PollProc
      <3>1. got' = got
        BY <2>1 DEF PollProc
      <3>2. CASE engine.list = <<>>
        BY <1>0, <2>1, <3>1, <3>2 DEF PollProc
      <3>3. CASE engine.list # <<>>
        <4>1. Head(engine.list) \in Xfers
          BY <3>3, TypesOf, HeadOn
        <4>2. engine.xfer[Head(engine.list)].num \in 0 .. DescMax
          BY <4>1, TypesOf DEF Engines, Transfers
        <4> QED BY <1>0, <2>1, <3>1, <3>3, <4>2 DEF PollProc
      <3> QED BY <3>2, <3>3
    <2>2. CASE ~PollProc
      <3>1. ASSUME NEW i \in Iocbs, Proceed(i) PROVE expected' = expected /\ got' = got
        BY <3>1 DEF Proceed, AlignFailed, MapFailed, SubmitRefused, Submit, Build, CheckOnline,
                    Queue, QueueRefused, Wakeup, poller
      <3>2. ASSUME NEW i \in Iocbs, NEW n \in 1 .. MaxSegs[i], AioStart(i, n)
            PROVE  expected' = expected /\ got' = got
        BY <3>2 DEF AioStart, poller
      <3>3. \/ expected' = expected /\ (got' = got \/ got' = wb)
            \/ expected' = 0 /\ got' = NoWb
        BY <2>2, <3>1, <3>2
           DEF Next, Interrupts, xdma_isr, ServiceStatus, ServiceTransfers, Poll, PollTimeout,
               PollCheck, PollWake, PollRead, PollClear, PollStatus, PollAnswer, PollReturn,
               OfflineFlag, OfflineStop, Online, Hardware, Move, BusError, vars, poller
      <3> QED BY <1>0, <3>3
    <2> QED BY <2>1, <2>2
  <1>2. wb'.count <= DescMax
    <2>1. ASSUME NEW i \in Iocbs, Proceed(i) PROVE wb' = wb
      BY <2>1 DEF Proceed, AlignFailed, MapFailed, SubmitRefused, Submit, Build, CheckOnline,
                  Queue, QueueRefused, Wakeup
    <2>2. ASSUME NEW i \in Iocbs, NEW n \in 1 .. MaxSegs[i], AioStart(i, n) PROVE wb' = wb
      BY <2>2 DEF AioStart
    <2>3. CASE Move
      <3>1. engine.count + 1 <= DescMax
        BY <2>3, MoveFits
      <3>2. wb' = wb \/ wb' = [count |-> engine.count + 1, err |-> FALSE]
        BY <2>3 DEF Move
      <3> QED BY <1>0, <3>1, <3>2
    <2>4. CASE BusError
      <3>1. wb' = wb \/ wb' = [count |-> engine.count, err |-> TRUE]
        BY <2>4 DEF BusError
      <3> QED BY <1>0, <3>1
    <2>5. CASE ~Hardware
      <3>1. wb' = wb \/ wb' = NoWb
        BY <2>1, <2>2, <2>5
           DEF Next, Interrupts, xdma_isr, ServiceStatus, ServiceTransfers, Poll, PollTimeout,
               PollCheck, PollWake, PollProc, PollRead, PollClear, PollStatus, PollAnswer,
               OfflineFlag, OfflineStop, Online, vars
      <3> QED BY <1>0, <3>1
    <2> QED BY <2>3, <2>4, <2>5 DEF Hardware
  <1> QED BY <1>1, <1>2

\* What the hardware moves is a software descriptor of some segment.
LEMMA MovedType ==
    ASSUME IInv, Rest, Within, [Next]_vars
    PROVE  moved' \in [Segs -> SUBSET (0 .. MaxDescs - 1)]
  <1>0. moved \in [Segs -> SUBSET (0 .. MaxDescs - 1)]
    BY DEF Rest
  <1>1. CASE Move
    <2> DEFINE d == engine.ring[engine.pos]
    <2>1. /\ moved' = [moved EXCEPT ![d.req[1]] = @ \cup {d.index}]
          /\ d.magic
      BY <1>1 DEF Move
    <2>2. d \in Descriptors
      BY <1>1, MoveFits, TypesOf DEF Engines
    <2> HIDE DEF d
    <2>3. d.req \in Xfers /\ d.index \in 0 .. MaxDescs - 1
      <3>1. d # NoDescriptor
        BY <2>1 DEF NoDescriptor
      <3>2. d \in [magic : {TRUE}, req : Xfers, index : 0 .. MaxDescs - 1, last : BOOLEAN]
        BY <2>2, <3>1 DEF Descriptors
      <3> QED BY <3>2
    <2>4. d.req[1] \in Segs
      BY <2>3, XferParts
    <2>5. PICK a \in Segs, b \in 0 .. MaxDescs - 1 : a = d.req[1] /\ b = d.index
      BY <2>3, <2>4
    <2>6. moved' = [moved EXCEPT ![a] = @ \cup {b}]
      BY <2>1, <2>5
    <2> QED BY <1>0, <2>5, <2>6
  <1>2. CASE ~Move
    <2>1. ASSUME NEW i \in Iocbs, Proceed(i) PROVE moved' = moved
      BY <2>1 DEF Proceed, AlignFailed, MapFailed, SubmitRefused, Submit, Build, CheckOnline,
                  Queue, QueueRefused, Wakeup
    <2>2. ASSUME NEW i \in Iocbs, NEW n \in 1 .. MaxSegs[i], AioStart(i, n) PROVE moved' = moved
      BY <2>2 DEF AioStart
    <2>3. moved' = moved
      BY <1>2, <2>1, <2>2
         DEF Next, Interrupts, xdma_isr, ServiceStatus, ServiceTransfers, Poll, PollTimeout,
             PollCheck, PollWake, PollProc, PollRead, PollClear, PollStatus, PollAnswer,
             OfflineFlag, OfflineStop, Online, Hardware, BusError, vars
    <2> QED BY <1>0, <2>3
  <1> QED BY <1>1, <1>2

\* A step of the driver or the hardware keeps Rest.
LEMMA RestNext ==
    ASSUME IInv, Rest, Within, [Next]_vars
    PROVE  Rest'
  <1>1. Flags
    BY DEF Rest, Flags
  <1>2. Flags'
    <2>1. ASSUME NEW i \in Iocbs, NEW n \in 1 .. MaxSegs[i], AioStart(i, n) PROVE Flags'
      BY <1>1, <2>1, SubmitterFlags
    <2>2. ASSUME NEW i \in Iocbs, Proceed(i) PROVE Flags'
      BY <1>1, <2>2, SubmitterFlags
    <2>3. CASE Interrupts \/ Poll \/ PollTimeout
      BY <1>1, <2>3, ServiceFlags
    <2>4. CASE OfflineFlag \/ OfflineStop \/ Online \/ Hardware \/ UNCHANGED vars
      BY <1>1, <2>4, DeviceFlags
    <2> QED BY <2>1, <2>2, <2>3, <2>4 DEF Next
  <1> QED BY <1>2, CountsRead, MovedType DEF Rest, Flags

-----------------------------------------------------------------------------
(* The engine, the write-back and the requests are always of their types *)

\* At first nothing is held, and everything is to be answered.
LEMMA TypeInit == Init => TypeInv
  <1> SUFFICES ASSUME Init PROVE TypeInv
    OBVIOUS
  <1>1. /\ engine.list = <<>> /\ engine.used = 0 /\ engine.dequeued = 0
        /\ engine.pos = 0 /\ engine.count = 0 /\ engine.busy = FALSE
        /\ engine.ring = [j \in Slots |-> NoDescriptor]
        /\ engine.xfer = [x \in Xfers |-> NoTransfer]
    BY DEF Init, EngineInit
  <1>2. Rest
    <2>1. /\ 0 \in 0 .. DescMax /\ NoWb.count <= DescMax /\ 0 \in 0 .. MaxFaults
      BY Numbers, AsyncAssumption DEF NoWb
    <2>2. /\ expected = 0 /\ wb = NoWb /\ got = NoWb /\ faults = 0
          /\ moved \in [Segs -> SUBSET (0 .. MaxDescs - 1)]
          /\ seen \subseteq {"overrun", "interleaved", "error", "reset", "early"}
      BY DEF Init
    <2>3. /\ poll_mode \in BOOLEAN /\ pending \in BOOLEAN /\ servicing \in BOOLEAN
          /\ thread = "sleep" /\ schedule \in BOOLEAN
          /\ device = "up" /\ offline \in BOOLEAN
      BY DEF Init
    <2> QED BY <2>1, <2>2, <2>3 DEF Rest
  <1>3. Within
    <2> DEFINE end == DescMax - 1
    <2>1. end \in Slots /\ 0 \in Slots /\ 0 <= DescMax
      BY Numbers DEF Slots
    <2>2. engine.ring[end].magic = FALSE
      <3> HIDE DEF end
      <3> QED BY <1>1, <2>1 DEF NoDescriptor
    <2> QED BY <1>1, <2>1, <2>2 DEF Within, Fits
  <1>4. Short
    BY <1>1, Numbers DEF Short, Num, NoTransfer
  <1>5. Counted
    <2>1. \A x \in Xfers : ~On(x) /\ x[1] \in Segs
      BY <1>1, XferParts DEF On
    <2>2. Held = {}
      BY <2>1 DEF Held, Init, NoReq
    <2>3. Descs(engine, Held) = {}
      BY <2>2 DEF Descs
    <2>4. Cardinality(Descs(engine, Held)) = 0
      BY <2>3, FS_EmptySet
    <2> QED BY <1>1, <2>4, AsyncAssumption DEF Counted
  <1>6. Bounded
    <2>1. 0 <= 0 * MaxDescs
      BY Numbers
    <2>2. \A i \in Iocbs : caio[i].res = 0 /\ caio[i].cmpl_cnt = 0
      BY DEF Init, NoCaio
    <2> QED BY <2>1, <2>2 DEF Bounded
  <1>7. Dequeues
    <2>1. Unspent \in SUBSET (Segs \X (1 .. MaxDescs))
      BY DEF Unspent
    <2>2. Cardinality(Unspent) <= Cardinality(Segs) * MaxDescs /\ Cardinality(Unspent) \in Nat
      BY <2>1, SegsFinite, FS_Subset, FS_CardinalityType
    <2> QED BY <1>1, <2>2 DEF Dequeues
  <1> QED BY <1>2, <1>3, <1>4, <1>5, <1>6, <1>7 DEF TypeInv

\* Every step keeps to the types.
LEMMA TypeNext == IInv /\ PartsInv /\ TypeInv /\ [Next]_vars => TypeInv'
  <1> SUFFICES ASSUME IInv, PartsInv, TypeInv, [Next]_vars
               PROVE  TypeInv'
    OBVIOUS
  <1>1. Onward /\ Rest /\ Within
    BY InvNext, PartsNext DEF Onward, TypeInv
  <1> QED BY <1>1, RestNext, CountsNext DEF Counts, TypeInv

\* The counts of a caio: no segment is counted twice.
LEMMA CaioType ==
    ASSUME IInv, Bounded, NEW i \in Iocbs
    PROVE  caio[i] \in [live : BOOLEAN, req_cnt : 0 .. MaxSegs[i],
                        cmpl_cnt : 0 .. MaxSegs[i], res : 0 .. MaxSegs[i] * MaxDescs,
                        told : BOOLEAN]
  <1>1. caio[i] \in Caios(i) /\ MaxSegs[i] \in Nat /\ MaxDescs \in Nat
    BY Numbers DEF IInv, Types
  <1>2. caio[i].cmpl_cnt <= MaxSegs[i]
    <2> DEFINE I == 1 .. MaxSegs[i]
    <2>1. IsFiniteSet({i} \X I) /\ Cardinality({i} \X I) = MaxSegs[i]
      BY <1>1, Column
    <2> HIDE DEF I
    <2>2. Completed(i) \in SUBSET ({i} \X I)
      <3> SUFFICES ASSUME NEW s \in Completed(i) PROVE s \in {i} \X I
        OBVIOUS
      <3>1. s[1] = i /\ s[2] \in I /\ s = <<s[1], s[2]>>
        BY SegParts DEF Completed, I
      <3> QED BY <3>1
    <2>3. Cardinality(Completed(i)) <= MaxSegs[i]
      BY <2>1, <2>2, FS_Subset
    <2> QED BY <2>3 DEF IInv, Awaited
  <1>3. caio[i].res <= MaxSegs[i] * MaxDescs
    <2> DEFINE c == caio[i].cmpl_cnt
               n == MaxSegs[i]
    <2>1. c \in Nat /\ caio[i].res \in Nat /\ caio[i].res <= c * MaxDescs
      BY <1>1 DEF Caios, Bounded
    <2>2. c * MaxDescs <= n * MaxDescs /\ c * MaxDescs \in Nat /\ n * MaxDescs \in Nat
      <3> HIDE DEF c, n
      <3>1. c <= n /\ n \in Nat
        BY <1>1, <1>2 DEF c, n
      <3> QED BY <1>1, <2>1, <3>1, Products
    <2> DEFINE a == c * MaxDescs
               b == n * MaxDescs
    <2> HIDE DEF a, b
    <2>3. caio[i].res <= b
      <3>1. caio[i].res <= a /\ a <= b /\ a \in Nat /\ b \in Nat
        BY <2>1, <2>2 DEF a, b
      <3> QED BY <2>1, <3>1
    <2> QED BY <2>3 DEF b
  <1> DEFINE m == MaxSegs[i] * MaxDescs
  <1>4. m \in Nat
    BY <1>1, Products
  <1>5. caio[i].cmpl_cnt \in 0 .. MaxSegs[i]
    BY <1>1, <1>2 DEF Caios
  <1>6. caio[i].res \in 0 .. m
    <2>1. caio[i].res <= m /\ caio[i].res \in Nat
      BY <1>1, <1>3 DEF Caios
    <2> HIDE DEF m
    <2> QED BY <1>4, <2>1
  <1> HIDE DEF m
  <1>7. caio[i] \in [live : BOOLEAN, req_cnt : 0 .. MaxSegs[i], cmpl_cnt : 0 .. MaxSegs[i],
                     res : 0 .. m, told : BOOLEAN]
    BY <1>1, <1>5, <1>6 DEF Caios
  <1> QED BY <1>7 DEF m

\* The numbers of an engine: what desc_used and desc_dequeued count is not
\* negative, nor more than there is.
LEMMA EngineType ==
    ASSUME IInv, Within, Counted, Dequeues
    PROVE  engine \in
              [running : BOOLEAN, shutdown : SUBSET {"REQUEST", "IDLE"},
               list : Seq(Xfers), dequeued : 0 .. Cardinality(Segs) * MaxDescs,
               idx : Slots, used : 0 .. MaxUsed,
               status : SUBSET {"BUSY", "STOPPED", "ERROR"},
               ring : [Slots -> Descriptors], xfer : [Xfers -> Transfers],
               busy : BOOLEAN, pos : Slots, count : 0 .. DescMax,
               events : SUBSET {"STOPPED", "ERROR"}, irq : BOOLEAN]
  <1> DEFINE m == Cardinality(Segs) * MaxDescs
  <1>0. engine \in Engines /\ m \in Nat
    BY TypesOf, SegsFinite, Numbers, Products
  <1>1. engine.used \in 0 .. MaxUsed
    <2>1. Cardinality(Descs(engine, Held)) \in Nat
      BY <1>0, DescsCount DEF Held
    <2> QED BY <1>0, <2>1 DEF Counted, Engines
  <1>2. engine.dequeued \in 0 .. m
    <2>1. Unspent \in SUBSET (Segs \X (1 .. MaxDescs))
      BY DEF Unspent
    <2>2. Cardinality(Unspent) \in Nat
      BY <2>1, SegsFinite, FS_Subset, FS_CardinalityType
    <2>3. engine.dequeued + Cardinality(Unspent) <= m /\ engine.dequeued \in Nat
      BY <1>0 DEF Dequeues, Engines
    <2> HIDE DEF m
    <2> QED BY <1>0, <2>2, <2>3
  <1>3. engine.pos \in Slots /\ engine.count \in 0 .. DescMax
    <2>1. engine.pos \in Slots /\ engine.count <= DescMax /\ engine.count \in Nat
      BY <1>0 DEF Within, Fits, Engines
    <2> QED BY <2>1, Numbers
  <1> HIDE DEF m
  <1>4. engine \in
          [running : BOOLEAN, shutdown : SUBSET {"REQUEST", "IDLE"},
           list : Seq(Xfers), dequeued : 0 .. m,
           idx : Slots, used : 0 .. MaxUsed,
           status : SUBSET {"BUSY", "STOPPED", "ERROR"},
           ring : [Slots -> Descriptors], xfer : [Xfers -> Transfers],
           busy : BOOLEAN, pos : Slots, count : 0 .. DescMax,
           events : SUBSET {"STOPPED", "ERROR"}, irq : BOOLEAN]
    BY <1>0, <1>1, <1>2, <1>3 DEF Engines
  <1> QED BY <1>4 DEF m

\* The engine, the write-back and the requests are of their types in every
\* behaviour, also when the ring was overrun: transfer_destroy never takes more
\* from desc_used than transfer_init has added to it, engine_service never
\* counts a descriptor twice in desc_dequeued, desc_idx and the hardware stay
\* in the ring, and a caio never counts more segments than it has.
THEOREM TypeAlwaysOK == Spec => []TypeOK
  <1>1. IInv /\ TypeInv => TypeOK
    <2> SUFFICES ASSUME IInv, TypeInv PROVE TypeOK
      OBVIOUS
    <2>1. /\ wb \in [count : 0 .. DescMax, err : BOOLEAN]
          /\ got \in [count : 0 .. DescMax, err : BOOLEAN]
      <3>1. wb.count <= DescMax /\ got.count <= DescMax /\ DescMax \in Nat
        BY Numbers DEF TypeInv, Rest
      <3> QED BY <3>1 DEF IInv, Types
    <2>2. \A i \in Iocbs : Seg(i) \in Segs
      BY SegFacts
    <2>3. /\ pc \in [Iocbs -> {"out", "seg", "build", "queue", "admit", "wake",
                               "queued", "failed"}]
          /\ cur \in [Iocbs -> Nat]
          /\ req \in [Segs -> [live : BOOLEAN, total : 0 .. MaxDescs,
                               next : 0 .. MaxDescs, tfer : 0 .. MaxTfer]]
      BY DEF IInv, Types, Points, Reqs
    <2> QED BY <2>1, <2>2, <2>3, CaioType, EngineType DEF TypeInv, Rest, TypeOK
  <1>2. Spec => []PartsInv
    BY InvHolds, PartsInit, PartsNext, PTL DEF Spec
  <1> QED BY <1>1, <1>2, InvHolds, TypeInit, TypeNext, PTL DEF Spec
=============================================================================
