-------------------------- MODULE XdmaDeviceProofs --------------------------
(***************************************************************************)
(* Proofs about the life of a device in the XDMA driver (XdmaDevice).      *)
(*                                                                         *)
(* How far the device is opened is one number, its level n: the first n    *)
(* steps of probe_one have been done and not been undone.  The steps that  *)
(* the PCI core has still to take determine the level and the phase c of   *)
(* its procedure (Where), and the level what is held of the device (Held): *)
(* a step that acquires something raises it by one, a step that fails goes *)
(* on with the releases of its level, and every release lowers it.  The    *)
(* other parts of the invariant say what the level alone does not: what    *)
(* earlier probes left in the counters of the kernel (Enabled, Threads),   *)
(* the nodes (Nodes), the handlers (Handled, Counted), and how far the     *)
(* device has been taken offline or online (Cycled).                       *)
(***************************************************************************)
EXTENDS XdmaDevice, FiniteSetTheorems, SequenceTheorems, TLAPS

-----------------------------------------------------------------------------
(* The steps an actor has still to take *)

\* The steps of procedure P from the k-th on.
Rest(P, k) == SubSeq(P, k, Len(P))

On(s, P, k) == k \in 1 .. Len(P) /\ s = Rest(P, k)

\* Step x is among the steps s.
Among(x, s) == \E i \in DOMAIN s : s[i] = x

Loading == <<"class_create", "cache_create", "register_driver">>

\* What is left to do when xdma_device_open fails, when an interface cannot be
\* created (remove_one is all but the first step of it), and on module_exit.
Unopened == Labels \o xpdev_free_unopened
Abandoned == <<"destroy_interfaces">> \o xpdev_free
Exiting == xpdev_free \o <<"cdev_cleanup">>

\* The levels before these steps.  With its interrupts disabled the device is
\* where xdma_device_open was before it enabled them.
UnopenedLevel == <<10, 9, 6, 5, 4, 3, 2, 1, 1>>
AbandonedLevel == <<13, 13, 13, 11, 10, 9, 6, 5, 4, 3, 2, 1>>

\* The interfaces still to create.
Creating(s) ==
    /\ s \in Seq(Groups \cup {"set_drvdata"}) /\ s # <<>>
    /\ \A i \in 1 .. Len(s) : s[i] = "set_drvdata" <=> i = Len(s)

\* xdma_device_online with poll_mode = p.
OnlineSteps(p) ==
    <<"start_engines">>
    \o (IF p THEN <<>> ELSE <<"irq_setup_again", "interrupts_enable">>)
    \o <<"clear_offline">>

Frozen == xdma_device_offline \o <<"aer_disable">>
Reset(p) == xdma_device_offline \o OnlineSteps(p)

\* Somewhere in taking the device offline or online, or in error recovery.
Cycle(s, p) ==
    \/ \E k \in 1 .. 4 : On(s, xdma_device_offline, k)
    \/ \E k \in 1 .. 8 : On(s, Reset(p), k)

Recovery(s) == (\E k \in 1 .. 5 : On(s, Frozen, k)) \/ s = <<"slot_reset">>

\* With steps s to take, the PCI core is in phase c with a device at level n.
Where(s, n, c, p) ==
    \/ c = "idle" /\ s = <<>> /\ n \in {0, 13}
    \/ c = "load" /\ n = 0 /\ \E k \in 1 .. 3 : On(s, Loading, k)
    \/ c = "open" /\ \E k \in 1 .. 13 : On(s, probe_one, k) /\ n = k - 1
    \/ c = "create" /\ n = 13 /\ Creating(s)
    \/ c = "remove" /\ n = 13 /\ \/ \E k \in 1 .. 2 : On(s, Abandoned, k)
                                  \/ On(s, Exiting, 1)
    \/ c = "release" /\ \/ \E k \in 1 .. 9 : On(s, Unopened, k) /\ n = UnopenedLevel[k]
                        \/ \E k \in 3 .. 12 : On(s, Abandoned, k) /\ n = AbandonedLevel[k]
                        \/ \E k \in 2 .. 11 : On(s, Exiting, k) /\ n = AbandonedLevel[k + 1]
    \/ c = "exit" /\ n = 0 /\ s = <<"cdev_cleanup">>
    \/ c = "cycle" /\ n = 13 /\ (Cycle(s, p) \/ Recovery(s))

-----------------------------------------------------------------------------
(* The invariant *)

AtAny(a, S) == ~Idle(a) /\ Head(todo[a]) \in S

Devices ==
    [xpdev : BOOLEAN, bound : BOOLEAN, xdev : BOOLEAN, listed : BOOLEAN,
     offline : BOOLEAN, shutdown : BOOLEAN,
     enabled : Int, regions : {"none", "got", "in_use"}, bars : BOOLEAN,
     h2c : 0 .. ChannelMax, c2h : 0 .. ChannelMax, threads : Int,
     msix : {"msix", "msi", "legacy"}, irq : [Lines -> Nat],
     lines : SUBSET Lines, vectors : SUBSET Lines,
     unmasked : SUBSET {"channel", "user"}, work : BOOLEAN,
     nodes : [Groups -> 0 .. UserMax + 2 * ChannelMax + 1],
     flags : SUBSET Groups, major : BOOLEAN, chrdev : BOOLEAN, event : 0 .. 1,
     class : BOOLEAN, cache : BOOLEAN, driver : BOOLEAN]

Typed ==
    /\ poll_mode \in BOOLEAN /\ dev \in Devices
    /\ todo \in [Actors -> Seq(Steps)]
    /\ aer \in {"normal", "frozen", "disconnected"}
    /\ probes \in 0 .. MaxProbes /\ resets \in 0 .. MaxResets
    /\ raised \in BOOLEAN /\ reader \in {"out", "wait"}
    /\ seen \subseteq Steps \cup {"overlap", "online_again", "remove_frozen",
                                 "late_work", "into_close"}

\* What is held of a device at level n.
Held(n, c) ==
    /\ (dev.xpdev <=> n >= 1) /\ (dev.xdev <=> n >= 2) /\ (dev.listed <=> n >= 3)
    /\ dev.bars <=> n >= 6
    /\ n >= 5 => dev.regions = "got"
    /\ n < 5 => \/ dev.regions = "none"
                \/ /\ dev.regions = "in_use" /\ n >= 2 /\ c = "release"
                   /\ "request_regions" \in seen
    /\ n < 9 => dev.h2c = 0 /\ dev.c2h = 0 /\ ~dev.work
    /\ n < 10 => dev.msix = "legacy"
    /\ dev.bound => n >= 1
    /\ dev.flags # {} => n = 13 \/ (c = "release" /\ n >= 1)
    /\ c \in {"idle", "cycle"} /\ n = 13 => dev.bound
    /\ n >= 1 \/ c = "open" => probes >= 1

\* An ioctl runs on a device that is open, or being closed.
Ioctls(n, c) ==
    /\ \/ todo["ioctl"] = <<>>
       \/ /\ Cycle(todo["ioctl"], poll_mode)
          /\ n = 13 \/ (c = "release" /\ n >= 2)
    /\ "overlap" \notin seen => todo["core"] = <<>> \/ todo["ioctl"] = <<>>

\* The enable count that the probes before have left.
Base(n) == dev.enabled - (IF n >= 4 /\ aer = "normal" THEN 1 ELSE 0)

Enabled(n, c) ==
    /\ Base(n) > 0 => "request_regions" \in seen
    /\ Base(n) < 0 => "remove_frozen" \in seen
    /\ LET done == IF n >= 4 \/ c = "open" THEN probes - 1 ELSE probes
       IN  -done <= Base(n) /\ Base(n) <= done
    /\ c \in {"open", "create"} => aer = "normal"
    /\ c = "cycle" => (At("core", "slot_reset") <=> aer # "normal")
    /\ At("core", "slot_reset") => aer = "frozen"
    /\ c \in {"remove", "release"} /\ n >= 4 /\ aer # "normal" => "remove_frozen" \in seen

\* The polling threads that the probes before have left.
Left(n) == dev.threads - (IF n >= 3 /\ poll_mode THEN NumThreads ELSE 0)

Threads(n, c) ==
    /\ Left(n) >= 0
    /\ Left(n) > 0 => "xdev_list_add" \in seen
    /\ Left(n) <= (IF n >= 3 \/ c = "open" THEN probes - 1 ELSE probes) * NumThreads

\* The nodes of the device have not been removed.
Present(n, c) == n = 13 /\ c # "release"

Nodes(n, c) ==
    /\ \A g \in Groups : dev.nodes[g] > 0 =>
          \/ g \in dev.flags /\ Present(n, c)
          \/ g \in {"events", "sg", "bypass"} \cap seen
    /\ dev.chrdev => dev.major /\ Present(n, c)
    /\ dev.nodes["sg"] > 0 /\ "sg" \notin seen => dev.nodes["sg"] <= dev.h2c + dev.c2h

Shared == <<"dev", 0>>

\* The steps of taking the device offline after its first, and online.
Downward == {"stop_engines", "interrupts_disable", "irq_teardown"}
Upward == {"irq_setup_again", "interrupts_enable", "clear_offline"}

\* The handlers of channels and user interrupts are registered at most once,
\* by a device that uses them; the shared one too as long as the device is
\* never taken online while it is online.
Handled(n, c) ==
    /\ n >= 11 => Handlers(dev) \subseteq dev.lines
    /\ \A l \in Lines \ {Shared} :
          /\ dev.irq[l] <= 1
          /\ dev.irq[l] > 0 /\ seen \cap {"irq_setup", "into_close"} = {} =>
                n >= 11 /\ dev.msix = "msix" /\ l \in Handlers(dev)
    /\ seen \cap {"online_again", "overlap"} = {} =>
          /\ dev.irq[Shared] <= 1
          /\ dev.irq[Shared] > 0 => n >= 11 /\ dev.msix # "msix"
          /\ \A a \in Actors : AtAny(a, Upward) => dev.offline
          /\ /\ c \in {"idle", "create", "cycle"} /\ n = 13 /\ dev.offline
             /\ \A a \in Actors :
                   ~AtAny(a, Downward \cup {"interrupts_enable", "clear_offline"})
             => dev.irq[Shared] = 0

One(b) == IF b THEN 1 ELSE 0

\* Every reset may register the shared handler once more: those that have not
\* yet done so are pending.
Counted(n, c) ==
    LET pending == One(Among("irq_setup_again", todo["ioctl"]))
                   + One(aer = "frozen" \/ Among("irq_setup_again", todo["core"])
                                        \/ Among("aer_disable", todo["core"]))
    IN  /\ pending <= resets
        /\ dev.irq[Shared] + pending <= resets + One(n >= 11 /\ dev.msix # "msix")

Up == \A l \in Handlers(dev) : dev.irq[l] > 0

\* Procedures that did not run into each other and did not fail.
Calm == seen \cap {"irq_setup_again", "overlap"} = {}

Cycled(n, c) ==
    /\ n < 12 /\ "overlap" \notin seen => Unmasked = {}
    /\ c = "open" /\ n \in 8 .. 11 => dev.unmasked = {}
    /\ dev.work => "channel" \in dev.unmasked \/ (c # "open" /\ "late_work" \in seen)
    /\ n = 12 => ~dev.offline /\ dev.unmasked = IF poll_mode THEN {} ELSE {"channel"}
    /\ n < 2 \/ c = "open" => ~dev.shutdown
    /\ Calm =>
        /\ c = "open" /\ n >= 11 => Up
        /\ Unmasked # {} => Up
        /\ c \in {"idle", "create", "cycle"} /\ n = 13 /\ ~dev.offline =>
              ~dev.shutdown /\ (~poll_mode => dev.unmasked = {"channel", "user"})
        /\ \A a \in Actors :
              /\ At(a, "irq_teardown") => Unmasked = {}
              /\ At(a, "interrupts_enable") => Up
              /\ c \in {"idle", "cycle"} /\ AtAny(a, Downward) => dev.offline
              /\ AtAny(a, Upward) => ~dev.shutdown
              /\ At(a, "clear_offline") /\ ~poll_mode
                 => dev.unmasked = {"channel", "user"}

Inv(n, c) ==
    /\ Where(todo["core"], n, c, poll_mode)
    /\ Held(n, c) /\ Ioctls(n, c) /\ Enabled(n, c) /\ Threads(n, c)
    /\ Nodes(n, c) /\ Handled(n, c) /\ Counted(n, c) /\ Cycled(n, c)

Phases == {"idle", "load", "open", "create", "remove", "release", "exit", "cycle"}

IInv == Typed /\ \E n \in 0 .. 13, c \in Phases : Inv(n, c)

-----------------------------------------------------------------------------
(* The procedures, step by step *)

\* The labels of xdma_device_open, one by one.
LEMMA LabelsAre ==
    /\ Labels \in Seq(Steps) /\ Len(Labels) = 7
    /\ Labels[1] = "disable_msi_msix" /\ Labels[2] = "remove_engines"
    /\ Labels[3] = "unmap_bars" /\ Labels[4] = "release_regions"
    /\ Labels[5] = "disable_device" /\ Labels[6] = "xdev_list_remove"
    /\ Labels[7] = "free_xdev"
  <1>1. /\ Len(Labels) = 7 /\ DOMAIN Labels = 1 .. 7
        /\ Labels[1] = "disable_msi_msix" /\ Labels[2] = "remove_engines"
        /\ Labels[3] = "unmap_bars" /\ Labels[4] = "release_regions"
        /\ Labels[5] = "disable_device" /\ Labels[6] = "xdev_list_remove"
        /\ Labels[7] = "free_xdev"
    BY DEF Labels
  <1>2. \A i \in 1 .. 7 : Labels[i] \in Steps
    BY <1>1 DEF Steps
  <1>3. Labels \in Seq(Steps)
    BY <1>1, <1>2 DEF Labels
  <1> QED BY <1>1, <1>3

\* A label names the place where the releases begin.
LEMMA FromIs ==
    ASSUME NEW k \in 1 .. 7
    PROVE  From(Labels[k]) = Rest(Labels, k)
  <1>1. \A i \in 1 .. Len(Labels) : Labels[i] = Labels[k] => i = k
    BY LabelsAre
  <1>2. (CHOOSE i \in 1 .. Len(Labels) : Labels[i] = Labels[k]) = k
    BY <1>1, LabelsAre
  <1> QED BY <1>2 DEF From, Rest

\* The length and the items of the rest of a procedure.
LEMMA RestItems ==
    ASSUME NEW S, NEW P \in Seq(S), NEW k \in 1 .. Len(P) + 1
    PROVE  /\ Rest(P, k) \in Seq(S) /\ Len(Rest(P, k)) = Len(P) - k + 1
           /\ \A i \in 1 .. Len(P) - k + 1 : Rest(P, k)[i] = P[k + i - 1]
  <1>1. Len(P) \in Nat /\ \A i \in k .. Len(P) : P[i] \in S
    BY LenProperties, ElementOfSeq
  <1> QED BY <1>1, SubSeqProperties DEF Rest

\* The first of the steps from the k-th on, and what follows it.
LEMMA RestStep ==
    ASSUME NEW S, NEW P \in Seq(S), NEW k \in 1 .. Len(P)
    PROVE  /\ Rest(P, k) # <<>> /\ Head(Rest(P, k)) = P[k]
           /\ Tail(Rest(P, k)) = Rest(P, k + 1)
  <1>1. /\ Len(Rest(P, k)) = Len(P) - k + 1 /\ Rest(P, k) \in Seq(S)
        /\ \A i \in 1 .. Len(P) - k + 1 : Rest(P, k)[i] = P[k + i - 1]
    BY RestItems
  <1>2. Head(Rest(P, k)) = P[k] /\ Rest(P, k) # <<>>
    BY <1>1
  <1>3. Tail(Rest(P, k)) = Rest(P, k + 1)
    BY <1>1, <1>2 DEF Rest
  <1> QED BY <1>1, <1>2, <1>3

\* After the last step nothing is left; from the first on it is everything.
LEMMA RestEnds ==
    ASSUME NEW S, NEW P \in Seq(S)
    PROVE  Rest(P, Len(P) + 1) = <<>> /\ Rest(P, 1) = P
  BY SubSeqEmpty, SubSeqFull, LenProperties DEF Rest

\* R is P followed by Q.
Joins(R, P, Q) ==
    /\ Len(R) = Len(P) + Len(Q)
    /\ \A i \in 1 .. Len(P) : R[i] = P[i]
    /\ \A i \in 1 .. Len(Q) : R[Len(P) + i] = Q[i]

\* The concatenation of two procedures joins them.
LEMMA ConcatJoins ==
    ASSUME NEW S, NEW P \in Seq(S), NEW Q \in Seq(S)
    PROVE  P \o Q \in Seq(S) /\ Joins(P \o Q, P, Q)
  BY ConcatProperties, LenProperties DEF Joins

\* There is no other sequence that joins two procedures.
LEMMA JoinsUnique ==
    ASSUME NEW S, NEW P \in Seq(S), NEW Q \in Seq(S),
           NEW R \in Seq(S), Joins(R, P, Q), NEW T \in Seq(S), Joins(T, P, Q)
    PROVE  R = T
  <1>1. Len(P) \in Nat /\ Len(Q) \in Nat /\ Len(R) = Len(T)
    BY LenProperties DEF Joins
  <1>2. ASSUME NEW i \in 1 .. Len(R) PROVE R[i] = T[i]
    <2>1. CASE i <= Len(P)
      BY <1>1, <2>1 DEF Joins
    <2>2. CASE ~(i <= Len(P))
      <3>1. i - Len(P) \in 1 .. Len(Q) /\ Len(P) + (i - Len(P)) = i
        BY <1>1, <2>2 DEF Joins
      <3> QED BY <3>1 DEF Joins
    <2> QED BY <2>1, <2>2
  <1> QED BY <1>1, <1>2, SeqEqual

\* The steps from the k-th on of two procedures, one after the other.
LEMMA RestJoins ==
    ASSUME NEW S, NEW P \in Seq(S), NEW Q \in Seq(S),
           NEW R \in Seq(S), Joins(R, P, Q), NEW k \in 1 .. Len(P) + 1
    PROVE  /\ Joins(Rest(R, k), Rest(P, k), Q)
           /\ Rest(R, k) \in Seq(S) /\ Rest(P, k) \in Seq(S)
  <1>1. Len(P) \in Nat /\ Len(Q) \in Nat /\ Len(R) \in Nat /\ k \in 1 .. Len(R) + 1
    BY LenProperties DEF Joins
  <1>2. /\ Rest(P, k) \in Seq(S) /\ Len(Rest(P, k)) = Len(P) - k + 1
        /\ \A i \in 1 .. Len(P) - k + 1 : Rest(P, k)[i] = P[k + i - 1]
    BY RestItems
  <1>3. /\ Rest(R, k) \in Seq(S) /\ Len(Rest(R, k)) = Len(R) - k + 1
        /\ \A i \in 1 .. Len(R) - k + 1 : Rest(R, k)[i] = R[k + i - 1]
    BY <1>1, RestItems
  <1>4. ASSUME NEW i \in 1 .. Len(Rest(P, k))
        PROVE  Rest(R, k)[i] = Rest(P, k)[i]
    <2>1. i \in 1 .. Len(P) - k + 1 /\ i \in 1 .. Len(R) - k + 1 /\ k + i - 1 \in 1 .. Len(P)
      BY <1>1, <1>2 DEF Joins
    <2> QED BY <1>2, <1>3, <2>1 DEF Joins
  <1>5. ASSUME NEW i \in 1 .. Len(Q)
        PROVE  Rest(R, k)[Len(Rest(P, k)) + i] = Q[i]
    <2>1. Len(Rest(P, k)) + i \in 1 .. Len(R) - k + 1
      BY <1>1, <1>2 DEF Joins
    <2>2. k + (Len(Rest(P, k)) + i) - 1 = Len(P) + i
      BY <1>1, <1>2
    <2> QED BY <1>3, <2>1, <2>2 DEF Joins
  <1>6. Len(Rest(R, k)) = Len(Rest(P, k)) + Len(Q)
    BY <1>1, <1>2, <1>3 DEF Joins
  <1> QED BY <1>2, <1>3, <1>4, <1>5, <1>6 DEF Joins

\* The rest of a concatenation is a rest of one of its parts.
LEMMA ConcatSteps ==
    ASSUME NEW S, NEW P \in Seq(S), NEW Q \in Seq(S), NEW k \in 1 .. Len(P) + 1
    PROVE  Rest(P, k) \o Q = Rest(P \o Q, k) /\ Rest(P \o Q, Len(P) + 1) = Q
  <1>1. P \o Q \in Seq(S) /\ Joins(P \o Q, P, Q)
    BY ConcatJoins
  <1>2. ASSUME NEW j \in 1 .. Len(P) + 1
        PROVE  Rest(P, j) \o Q = Rest(P \o Q, j)
    <2>1. /\ Joins(Rest(P \o Q, j), Rest(P, j), Q)
          /\ Rest(P \o Q, j) \in Seq(S) /\ Rest(P, j) \in Seq(S)
      BY <1>1, RestJoins
    <2>2. Rest(P, j) \o Q \in Seq(S) /\ Joins(Rest(P, j) \o Q, Rest(P, j), Q)
      BY <2>1, ConcatJoins
    <2> QED BY <2>1, <2>2, JoinsUnique
  <1>3. Rest(P, Len(P) + 1) \o Q = Rest(P \o Q, Len(P) + 1)
    BY <1>2, LenProperties
  <1>4. <<>> \o Q = Q
    BY ConcatEmptySeq
  <1> QED BY <1>2, <1>3, <1>4, RestEnds

-----------------------------------------------------------------------------
(* The steps of each procedure *)

\* The names of the steps.
LEMMA StepNames ==
    {"aer_disable", "alloc_dev_instance", "cache_create", "cdev_cleanup",
     "class_create", "clear_offline", "destroy_interfaces",
     "disable_device", "disable_msi_msix", "enable_msi_msix", "free_xdev",
     "free_xpdev", "interrupts_disable", "interrupts_enable", "irq_setup",
     "irq_setup_again", "irq_teardown", "map_bars", "open_done",
     "pci_enable_device", "probe_engines", "register_driver",
     "release_regions", "remove_engines", "request_regions", "set_dma_mask",
     "set_drvdata", "set_offline", "slot_reset", "start_engines",
     "stop_engines", "unmap_bars", "user_isr_enable", "xdev_list_add",
     "xdev_list_remove", "xpdev_alloc"}
    \cup Groups \subseteq Steps
  <1>1. {xdma_device_open[i] : i \in DOMAIN xdma_device_open} =
          {"alloc_dev_instance", "xdev_list_add", "pci_enable_device",
           "request_regions", "map_bars", "set_dma_mask",
           "interrupts_disable", "probe_engines", "enable_msi_msix",
           "irq_setup", "open_done"}
    BY DEF xdma_device_open
  <1>2. {Labels[i] : i \in DOMAIN Labels} =
          {"disable_msi_msix", "remove_engines", "unmap_bars",
           "release_regions", "disable_device", "xdev_list_remove",
           "free_xdev"}
    BY DEF Labels
  <1> QED BY <1>1, <1>2 DEF Steps

\* module_init, step by step.
LEMMA LoadingIs ==
    /\ Loading \in Seq(Steps) /\ Len(Loading) = 3
    /\ Loading[1] = "class_create" /\ Loading[2] = "cache_create"
    /\ Loading[3] = "register_driver"
  <1>1. /\ Len(Loading) = 3 /\ Loading[1] = "class_create"
        /\ Loading[2] = "cache_create" /\ Loading[3] = "register_driver"
    BY DEF Loading
  <1>2. Loading \in Seq(Steps)
    BY StepNames DEF Loading
  <1> QED BY <1>1, <1>2

\* xdma_device_open, step by step.
LEMMA OpenIs ==
    /\ xdma_device_open \in Seq(Steps) /\ Len(xdma_device_open) = 11
    /\ xdma_device_open[1] = "alloc_dev_instance"
    /\ xdma_device_open[2] = "xdev_list_add"
    /\ xdma_device_open[3] = "pci_enable_device"
    /\ xdma_device_open[4] = "request_regions"
    /\ xdma_device_open[5] = "map_bars"
    /\ xdma_device_open[6] = "set_dma_mask"
    /\ xdma_device_open[7] = "interrupts_disable"
    /\ xdma_device_open[8] = "probe_engines"
    /\ xdma_device_open[9] = "enable_msi_msix"
    /\ xdma_device_open[10] = "irq_setup"
    /\ xdma_device_open[11] = "open_done"
  BY StepNames DEF xdma_device_open

\* xpdev_free of a device that was not opened.
LEMMA UnopenedFreeIs ==
    /\ xpdev_free_unopened \in Seq(Steps) /\ Len(xpdev_free_unopened) = 2
    /\ xpdev_free_unopened[1] = "destroy_interfaces"
    /\ xpdev_free_unopened[2] = "free_xpdev"
  BY StepNames DEF xpdev_free_unopened

\* xdma_device_offline, step by step.
LEMMA OfflineIs ==
    /\ xdma_device_offline \in Seq(Steps) /\ Len(xdma_device_offline) = 4
    /\ xdma_device_offline[1] = "set_offline"
    /\ xdma_device_offline[2] = "stop_engines"
    /\ xdma_device_offline[3] = "interrupts_disable"
    /\ xdma_device_offline[4] = "irq_teardown"
  BY StepNames DEF xdma_device_offline

\* All that a failed xdma_device_open may have to release.
LEMMA UnopenedIs ==
    /\ Unopened \in Seq(Steps) /\ Len(Unopened) = 9
    /\ Unopened[1] = "disable_msi_msix" /\ Unopened[2] = "remove_engines"
    /\ Unopened[3] = "unmap_bars" /\ Unopened[4] = "release_regions"
    /\ Unopened[5] = "disable_device" /\ Unopened[6] = "xdev_list_remove"
    /\ Unopened[7] = "free_xdev" /\ Unopened[8] = "destroy_interfaces"
    /\ Unopened[9] = "free_xpdev"
  <1>1. Labels \in Seq(Steps) /\ xpdev_free_unopened \in Seq(Steps)
    BY LabelsAre, UnopenedFreeIs
  <1>2. Unopened \in Seq(Steps) /\ Joins(Unopened, Labels, xpdev_free_unopened)
    BY <1>1, ConcatJoins DEF Unopened
  <1> QED BY <1>2, LabelsAre, UnopenedFreeIs DEF Joins

\* probe_one, step by step.
LEMMA ProbeIs ==
    /\ probe_one \in Seq(Steps) /\ Len(probe_one) = 14
    /\ probe_one[1] = "xpdev_alloc" /\ probe_one[2] = "alloc_dev_instance"
    /\ probe_one[3] = "xdev_list_add" /\ probe_one[4] = "pci_enable_device"
    /\ probe_one[5] = "request_regions" /\ probe_one[6] = "map_bars"
    /\ probe_one[7] = "set_dma_mask" /\ probe_one[8] = "interrupts_disable"
    /\ probe_one[9] = "probe_engines" /\ probe_one[10] = "enable_msi_msix"
    /\ probe_one[11] = "irq_setup" /\ probe_one[12] = "open_done"
    /\ probe_one[13] = "user_isr_enable" /\ probe_one[14] = "set_drvdata"
  <1> DEFINE A == <<"xpdev_alloc">>
             B == <<"user_isr_enable", "set_drvdata">>
             C == A \o xdma_device_open
  <1>1. /\ A \in Seq(Steps) /\ Len(A) = 1 /\ A[1] = "xpdev_alloc"
        /\ B \in Seq(Steps) /\ Len(B) = 2
        /\ B[1] = "user_isr_enable" /\ B[2] = "set_drvdata"
    BY StepNames
  <1>2. probe_one = C \o B
    BY DEF probe_one
  <1> HIDE DEF A, B
  <1>3. C \in Seq(Steps) /\ Joins(C, A, xdma_device_open)
    BY <1>1, OpenIs, ConcatJoins
  <1> HIDE DEF C
  <1>4. probe_one \in Seq(Steps) /\ Joins(probe_one, C, B)
    BY <1>1, <1>2, <1>3, ConcatJoins
  <1>5. /\ Len(C) = 12 /\ C[1] = "xpdev_alloc"
        /\ \A i \in 1 .. 11 : C[1 + i] = xdma_device_open[i]
    BY <1>1, <1>3, OpenIs DEF Joins
  <1>6. /\ Len(probe_one) = 14 /\ \A i \in 1 .. 12 : probe_one[i] = C[i]
        /\ probe_one[12 + 1] = "user_isr_enable" /\ probe_one[12 + 2] = "set_drvdata"
    BY <1>1, <1>4, <1>5 DEF Joins
  <1>7. \A i \in 1 .. 11 : probe_one[1 + i] = xdma_device_open[i]
    BY <1>5, <1>6
  <1> QED BY <1>4, <1>5, <1>6, <1>7, OpenIs

\* xpdev_free of an open device: xdma_device_close is between.
LEMMA FreeIs ==
    /\ xpdev_free \in Seq(Steps) /\ Len(xpdev_free) = 11
    /\ xpdev_free[1] = "destroy_interfaces"
    /\ xpdev_free[2] = "interrupts_disable"
    /\ xpdev_free[3] = "irq_teardown" /\ xpdev_free[4] = "disable_msi_msix"
    /\ xpdev_free[5] = "remove_engines" /\ xpdev_free[6] = "unmap_bars"
    /\ xpdev_free[7] = "release_regions" /\ xpdev_free[8] = "disable_device"
    /\ xpdev_free[9] = "xdev_list_remove" /\ xpdev_free[10] = "free_xdev"
    /\ xpdev_free[11] = "free_xpdev"
  <1> DEFINE A == <<"interrupts_disable", "irq_teardown">>
             B == <<"destroy_interfaces">>
             C == <<"free_xpdev">>
             D == B \o xdma_device_close
  <1>1. /\ A \in Seq(Steps) /\ Len(A) = 2
        /\ A[1] = "interrupts_disable" /\ A[2] = "irq_teardown"
        /\ B \in Seq(Steps) /\ Len(B) = 1 /\ B[1] = "destroy_interfaces"
        /\ C \in Seq(Steps) /\ Len(C) = 1 /\ C[1] = "free_xpdev"
    BY StepNames
  <1>2. xdma_device_close = A \o Labels
    BY LabelsAre, FromIs, RestEnds DEF xdma_device_close
  <1>3. xpdev_free = D \o C
    BY DEF xpdev_free
  <1> HIDE DEF A, B, C
  <1>4. xdma_device_close \in Seq(Steps) /\ Joins(xdma_device_close, A, Labels)
    BY <1>1, <1>2, LabelsAre, ConcatJoins
  <1>5. D \in Seq(Steps) /\ Joins(D, B, xdma_device_close)
    BY <1>1, <1>4, ConcatJoins
  <1> HIDE DEF D
  <1>6. xpdev_free \in Seq(Steps) /\ Joins(xpdev_free, D, C)
    BY <1>1, <1>3, <1>5, ConcatJoins
  <1>7. /\ Len(xdma_device_close) = 9
        /\ xdma_device_close[1] = "interrupts_disable"
        /\ xdma_device_close[2] = "irq_teardown"
        /\ \A i \in 1 .. 7 : xdma_device_close[2 + i] = Labels[i]
    BY <1>1, <1>4, LabelsAre DEF Joins
  <1>8. /\ Len(D) = 10 /\ D[1] = "destroy_interfaces"
        /\ \A i \in 1 .. 9 : D[1 + i] = xdma_device_close[i]
    BY <1>1, <1>5, <1>7 DEF Joins
  <1>9. /\ Len(xpdev_free) = 11 /\ \A i \in 1 .. 10 : xpdev_free[i] = D[i]
        /\ xpdev_free[10 + 1] = "free_xpdev"
    BY <1>1, <1>6, <1>8 DEF Joins
  <1>10. \A i \in 1 .. 7 : xpdev_free[3 + i] = Labels[i]
    <2> TAKE i \in 1 .. 7
    <2>1. xdma_device_close[2 + i] = Labels[i] /\ D[1 + (2 + i)] = xdma_device_close[2 + i]
      BY <1>7, <1>8
    <2>2. xpdev_free[3 + i] = D[3 + i]
      BY <1>9
    <2> QED BY <2>1, <2>2
  <1> QED BY <1>6, <1>7, <1>8, <1>9, <1>10, LabelsAre

\* What follows when an interface cannot be created.
LEMMA AbandonedIs ==
    /\ Abandoned \in Seq(Steps) /\ Len(Abandoned) = 12
    /\ Abandoned[1] = "destroy_interfaces"
    /\ Abandoned[2] = "destroy_interfaces"
    /\ Abandoned[3] = "interrupts_disable" /\ Abandoned[4] = "irq_teardown"
    /\ Abandoned[5] = "disable_msi_msix" /\ Abandoned[6] = "remove_engines"
    /\ Abandoned[7] = "unmap_bars" /\ Abandoned[8] = "release_regions"
    /\ Abandoned[9] = "disable_device" /\ Abandoned[10] = "xdev_list_remove"
    /\ Abandoned[11] = "free_xdev" /\ Abandoned[12] = "free_xpdev"
  <1> DEFINE A == <<"destroy_interfaces">>
  <1>1. A \in Seq(Steps) /\ Len(A) = 1 /\ A[1] = "destroy_interfaces"
    BY StepNames
  <1>2. Abandoned = A \o xpdev_free
    BY DEF Abandoned
  <1> HIDE DEF A
  <1>3. Abandoned \in Seq(Steps) /\ Joins(Abandoned, A, xpdev_free)
    BY <1>1, <1>2, FreeIs, ConcatJoins
  <1>4. /\ Len(Abandoned) = 12 /\ Abandoned[1] = "destroy_interfaces"
        /\ \A i \in 1 .. 11 : Abandoned[1 + i] = xpdev_free[i]
    BY <1>1, <1>3, FreeIs DEF Joins
  <1> QED BY <1>3, <1>4, FreeIs

\* module_exit with a device bound.
LEMMA ExitingIs ==
    /\ Exiting \in Seq(Steps) /\ Len(Exiting) = 12
    /\ \A i \in 1 .. 11 : Exiting[i] = Abandoned[i + 1]
    /\ Exiting[12] = "cdev_cleanup"
  <1> DEFINE A == <<"cdev_cleanup">>
  <1>1. A \in Seq(Steps) /\ Len(A) = 1 /\ A[1] = "cdev_cleanup"
    BY StepNames
  <1>2. Exiting = xpdev_free \o A
    BY DEF Exiting
  <1> HIDE DEF A
  <1>3. Exiting \in Seq(Steps) /\ Joins(Exiting, xpdev_free, A)
    BY <1>1, <1>2, FreeIs, ConcatJoins
  <1>4. /\ Len(Exiting) = 12 /\ Exiting[11 + 1] = "cdev_cleanup"
        /\ \A i \in 1 .. 11 : Exiting[i] = xpdev_free[i]
    BY <1>1, <1>3, FreeIs DEF Joins
  <1> QED BY <1>3, <1>4, FreeIs, AbandonedIs

\* xdma_error_detected for a frozen device.
LEMMA FrozenIs ==
    /\ Frozen \in Seq(Steps) /\ Len(Frozen) = 5
    /\ \A i \in 1 .. 4 : Frozen[i] = xdma_device_offline[i]
    /\ Frozen[5] = "aer_disable"
  <1> DEFINE A == <<"aer_disable">>
  <1>1. A \in Seq(Steps) /\ Len(A) = 1 /\ A[1] = "aer_disable"
    BY StepNames
  <1>2. Frozen = xdma_device_offline \o A
    BY DEF Frozen
  <1> HIDE DEF A
  <1>3. Frozen \in Seq(Steps) /\ Joins(Frozen, xdma_device_offline, A)
    BY <1>1, <1>2, OfflineIs, ConcatJoins
  <1>4. /\ Len(Frozen) = 5 /\ Frozen[4 + 1] = "aer_disable"
        /\ \A i \in 1 .. 4 : Frozen[i] = xdma_device_offline[i]
    BY <1>1, <1>3, OfflineIs DEF Joins
  <1> QED BY <1>3, <1>4

\* xdma_device_online, step by step, with and without interrupts.
LEMMA OnlineIs ==
    ASSUME NEW p \in BOOLEAN
    PROVE  /\ OnlineSteps(p) \in Seq(Steps) /\ OnlineSteps(p)[1] = "start_engines"
           /\ p => Len(OnlineSteps(p)) = 2 /\ OnlineSteps(p)[2] = "clear_offline"
           /\ ~p => /\ Len(OnlineSteps(p)) = 4
                    /\ OnlineSteps(p)[2] = "irq_setup_again"
                    /\ OnlineSteps(p)[3] = "interrupts_enable"
                    /\ OnlineSteps(p)[4] = "clear_offline"
  <1> DEFINE A == <<"start_engines">>
             B == IF p THEN <<>> ELSE <<"irq_setup_again", "interrupts_enable">>
             C == <<"clear_offline">>
  <1>1. A \in Seq(Steps) /\ B \in Seq(Steps) /\ C \in Seq(Steps)
    BY StepNames
  <1>2. OnlineSteps(p) = A \o B \o C
    BY DEF OnlineSteps
  <1> HIDE DEF A, B, C
  <1>3. OnlineSteps(p) \in Seq(Steps)
    BY <1>1, <1>2, ConcatJoins
  <1>4. /\ OnlineSteps(p)[1] = "start_engines"
        /\ p => Len(OnlineSteps(p)) = 2 /\ OnlineSteps(p)[2] = "clear_offline"
    BY DEF OnlineSteps
  <1>5. ~p => /\ Len(OnlineSteps(p)) = 4
              /\ OnlineSteps(p)[2] = "irq_setup_again"
              /\ OnlineSteps(p)[3] = "interrupts_enable"
              /\ OnlineSteps(p)[4] = "clear_offline"
    BY DEF OnlineSteps
  <1> QED BY <1>3, <1>4, <1>5

\* xdma_reset_prepare and xdma_reset_done are the two one after the other.
LEMMA ResetIs ==
    ASSUME NEW p \in BOOLEAN
    PROVE  /\ Reset(p) \in Seq(Steps) /\ Len(Reset(p)) = 4 + Len(OnlineSteps(p))
           /\ \A i \in 1 .. 4 : Reset(p)[i] = xdma_device_offline[i]
           /\ \A i \in 1 .. Len(OnlineSteps(p)) : Reset(p)[4 + i] = OnlineSteps(p)[i]
  <1>1. Reset(p) \in Seq(Steps) /\ Joins(Reset(p), xdma_device_offline, OnlineSteps(p))
    BY OfflineIs, OnlineIs, ConcatJoins DEF Reset
  <1> QED BY <1>1, OfflineIs DEF Joins

-----------------------------------------------------------------------------
(* The first of the steps to take, and where the core is after it *)

\* An actor at step k of procedure P takes that step, is then at the next one,
\* and has the steps from k on still to take.
LEMMA OnStep ==
    ASSUME NEW P, NEW s, NEW k \in Nat, P \in Seq(Steps), On(s, P, k)
    PROVE  /\ s \in Seq(Steps) /\ s # <<>> /\ Head(s) = P[k]
           /\ k < Len(P) => /\ On(Tail(s), P, k + 1)
                            /\ Tail(s) # <<>> /\ Head(Tail(s)) = P[k + 1]
           /\ k = Len(P) => Tail(s) = <<>>
           /\ \A x \in Steps : Among(x, s) <=> \E j \in k .. Len(P) : P[j] = x
  <1> DEFINE m == Len(P)
  <1>1. k \in 1 .. m /\ s = Rest(P, k) /\ m \in Nat /\ k \in 1 .. m + 1
    BY LenProperties DEF On
  <1>2. /\ s \in Seq(Steps) /\ Len(s) = m - k + 1
        /\ \A i \in 1 .. m - k + 1 : s[i] = P[k + i - 1]
    BY <1>1, RestItems
  <1>3. s # <<>> /\ Head(s) = P[k] /\ Tail(s) = Rest(P, k + 1)
    BY <1>1, RestStep
  <1>4. ASSUME k < m
        PROVE  On(Tail(s), P, k + 1) /\ Tail(s) # <<>> /\ Head(Tail(s)) = P[k + 1]
    <2>1. k + 1 \in 1 .. m
      BY <1>1, <1>4
    <2>2. Rest(P, k + 1) # <<>> /\ Head(Rest(P, k + 1)) = P[k + 1]
      BY <2>1, RestStep
    <2> QED BY <1>1, <1>3, <2>1, <2>2 DEF On
  <1>5. k = m => Tail(s) = <<>>
    BY <1>1, <1>3, RestEnds
  <1>6. ASSUME NEW x \in Steps PROVE Among(x, s) <=> \E j \in k .. m : P[j] = x
    <2>1. DOMAIN s = 1 .. m - k + 1
      BY <1>2, LenProperties
    <2>2. ASSUME NEW i \in DOMAIN s, s[i] = x PROVE \E j \in k .. m : P[j] = x
      <3>1. k + i - 1 \in k .. m /\ P[k + i - 1] = x
        BY <1>1, <1>2, <2>1, <2>2
      <3> QED BY <3>1
    <2>3. ASSUME NEW j \in k .. m, P[j] = x PROVE \E i \in DOMAIN s : s[i] = x
      <3>1. j - k + 1 \in DOMAIN s /\ k + (j - k + 1) - 1 = j
        BY <1>1, <2>1
      <3>2. s[j - k + 1] = x
        BY <1>2, <2>1, <2>3, <3>1
      <3> QED BY <3>1, <3>2
    <2> QED BY <2>2, <2>3 DEF Among
  <1> QED BY <1>2, <1>3, <1>4, <1>5, <1>6

\* While the module is loaded.
LEMMA LoadRow ==
    ASSUME NEW s, NEW n, NEW p, Where(s, n, "load", p)
    PROVE  /\ s \in Seq(Steps) /\ s # <<>> /\ n = 0
           /\ Head(s) \in {"class_create", "cache_create", "register_driver"}
           /\ Where(Tail(s), 0, "load", p) \/ Tail(s) = <<>>
           /\ \A x \in {"free_xdev", "irq_setup_again", "aer_disable"} : ~Among(x, s)
  <1>1. PICK k \in 1 .. 3 : On(s, Loading, k) /\ n = 0
    BY DEF Where
  <1>2. /\ s \in Seq(Steps) /\ s # <<>> /\ Head(s) = Loading[k]
        /\ k < Len(Loading) => On(Tail(s), Loading, k + 1)
        /\ k = Len(Loading) => Tail(s) = <<>>
        /\ \A x \in Steps : Among(x, s) <=> \E j \in k .. Len(Loading) : Loading[j] = x
    <2>1. Loading \in Seq(Steps) /\ k \in Nat
      BY LoadingIs
    <2> QED BY <1>1, <2>1, OnStep
  <1>3. Len(Loading) = 3 /\ (k < 3 => k + 1 \in 1 .. 3)
    BY <1>1, LoadingIs
  <1>4. Where(Tail(s), 0, "load", p) \/ Tail(s) = <<>>
    BY <1>1, <1>2, <1>3 DEF Where
  <1>5. \A j \in k .. 3 : Loading[j] \in {"class_create", "cache_create", "register_driver"}
    BY <1>1, LoadingIs
  <1> QED BY <1>1, <1>2, <1>3, <1>4, <1>5, LoadingIs, StepNames

\* The steps of probe_one, up to the creation of the interfaces.
LEMMA OpenRow ==
    ASSUME NEW s, NEW n, NEW p, Where(s, n, "open", p)
    PROVE  /\ s \in Seq(Steps) /\ s # <<>> /\ n \in 0 .. 12
           /\ \/ n = 0 /\ Head(s) = "xpdev_alloc"
              \/ n = 1 /\ Head(s) = "alloc_dev_instance"
              \/ n = 2 /\ Head(s) = "xdev_list_add"
              \/ n = 3 /\ Head(s) = "pci_enable_device"
              \/ n = 4 /\ Head(s) = "request_regions"
              \/ n = 5 /\ Head(s) = "map_bars"
              \/ n = 6 /\ Head(s) = "set_dma_mask"
              \/ n = 7 /\ Head(s) = "interrupts_disable"
              \/ n = 8 /\ Head(s) = "probe_engines"
              \/ n = 9 /\ Head(s) = "enable_msi_msix"
              \/ n = 10 /\ Head(s) = "irq_setup"
              \/ n = 11 /\ Head(s) = "open_done"
              \/ n = 12 /\ Head(s) = "user_isr_enable"
           /\ n < 12 => Where(Tail(s), n + 1, "open", p)
           /\ n = 12 => Tail(s) = Rest(probe_one, 14)
           /\ \A x \in {"free_xdev", "irq_setup_again", "aer_disable"} : ~Among(x, s)
  <1>1. PICK k \in 1 .. 13 : On(s, probe_one, k) /\ n = k - 1
    BY DEF Where
  <1>2. /\ s \in Seq(Steps) /\ s # <<>> /\ Head(s) = probe_one[k]
        /\ k < Len(probe_one) => On(Tail(s), probe_one, k + 1)
        /\ \A x \in Steps : Among(x, s) <=> \E j \in k .. Len(probe_one) : probe_one[j] = x
    <2>1. probe_one \in Seq(Steps) /\ k \in Nat
      BY ProbeIs
    <2> QED BY <1>1, <2>1, OnStep
  <1>3. n < 12 => Where(Tail(s), n + 1, "open", p)
    <2>1. n < 12 => k + 1 \in 1 .. 13 /\ n + 1 = (k + 1) - 1
      BY <1>1
    <2> QED BY <1>2, <2>1, ProbeIs DEF Where
  <1>4. n = 12 => Tail(s) = Rest(probe_one, 14)
    <2>1. n = 12 => k = 13 /\ k < Len(probe_one) /\ k + 1 = 14
      BY <1>1, ProbeIs
    <2>2. n = 12 => Tail(s) = Rest(probe_one, k + 1)
      BY <1>2, <2>1 DEF On
    <2> QED BY <2>1, <2>2 DEF Rest
  <1>5. \A j \in k .. 14 : probe_one[j] \notin {"free_xdev", "irq_setup_again", "aer_disable"}
    BY <1>1, ProbeIs
  <1>6. Len(probe_one) = 14
    BY ProbeIs
  <1>7. \A x \in {"free_xdev", "irq_setup_again", "aer_disable"} : x \in Steps
    BY StepNames
  <1>8. \A x \in {"free_xdev", "irq_setup_again", "aer_disable"} : ~Among(x, s)
    BY <1>2, <1>5, <1>6, <1>7
  <1>9. \/ n = 0 /\ Head(s) = "xpdev_alloc"
        \/ n = 1 /\ Head(s) = "alloc_dev_instance"
        \/ n = 2 /\ Head(s) = "xdev_list_add"
        \/ n = 3 /\ Head(s) = "pci_enable_device"
        \/ n = 4 /\ Head(s) = "request_regions"
        \/ n = 5 /\ Head(s) = "map_bars"
        \/ n = 6 /\ Head(s) = "set_dma_mask"
        \/ n = 7 /\ Head(s) = "interrupts_disable"
        \/ n = 8 /\ Head(s) = "probe_engines"
        \/ n = 9 /\ Head(s) = "enable_msi_msix"
        \/ n = 10 /\ Head(s) = "irq_setup"
        \/ n = 11 /\ Head(s) = "open_done"
        \/ n = 12 /\ Head(s) = "user_isr_enable"
    <2>1. Head(s) = probe_one[k]
      BY <1>2
    <2> QED BY <1>1, <2>1, ProbeIs
  <1>10. n \in 0 .. 12
    BY <1>1
  <1> QED BY <1>2, <1>3, <1>4, <1>8, <1>9, <1>10

\* The interfaces, one by one, and then the device is bound.
LEMMA CreateRow ==
    ASSUME NEW s, NEW n, NEW p, Where(s, n, "create", p)
    PROVE  /\ s \in Seq(Steps) /\ s # <<>> /\ n = 13
           /\ \/ Head(s) \in Groups /\ Where(Tail(s), 13, "create", p)
              \/ Head(s) = "set_drvdata" /\ Tail(s) = <<>>
           /\ \A x \in {"free_xdev", "irq_setup_again", "aer_disable"} : ~Among(x, s)
  <1>1. /\ s \in Seq(Groups \cup {"set_drvdata"}) /\ s # <<>> /\ n = 13
        /\ \A i \in 1 .. Len(s) : s[i] = "set_drvdata" <=> i = Len(s)
    BY DEF Where, Creating
  <1>2. Groups \cup {"set_drvdata"} \subseteq Steps
    BY StepNames
  <1>3. s \in Seq(Steps)
    BY <1>1, <1>2, SeqMonotonic
  <1>4. /\ Len(s) \in Nat \ {0} /\ DOMAIN s = 1 .. Len(s) /\ Head(s) = s[1]
        /\ Tail(s) \in Seq(Groups \cup {"set_drvdata"}) /\ Len(Tail(s)) = Len(s) - 1
        /\ \A i \in 1 .. Len(s) - 1 : Tail(s)[i] = s[i + 1]
        /\ \A i \in 1 .. Len(s) : s[i] \in Groups \cup {"set_drvdata"}
    BY <1>1, LenProperties, HeadTailProperties, ElementOfSeq, EmptySeq
  <1>5. \A x \in {"free_xdev", "irq_setup_again", "aer_disable"} : ~Among(x, s)
    BY <1>4 DEF Among, Groups
  <1>6. CASE Len(s) = 1
    <2>1. Head(s) = "set_drvdata"
      BY <1>1, <1>4, <1>6
    <2>2. Tail(s) = <<>>
      <3> DEFINE S == Groups \cup {"set_drvdata"}
                 t == Tail(s)
      <3>1. t \in Seq(S) /\ Len(t) = 0
        BY <1>4, <1>6
      <3> HIDE DEF S, t
      <3>2. t = <<>>
        BY <3>1
      <3> QED BY <3>2 DEF t
    <2> QED BY <1>1, <1>3, <1>5, <2>1, <2>2
  <1>7. CASE Len(s) # 1
    <2>1. Head(s) \in Groups
      <3>1. 1 \in 1 .. Len(s) /\ 1 # Len(s)
        BY <1>4, <1>7
      <3>2. s[1] # "set_drvdata" /\ s[1] \in Groups \cup {"set_drvdata"}
        BY <1>1, <1>4, <3>1
      <3> QED BY <1>4, <3>2
    <2>2. Tail(s) # <<>>
      <3> DEFINE t == Tail(s)
      <3>1. Len(t) # 0
        BY <1>4, <1>7
      <3> HIDE DEF t
      <3>2. t # <<>>
        BY <3>1
      <3> QED BY <3>2 DEF t
    <2>3. ASSUME NEW i \in 1 .. Len(Tail(s))
          PROVE  Tail(s)[i] = "set_drvdata" <=> i = Len(Tail(s))
      <3>1. i + 1 \in 1 .. Len(s) /\ i \in 1 .. Len(s) - 1 /\ (i = Len(s) - 1 <=> i + 1 = Len(s))
        BY <1>4, <2>3
      <3> QED BY <1>1, <1>4, <3>1
    <2> QED BY <1>1, <1>3, <1>4, <1>5, <2>1, <2>2, <2>3 DEF Where, Creating
  <1> QED BY <1>6, <1>7

\* The releases of a device at level n: the next one, and the level after it.
ReleaseStep(s, n, p) ==
    \/ n = 13 /\ Head(s) = "interrupts_disable" /\ Where(Tail(s), 11, "release", p)
    \/ n = 11 /\ Head(s) = "irq_teardown" /\ Where(Tail(s), 10, "release", p)
    \/ n = 10 /\ Head(s) = "disable_msi_msix" /\ Where(Tail(s), 9, "release", p)
    \/ n = 9 /\ Head(s) = "remove_engines" /\ Where(Tail(s), 6, "release", p)
    \/ n = 6 /\ Head(s) = "unmap_bars" /\ Where(Tail(s), 5, "release", p)
    \/ n = 5 /\ Head(s) = "release_regions" /\ Where(Tail(s), 4, "release", p)
    \/ n = 4 /\ Head(s) = "disable_device" /\ Where(Tail(s), 3, "release", p)
    \/ n = 3 /\ Head(s) = "xdev_list_remove" /\ Where(Tail(s), 2, "release", p)
    \/ n = 2 /\ Head(s) = "free_xdev" /\ Where(Tail(s), 1, "release", p)
    \/ n = 1 /\ Head(s) = "destroy_interfaces" /\ Where(Tail(s), 1, "release", p)
    \/ n = 1 /\ Head(s) = "free_xpdev"
       /\ (Tail(s) = <<>> \/ Where(Tail(s), 0, "exit", p))

\* free_xdev is still to come above level 1.
Releases(s, n) ==
    /\ Among("free_xdev", s) <=> n >= 2
    /\ ~Among("irq_setup_again", s) /\ ~Among("aer_disable", s)

\* A release after a failed xdma_device_open.
LEMMA UnopenedRow ==
    ASSUME NEW s, NEW n, NEW p, NEW k \in 1 .. 9, On(s, Unopened, k), n = UnopenedLevel[k]
    PROVE  s \in Seq(Steps) /\ s # <<>> /\ ReleaseStep(s, n, p) /\ Releases(s, n)
  <1>1. Unopened \in Seq(Steps) /\ k \in Nat
    BY UnopenedIs
  <1>2. /\ s \in Seq(Steps) /\ s # <<>> /\ Head(s) = Unopened[k]
        /\ k < Len(Unopened) => On(Tail(s), Unopened, k + 1)
        /\ k = Len(Unopened) => Tail(s) = <<>>
        /\ \A x \in Steps : Among(x, s) <=> \E j \in k .. Len(Unopened) : Unopened[j] = x
    BY <1>1, OnStep
  <1>3. Len(Unopened) = 9 /\ (k < 9 => k + 1 \in 1 .. 9)
    BY UnopenedIs
  <1>4. k < 9 => Where(Tail(s), UnopenedLevel[k + 1], "release", p)
    BY <1>2, <1>3 DEF Where
  <1>5. /\ UnopenedLevel[1] = 10 /\ UnopenedLevel[2] = 9 /\ UnopenedLevel[3] = 6
        /\ UnopenedLevel[4] = 5 /\ UnopenedLevel[5] = 4 /\ UnopenedLevel[6] = 3
        /\ UnopenedLevel[7] = 2 /\ UnopenedLevel[8] = 1 /\ UnopenedLevel[9] = 1
    BY DEF UnopenedLevel
  <1>6. ReleaseStep(s, n, p)
    <2> HIDE DEF UnopenedLevel
    <2> QED BY <1>2, <1>3, <1>4, <1>5, UnopenedIs DEF ReleaseStep
  <1>7. Releases(s, n)
    <2>1. {"free_xdev", "irq_setup_again", "aer_disable"} \subseteq Steps
      BY StepNames
    <2>2. \A j \in 1 .. 9 : /\ Unopened[j] = "free_xdev" <=> j = 7
                            /\ Unopened[j] \notin {"irq_setup_again", "aer_disable"}
      BY UnopenedIs
    <2>3. n >= 2 <=> k <= 7
      BY <1>5
    <2>4. Among("free_xdev", s) <=> k <= 7
      BY <1>2, <1>3, <2>1, <2>2
    <2>5. ~Among("irq_setup_again", s) /\ ~Among("aer_disable", s)
      BY <1>2, <1>3, <2>1, <2>2
    <2> QED BY <2>3, <2>4, <2>5 DEF Releases
  <1> QED BY <1>2, <1>6, <1>7

\* Where the levels of Abandoned are.
LEMMA AbandonedLevels ==
    /\ AbandonedLevel[1] = 13 /\ AbandonedLevel[2] = 13 /\ AbandonedLevel[3] = 13
    /\ AbandonedLevel[4] = 11 /\ AbandonedLevel[5] = 10 /\ AbandonedLevel[6] = 9
    /\ AbandonedLevel[7] = 6 /\ AbandonedLevel[8] = 5 /\ AbandonedLevel[9] = 4
    /\ AbandonedLevel[10] = 3 /\ AbandonedLevel[11] = 2 /\ AbandonedLevel[12] = 1
  BY DEF AbandonedLevel

\* A release after a failed xpdev_create_interfaces, or in remove_one.
LEMMA AbandonedRow ==
    ASSUME NEW s, NEW n, NEW p, NEW k \in 3 .. 12, On(s, Abandoned, k), n = AbandonedLevel[k]
    PROVE  s \in Seq(Steps) /\ s # <<>> /\ ReleaseStep(s, n, p) /\ Releases(s, n)
  <1>1. Abandoned \in Seq(Steps) /\ k \in Nat
    BY AbandonedIs
  <1>2. /\ s \in Seq(Steps) /\ s # <<>> /\ Head(s) = Abandoned[k]
        /\ k < Len(Abandoned) => On(Tail(s), Abandoned, k + 1)
        /\ k = Len(Abandoned) => Tail(s) = <<>>
        /\ \A x \in Steps : Among(x, s) <=> \E j \in k .. Len(Abandoned) : Abandoned[j] = x
    BY <1>1, OnStep
  <1>3. Len(Abandoned) = 12 /\ (k < 12 => k + 1 \in 3 .. 12)
    BY AbandonedIs
  <1>4. k < 12 => Where(Tail(s), AbandonedLevel[k + 1], "release", p)
    BY <1>2, <1>3 DEF Where
  <1>5. ReleaseStep(s, n, p)
    BY <1>2, <1>3, <1>4, AbandonedLevels, AbandonedIs DEF ReleaseStep
  <1>6. Releases(s, n)
    <2>1. {"free_xdev", "irq_setup_again", "aer_disable"} \subseteq Steps
      BY StepNames
    <2>2. \A j \in 1 .. 12 : /\ Abandoned[j] = "free_xdev" <=> j = 11
                             /\ Abandoned[j] \notin {"irq_setup_again", "aer_disable"}
      BY AbandonedIs
    <2>3. n >= 2 <=> k <= 11
      BY AbandonedLevels
    <2>4. Among("free_xdev", s) <=> k <= 11
      BY <1>2, <1>3, <2>1, <2>2
    <2>5. ~Among("irq_setup_again", s) /\ ~Among("aer_disable", s)
      BY <1>2, <1>3, <2>1, <2>2
    <2> QED BY <2>3, <2>4, <2>5 DEF Releases
  <1> QED BY <1>2, <1>5, <1>6

\* A release on module_exit.
LEMMA ExitingRow ==
    ASSUME NEW s, NEW n, NEW p, NEW k \in 2 .. 11, On(s, Exiting, k), n = AbandonedLevel[k + 1]
    PROVE  s \in Seq(Steps) /\ s # <<>> /\ ReleaseStep(s, n, p) /\ Releases(s, n)
  <1>1. Exiting \in Seq(Steps) /\ k \in Nat
    BY ExitingIs
  <1>2. /\ s \in Seq(Steps) /\ s # <<>> /\ Head(s) = Exiting[k]
        /\ k < Len(Exiting) => On(Tail(s), Exiting, k + 1)
        /\ \A x \in Steps : Among(x, s) <=> \E j \in k .. Len(Exiting) : Exiting[j] = x
    BY <1>1, OnStep
  <1>3. Len(Exiting) = 12 /\ (k < 11 => k + 1 \in 2 .. 11)
    BY ExitingIs
  <1>4. k < 11 => Where(Tail(s), AbandonedLevel[(k + 1) + 1], "release", p)
    BY <1>2, <1>3 DEF Where
  <1>5. k = 11 => Where(Tail(s), 0, "exit", p)
    <2> SUFFICES ASSUME k = 11 PROVE Where(Tail(s), 0, "exit", p)
      OBVIOUS
    <2>1. Tail(s) = Rest(Exiting, 12)
      <3>1. Tail(s) = Rest(Exiting, k + 1)
        BY <1>2, <1>3 DEF On
      <3>2. k + 1 = 12
        OBVIOUS
      <3> QED BY <3>1, <3>2 DEF Rest
    <2>2. <<"cdev_cleanup">> = Rest(Exiting, 12)
      <3> DEFINE A == <<"cdev_cleanup">>
      <3>1. A \in Seq(Steps)
        BY StepNames
      <3>2. Exiting = xpdev_free \o A
        BY DEF Exiting
      <3> HIDE DEF A
      <3>3. Len(xpdev_free) + 1 \in 1 .. Len(xpdev_free) + 1
        BY FreeIs
      <3>4. Rest(xpdev_free \o A, Len(xpdev_free) + 1) = A
        BY <3>1, <3>3, FreeIs, ConcatSteps
      <3>5. Len(xpdev_free) + 1 = 12
        BY FreeIs
      <3> QED BY <3>2, <3>4, <3>5 DEF A
    <2> QED BY <2>1, <2>2 DEF Where
  <1>6. ReleaseStep(s, n, p)
    <2>1. Head(s) = Abandoned[k + 1]
      BY <1>2, ExitingIs
    <2> QED BY <1>4, <1>5, <2>1, AbandonedLevels, AbandonedIs DEF ReleaseStep
  <1>7. Releases(s, n)
    <2>1. {"free_xdev", "irq_setup_again", "aer_disable"} \subseteq Steps
      BY StepNames
    <2>2. \A j \in 2 .. 11 : /\ Abandoned[j + 1] = "free_xdev" <=> j = 10
                             /\ Abandoned[j + 1] \notin {"irq_setup_again", "aer_disable"}
      BY AbandonedIs
    <2>3. \A j \in 2 .. 12 : /\ Exiting[j] = "free_xdev" <=> j = 10
                             /\ Exiting[j] \notin {"irq_setup_again", "aer_disable"}
      BY <2>2, ExitingIs
    <2>4. n >= 2 <=> k <= 10
      BY AbandonedLevels
    <2>5. Among("free_xdev", s) <=> k <= 10
      BY <1>2, <1>3, <2>1, <2>3
    <2>6. ~Among("irq_setup_again", s) /\ ~Among("aer_disable", s)
      BY <1>2, <1>3, <2>1, <2>3
    <2> QED BY <2>4, <2>5, <2>6 DEF Releases
  <1> QED BY <1>2, <1>6, <1>7

\* Any release: each step lowers the level as ReleaseStep says.
LEMMA ReleaseRow ==
    ASSUME NEW s, NEW n, NEW p, Where(s, n, "release", p)
    PROVE  s \in Seq(Steps) /\ s # <<>> /\ ReleaseStep(s, n, p) /\ Releases(s, n)
  <1>1. CASE \E k \in 1 .. 9 : On(s, Unopened, k) /\ n = UnopenedLevel[k]
    BY <1>1, UnopenedRow
  <1>2. CASE \E k \in 3 .. 12 : On(s, Abandoned, k) /\ n = AbandonedLevel[k]
    BY <1>2, AbandonedRow
  <1>3. CASE \E k \in 2 .. 11 : On(s, Exiting, k) /\ n = AbandonedLevel[k + 1]
    BY <1>3, ExitingRow
  <1> QED BY <1>1, <1>2, <1>3 DEF Where

\* Removing the nodes, which comes before the releases.
LEMMA RemoveRow ==
    ASSUME NEW s, NEW n, NEW p, Where(s, n, "remove", p)
    PROVE  /\ s \in Seq(Steps) /\ s # <<>> /\ n = 13 /\ Head(s) = "destroy_interfaces"
           /\ Where(Tail(s), 13, "remove", p) \/ Where(Tail(s), 13, "release", p)
           /\ Releases(s, n)
  <1>1. n = 13
    BY DEF Where
  <1>2. ASSUME NEW k \in 1 .. 2, On(s, Abandoned, k)
        PROVE  /\ s \in Seq(Steps) /\ s # <<>> /\ Head(s) = "destroy_interfaces"
               /\ Where(Tail(s), 13, "remove", p) \/ Where(Tail(s), 13, "release", p)
               /\ Releases(s, 13)
    <2>1. Abandoned \in Seq(Steps) /\ k \in Nat
      BY AbandonedIs
    <2>2. /\ s \in Seq(Steps) /\ s # <<>> /\ Head(s) = Abandoned[k]
          /\ k < Len(Abandoned) => On(Tail(s), Abandoned, k + 1)
          /\ \A x \in Steps : Among(x, s) <=> \E j \in k .. Len(Abandoned) : Abandoned[j] = x
      BY <1>2, <2>1, OnStep
    <2>3. Len(Abandoned) = 12 /\ (k = 1 => k + 1 \in 1 .. 2) /\ (k = 2 => k + 1 \in 3 .. 12)
      BY AbandonedIs
    <2>4. k = 1 => Where(Tail(s), 13, "remove", p)
      BY <2>2, <2>3 DEF Where
    <2>5. k = 2 => Where(Tail(s), AbandonedLevel[k + 1], "release", p)
      BY <2>2, <2>3 DEF Where
    <2>6. k = 2 => AbandonedLevel[k + 1] = 13
      BY AbandonedLevels
    <2>7. {"free_xdev", "irq_setup_again", "aer_disable"} \subseteq Steps
      BY StepNames
    <2>8. /\ 11 \in k .. 12 /\ Abandoned[11] = "free_xdev"
          /\ \A j \in k .. 12 : Abandoned[j] \notin {"irq_setup_again", "aer_disable"}
      BY AbandonedIs
    <2>9. Releases(s, 13)
      BY <2>2, <2>3, <2>7, <2>8 DEF Releases
    <2>10. Head(s) = "destroy_interfaces"
      BY <2>2, AbandonedIs
    <2> QED BY <2>2, <2>4, <2>5, <2>6, <2>9, <2>10
  <1>3. ASSUME On(s, Exiting, 1)
        PROVE  /\ s \in Seq(Steps) /\ s # <<>> /\ Head(s) = "destroy_interfaces"
               /\ Where(Tail(s), 13, "release", p) /\ Releases(s, 13)
    <2>0. PICK k \in 1 .. 1 : On(s, Exiting, k)
      BY <1>3
    <2>1. Exiting \in Seq(Steps) /\ k \in Nat
      BY ExitingIs
    <2>2. /\ s \in Seq(Steps) /\ s # <<>> /\ Head(s) = Exiting[k]
          /\ k < Len(Exiting) => On(Tail(s), Exiting, k + 1)
          /\ \A x \in Steps : Among(x, s) <=> \E j \in k .. Len(Exiting) : Exiting[j] = x
      BY <2>0, <2>1, OnStep
    <2>3. Len(Exiting) = 12 /\ k + 1 \in 2 .. 11
      BY ExitingIs
    <2>4. Where(Tail(s), AbandonedLevel[(k + 1) + 1], "release", p)
      BY <2>2, <2>3 DEF Where
    <2>5. AbandonedLevel[(k + 1) + 1] = 13
      BY AbandonedLevels
    <2>6. {"free_xdev", "irq_setup_again", "aer_disable"} \subseteq Steps
      BY StepNames
    <2>7. /\ \A j \in 1 .. 11 : Abandoned[j + 1] \notin {"irq_setup_again", "aer_disable"}
          /\ Abandoned[10 + 1] = "free_xdev" /\ Abandoned[1 + 1] = "destroy_interfaces"
      BY AbandonedIs
    <2>8. /\ \A j \in k .. 12 : Exiting[j] \notin {"irq_setup_again", "aer_disable"}
          /\ 10 \in k .. 12 /\ Exiting[10] = "free_xdev" /\ Exiting[k] = "destroy_interfaces"
      BY <2>7, ExitingIs
    <2>9. Releases(s, 13)
      BY <2>2, <2>3, <2>6, <2>8 DEF Releases
    <2> QED BY <2>2, <2>4, <2>5, <2>8, <2>9
  <1> QED BY <1>1, <1>2, <1>3 DEF Where

\* Taking the device offline and online: the next step, and what follows it.
\* "aer_disable" and "slot_reset" are steps of error recovery only.
CycleStep(s, next, end) ==
    \/ Head(s) = "set_offline" /\ next = "stop_engines"
    \/ Head(s) = "stop_engines" /\ next = "interrupts_disable"
    \/ Head(s) = "interrupts_disable" /\ next = "irq_teardown"
    \/ Head(s) = "irq_teardown" /\ next \in {"", "start_engines"} \cup end
    \/ Head(s) \in end /\ next = ""

OnlineStep(s, next, p) ==
    \/ Head(s) = "start_engines" /\ next = IF p THEN "clear_offline" ELSE "irq_setup_again"
    \/ Head(s) = "irq_setup_again" /\ next = "interrupts_enable" /\ ~p
       /\ ~Among("irq_setup_again", Tail(s)) /\ ~Among("aer_disable", Tail(s))
    \/ Head(s) = "interrupts_enable" /\ next = "clear_offline" /\ ~p
    \/ Head(s) = "clear_offline" /\ next = ""

\* The first of the steps s, "" when there is none.
First(s) == IF s = <<>> THEN "" ELSE Head(s)

\* xdma_device_offline by itself.
LEMMA OfflineRow ==
    ASSUME NEW s, NEW p, NEW k \in 1 .. 4, On(s, xdma_device_offline, k)
    PROVE  /\ s \in Seq(Steps) /\ s # <<>>
           /\ CycleStep(s, First(Tail(s)), {})
           /\ Tail(s) = <<>> \/ Cycle(Tail(s), p)
           /\ \A x \in {"free_xdev", "aer_disable"} : ~Among(x, s)
  <1>1. xdma_device_offline \in Seq(Steps) /\ k \in Nat
    BY OfflineIs
  <1>2. /\ s \in Seq(Steps) /\ s # <<>> /\ Head(s) = xdma_device_offline[k]
        /\ k < Len(xdma_device_offline) =>
              /\ On(Tail(s), xdma_device_offline, k + 1)
              /\ Tail(s) # <<>> /\ Head(Tail(s)) = xdma_device_offline[k + 1]
        /\ k = Len(xdma_device_offline) => Tail(s) = <<>>
        /\ \A x \in Steps : Among(x, s) <=>
              \E j \in k .. Len(xdma_device_offline) : xdma_device_offline[j] = x
    BY <1>1, OnStep
  <1>3. Len(xdma_device_offline) = 4 /\ (k < 4 => k + 1 \in 1 .. 4)
    BY OfflineIs
  <1>4. k < 4 => Cycle(Tail(s), p)
    BY <1>2, <1>3 DEF Cycle
  <1>5. CycleStep(s, First(Tail(s)), {})
    <2>1. CASE k = 4
      BY <1>2, <1>3, <2>1, OfflineIs DEF First, CycleStep
    <2>2. CASE k < 4
      <3>1. First(Tail(s)) = xdma_device_offline[k + 1]
        BY <1>2, <1>3, <2>2 DEF First
      <3>2. /\ k = 1 => xdma_device_offline[k + 1] = "stop_engines"
            /\ k = 2 => xdma_device_offline[k + 1] = "interrupts_disable"
            /\ k = 3 => xdma_device_offline[k + 1] = "irq_teardown"
        BY OfflineIs
      <3>3. /\ k = 1 => Head(s) = "set_offline"
            /\ k = 2 => Head(s) = "stop_engines"
            /\ k = 3 => Head(s) = "interrupts_disable"
        BY <1>2, OfflineIs
      <3>4. k = 1 \/ k = 2 \/ k = 3
        BY <2>2
      <3> QED BY <3>1, <3>2, <3>3, <3>4 DEF CycleStep
    <2> QED BY <2>1, <2>2
  <1>6. {"free_xdev", "aer_disable"} \subseteq Steps
    BY StepNames
  <1>7. \A j \in k .. 4 : xdma_device_offline[j] \notin {"free_xdev", "aer_disable"}
    BY OfflineIs
  <1>8. \A x \in {"free_xdev", "aer_disable"} : ~Among(x, s)
    BY <1>2, <1>3, <1>6, <1>7
  <1> QED BY <1>2, <1>3, <1>4, <1>5, <1>8

\* The steps of a reset by their numbers.
LEMMA ResetItems ==
    ASSUME NEW p \in BOOLEAN
    PROVE  /\ Reset(p) \in Seq(Steps) /\ Len(Reset(p)) = IF p THEN 6 ELSE 8
           /\ Reset(p)[1] = "set_offline" /\ Reset(p)[2] = "stop_engines"
           /\ Reset(p)[3] = "interrupts_disable" /\ Reset(p)[4] = "irq_teardown"
           /\ Reset(p)[5] = "start_engines"
           /\ p => Reset(p)[6] = "clear_offline"
           /\ ~p => /\ Reset(p)[6] = "irq_setup_again"
                    /\ Reset(p)[7] = "interrupts_enable" /\ Reset(p)[8] = "clear_offline"
  <1>1. /\ Reset(p) \in Seq(Steps) /\ Len(Reset(p)) = 4 + Len(OnlineSteps(p))
        /\ \A i \in 1 .. 4 : Reset(p)[i] = xdma_device_offline[i]
        /\ \A i \in 1 .. Len(OnlineSteps(p)) : Reset(p)[4 + i] = OnlineSteps(p)[i]
    BY ResetIs
  <1>2. CASE p
    <2> DEFINE Q == OnlineSteps(p)
               R == Reset(p)
    <2>1. Len(Q) = 2 /\ Q[1] = "start_engines" /\ Q[2] = "clear_offline"
      BY <1>2, OnlineIs
    <2>2. /\ R \in Seq(Steps) /\ Len(R) = 4 + Len(Q)
          /\ \A i \in 1 .. 4 : R[i] = xdma_device_offline[i]
          /\ \A i \in 1 .. Len(Q) : R[4 + i] = Q[i]
      BY <1>1
    <2> HIDE DEF Q, R
    <2>3. \A i \in 1 .. 2 : R[4 + i] = Q[i]
      BY <2>1, <2>2
    <2>4. R[4 + 1] = Q[1] /\ R[4 + 2] = Q[2]
      BY <2>3
    <2>5. 4 + 1 = 5 /\ 4 + 2 = 6
      OBVIOUS
    <2>6. Len(R) = 6 /\ R[5] = "start_engines" /\ R[6] = "clear_offline"
      BY <2>1, <2>2, <2>4, <2>5
    <2>7. R[1] = "set_offline" /\ R[2] = "stop_engines" /\ R[3] = "interrupts_disable" /\ R[4] = "irq_teardown"
      BY <2>2, OfflineIs
    <2> QED BY <1>1, <1>2, <2>6, <2>7 DEF R
  <1>3. CASE ~p
    <2> DEFINE Q == OnlineSteps(p)
               R == Reset(p)
    <2>1. /\ Len(Q) = 4 /\ Q[1] = "start_engines" /\ Q[2] = "irq_setup_again"
          /\ Q[3] = "interrupts_enable" /\ Q[4] = "clear_offline"
      BY <1>3, OnlineIs
    <2>2. /\ R \in Seq(Steps) /\ Len(R) = 4 + Len(Q)
          /\ \A i \in 1 .. 4 : R[i] = xdma_device_offline[i]
          /\ \A i \in 1 .. Len(Q) : R[4 + i] = Q[i]
      BY <1>1
    <2> HIDE DEF Q, R
    <2>3. \A i \in 1 .. 4 : R[4 + i] = Q[i]
      BY <2>1, <2>2
    <2>4. R[4 + 1] = Q[1] /\ R[4 + 2] = Q[2] /\ R[4 + 3] = Q[3] /\ R[4 + 4] = Q[4]
      BY <2>3
    <2>5. 4 + 1 = 5 /\ 4 + 2 = 6 /\ 4 + 3 = 7 /\ 4 + 4 = 8
      OBVIOUS
    <2>6. /\ Len(R) = 8 /\ R[5] = "start_engines" /\ R[6] = "irq_setup_again"
          /\ R[7] = "interrupts_enable" /\ R[8] = "clear_offline"
      BY <2>1, <2>2, <2>4, <2>5
    <2>7. R[1] = "set_offline" /\ R[2] = "stop_engines" /\ R[3] = "interrupts_disable" /\ R[4] = "irq_teardown"
      BY <2>2, OfflineIs
    <2> QED BY <1>1, <1>3, <2>6, <2>7 DEF R
  <1> QED BY <1>2, <1>3

\* xdma_device_offline and xdma_device_online, or the latter by itself.
LEMMA ResetRow ==
    ASSUME NEW s, NEW p \in BOOLEAN, NEW k \in 1 .. 8, On(s, Reset(p), k)
    PROVE  /\ s \in Seq(Steps) /\ s # <<>>
           /\ CycleStep(s, First(Tail(s)), {}) \/ OnlineStep(s, First(Tail(s)), p)
           /\ Tail(s) = <<>> \/ Cycle(Tail(s), p)
           /\ \A x \in {"free_xdev", "aer_disable"} : ~Among(x, s)
  <1> DEFINE P == Reset(p)
             m == IF p THEN 6 ELSE 8
             t == Tail(s)
  <1>1. P \in Seq(Steps) /\ k \in Nat
    BY ResetItems
  <1>2. /\ s \in Seq(Steps) /\ s # <<>> /\ Head(s) = P[k]
        /\ k < Len(P) => On(t, P, k + 1) /\ t # <<>> /\ Head(t) = P[k + 1]
        /\ k = Len(P) => t = <<>>
        /\ \A x \in Steps : Among(x, s) <=> \E j \in k .. Len(P) : P[j] = x
    <2> HIDE DEF P
    <2> QED BY <1>1, OnStep DEF P
  <1>3. Len(P) = m /\ k \in 1 .. m /\ (k < m => k + 1 \in 1 .. 8 /\ k + 1 \in Nat)
    <2>1. Len(P) = m
      BY ResetItems
    <2>2. k \in 1 .. Len(P)
      BY DEF On
    <2>3. m \in 1 .. 8
      OBVIOUS
    <2> HIDE DEF P, m
    <2> QED BY <2>1, <2>2, <2>3
  <1>4. k < m => On(t, P, k + 1) /\ t # <<>> /\ Head(t) = P[k + 1] /\ k + 1 \in 1 .. 8
    <2> HIDE DEF P, m, t
    <2> QED BY <1>2, <1>3
  <1>14. k < m => Cycle(t, p)
    <2> HIDE DEF m, t
    <2> QED BY <1>4 DEF Cycle
  <1>5. k = m => First(t) = ""
    <2> HIDE DEF P, m, t
    <2> QED BY <1>2, <1>3 DEF First
  <1>6. k < m => First(t) = P[k + 1]
    <2> HIDE DEF P, m, t
    <2> QED BY <1>4 DEF First
  <1>7. /\ k = 1 => Head(s) = "set_offline" /\ P[k + 1] = "stop_engines"
        /\ k = 2 => Head(s) = "stop_engines" /\ P[k + 1] = "interrupts_disable"
        /\ k = 3 => Head(s) = "interrupts_disable" /\ P[k + 1] = "irq_teardown"
        /\ k = 4 => Head(s) = "irq_teardown" /\ P[k + 1] = "start_engines"
        /\ k = 5 => /\ Head(s) = "start_engines"
                    /\ P[k + 1] = IF p THEN "clear_offline" ELSE "irq_setup_again"
        /\ k = 6 /\ p => Head(s) = "clear_offline"
        /\ k = 6 /\ ~p => Head(s) = "irq_setup_again" /\ P[k + 1] = "interrupts_enable"
        /\ k = 7 /\ ~p => Head(s) = "interrupts_enable" /\ P[k + 1] = "clear_offline"
        /\ k = 8 /\ ~p => Head(s) = "clear_offline"
    BY <1>2, ResetItems, SMTT(30)
  <1>8. {"free_xdev", "aer_disable", "irq_setup_again"} \subseteq Steps
    BY StepNames
  <1>9. ASSUME NEW j \in 1 .. m
        PROVE  P[j] \notin {"free_xdev", "aer_disable"} /\ (j > 6 => P[j] # "irq_setup_again")
    BY <1>9, ResetItems
  <1>10. \A x \in {"free_xdev", "aer_disable"} : ~Among(x, s)
    <2> HIDE DEF P, m
    <2> QED BY <1>2, <1>3, <1>8, <1>9
  <1>11. k = 6 /\ ~p => ~Among("irq_setup_again", t) /\ ~Among("aer_disable", t)
    <2> SUFFICES ASSUME k = 6, ~p
                 PROVE  ~Among("irq_setup_again", t) /\ ~Among("aer_disable", t)
      OBVIOUS
    <2> DEFINE i == k + 1
    <2>0. m = 8 /\ k < m
      OBVIOUS
    <2>1. i \in Nat /\ On(t, P, i) /\ i = 7
      <3> HIDE DEF P, m, t
      <3> QED BY <1>4, <2>0
    <2> HIDE DEF i, P, t
    <2>2. \A x \in Steps : Among(x, t) <=> \E j \in i .. Len(P) : P[j] = x
      BY <1>1, <2>1, OnStep
    <2>3. Len(P) = 8 /\ m = 8
      BY <1>3, <2>0
    <2>4. \A j \in i .. 8 : P[j] \notin {"aer_disable", "irq_setup_again"}
      BY <1>9, <2>1, <2>3
    <2> QED BY <1>8, <2>2, <2>3, <2>4
  <1>12. CASE k = m
    <2>1. p => k = 6
      BY <1>12
    <2>2. ~p => k = 8
      BY <1>12
    <2>3. OnlineStep(s, First(t), p)
      <3> HIDE DEF P, m, t
      <3> QED BY <1>5, <1>7, <1>12, <2>1, <2>2 DEF OnlineStep
    <2>4. t = <<>>
      <3> HIDE DEF P, m, t
      <3> QED BY <1>2, <1>3, <1>12
    <2> QED BY <1>2, <1>10, <2>3, <2>4
  <1>13. CASE k < m
    <2>1. k \in 1 .. 4 \/ k = 5 \/ (k = 6 /\ ~p) \/ (k = 7 /\ ~p)
      <3>1. CASE p
        <4>1. k < 6
          BY <1>13, <3>1
        <4> QED BY <4>1
      <3>2. CASE ~p
        <4>1. k < 8
          BY <1>13, <3>2
        <4> QED BY <3>2, <4>1
      <3> QED BY <3>1, <3>2
    <2>2. CycleStep(s, First(t), {}) \/ OnlineStep(s, First(t), p)
      <3>1. CASE k \in 1 .. 4
        <4> HIDE DEF P, m, t
        <4>1. First(t) = P[k + 1]
          BY <1>6, <1>13
        <4>2. \/ Head(s) = "set_offline" /\ P[k + 1] = "stop_engines"
              \/ Head(s) = "stop_engines" /\ P[k + 1] = "interrupts_disable"
              \/ Head(s) = "interrupts_disable" /\ P[k + 1] = "irq_teardown"
              \/ Head(s) = "irq_teardown" /\ P[k + 1] = "start_engines"
          BY <1>7, <3>1
        <4> QED BY <4>1, <4>2 DEF CycleStep
      <3>2. CASE k = 5
        <4> HIDE DEF P, m, t
        <4> QED BY <1>6, <1>7, <1>13, <3>2 DEF OnlineStep
      <3>3. CASE k = 6 /\ ~p
        <4>1. /\ Head(s) = "irq_setup_again" /\ First(t) = "interrupts_enable"
              /\ ~Among("irq_setup_again", t) /\ ~Among("aer_disable", t)
          <5> HIDE DEF P, m, t
          <5> QED BY <1>6, <1>7, <1>11, <1>13, <3>3
        <4> QED BY <3>3, <4>1 DEF OnlineStep
      <3>4. CASE k = 7 /\ ~p
        <4> HIDE DEF P, m, t
        <4> QED BY <1>6, <1>7, <1>13, <3>4 DEF OnlineStep
      <3> QED BY <2>1, <3>1, <3>2, <3>3, <3>4
    <2> QED BY <1>2, <1>10, <1>13, <1>14, <2>2
  <1> QED BY <1>3, <1>12, <1>13

\* A step is among those to take if it is the first or among the others.
LEMMA AmongTail ==
    ASSUME NEW s \in Seq(Steps), s # <<>>, NEW x
    PROVE  Among(x, s) <=> Head(s) = x \/ Among(x, Tail(s))
  <1>1. /\ Len(s) \in Nat \ {0} /\ DOMAIN s = 1 .. Len(s) /\ Head(s) = s[1]
        /\ Tail(s) \in Seq(Steps) /\ Len(Tail(s)) = Len(s) - 1
        /\ \A i \in 1 .. Len(s) - 1 : Tail(s)[i] = s[i + 1]
    BY LenProperties, HeadTailProperties, EmptySeq
  <1>2. DOMAIN Tail(s) = 1 .. Len(s) - 1
    BY <1>1, LenProperties
  <1>3. ASSUME NEW i \in DOMAIN s, s[i] = x PROVE Head(s) = x \/ Among(x, Tail(s))
    <2>1. CASE i = 1
      BY <1>1, <1>3, <2>1
    <2>2. CASE i # 1
      <3>1. i - 1 \in 1 .. Len(s) - 1 /\ (i - 1) + 1 = i
        BY <1>1, <2>2
      <3>2. i - 1 \in DOMAIN Tail(s) /\ Tail(s)[i - 1] = x
        BY <1>1, <1>2, <1>3, <3>1
      <3> QED BY <3>2 DEF Among
    <2> QED BY <2>1, <2>2
  <1>4. ASSUME Head(s) = x PROVE Among(x, s)
    <2>1. 1 \in DOMAIN s /\ s[1] = x
      BY <1>1, <1>4
    <2> QED BY <2>1 DEF Among
  <1>5. ASSUME NEW i \in DOMAIN Tail(s), Tail(s)[i] = x PROVE Among(x, s)
    <2>1. i + 1 \in DOMAIN s /\ s[i + 1] = x
      BY <1>1, <1>2, <1>5
    <2> QED BY <2>1 DEF Among
  <1> QED BY <1>3, <1>4, <1>5 DEF Among

\* Any step of the two.
LEMMA CycleRow ==
    ASSUME NEW s, NEW p \in BOOLEAN, Cycle(s, p)
    PROVE  /\ s \in Seq(Steps) /\ s # <<>>
           /\ CycleStep(s, First(Tail(s)), {}) \/ OnlineStep(s, First(Tail(s)), p)
           /\ Tail(s) = <<>> \/ Cycle(Tail(s), p)
           /\ \A x \in {"free_xdev", "aer_disable"} : ~Among(x, s)
  <1>1. CASE \E k \in 1 .. 4 : On(s, xdma_device_offline, k)
    BY <1>1, OfflineRow
  <1>2. CASE \E k \in 1 .. 8 : On(s, Reset(p), k)
    BY <1>2, ResetRow
  <1> QED BY <1>1, <1>2 DEF Cycle

\* Error recovery; slot_reset goes on with xdma_device_online or gives up.
LEMMA RecoveryRow ==
    ASSUME NEW s, Recovery(s)
    PROVE  /\ s \in Seq(Steps) /\ s # <<>>
           /\ \A x \in {"free_xdev", "irq_setup_again"} : ~Among(x, s)
           /\ \/ Head(s) = "slot_reset" /\ Tail(s) = <<>> /\ ~Among("aer_disable", s)
              \/ Head(s) = "aer_disable" /\ Tail(s) = <<>> /\ Among("aer_disable", s)
              \/ /\ CycleStep(s, First(Tail(s)), {"aer_disable"}) /\ Recovery(Tail(s))
                 /\ Head(s) \in {"set_offline", "stop_engines", "interrupts_disable",
                                 "irq_teardown"}
                 /\ First(Tail(s)) # "start_engines"
                 /\ Among("aer_disable", s) /\ Among("aer_disable", Tail(s))
  <1>1. CASE s = <<"slot_reset">>
    <2>1. s \in Seq(Steps)
      BY <1>1, StepNames
    <2>2. s # <<>> /\ Head(s) = "slot_reset" /\ Tail(s) = <<>>
      BY <1>1
    <2>3. \A x : ~Among(x, <<>>)
      BY DEF Among
    <2>4. \A x : Among(x, s) <=> Head(s) = x \/ Among(x, Tail(s))
      BY <2>1, <2>2, AmongTail
    <2> QED BY <2>1, <2>2, <2>3, <2>4
  <1>2. ASSUME NEW k \in 1 .. 5, On(s, Frozen, k)
        PROVE  /\ s \in Seq(Steps) /\ s # <<>>
               /\ \A x \in {"free_xdev", "irq_setup_again"} : ~Among(x, s)
               /\ \/ Head(s) = "aer_disable" /\ Tail(s) = <<>> /\ Among("aer_disable", s)
                  \/ /\ CycleStep(s, First(Tail(s)), {"aer_disable"}) /\ Recovery(Tail(s))
                     /\ Head(s) \in {"set_offline", "stop_engines", "interrupts_disable",
                                     "irq_teardown"}
                     /\ First(Tail(s)) # "start_engines"
                     /\ Among("aer_disable", s) /\ Among("aer_disable", Tail(s))
    <2>0. /\ Frozen[1] = "set_offline" /\ Frozen[2] = "stop_engines"
          /\ Frozen[3] = "interrupts_disable" /\ Frozen[4] = "irq_teardown"
          /\ Frozen[5] = "aer_disable"
      BY FrozenIs, OfflineIs
    <2>1. Frozen \in Seq(Steps) /\ k \in Nat
      BY FrozenIs
    <2>2. /\ s \in Seq(Steps) /\ s # <<>> /\ Head(s) = Frozen[k]
          /\ k < Len(Frozen) => /\ On(Tail(s), Frozen, k + 1)
                                /\ Tail(s) # <<>> /\ Head(Tail(s)) = Frozen[k + 1]
          /\ k = Len(Frozen) => Tail(s) = <<>>
          /\ \A x \in Steps : Among(x, s) <=> \E j \in k .. Len(Frozen) : Frozen[j] = x
      BY <1>2, <2>1, OnStep
    <2>3. Len(Frozen) = 5 /\ (k < 5 => k + 1 \in 1 .. 5)
      BY FrozenIs
    <2>4. {"free_xdev", "aer_disable", "irq_setup_again"} \subseteq Steps
      BY StepNames
    <2>5. /\ \A j \in k .. 5 : Frozen[j] \notin {"free_xdev", "irq_setup_again"}
          /\ 5 \in k .. 5 /\ Frozen[5] = "aer_disable"
      BY <2>0
    <2>6. /\ \A x \in {"free_xdev", "irq_setup_again"} : ~Among(x, s)
          /\ Among("aer_disable", s)
      BY <2>2, <2>3, <2>4, <2>5
    <2>7. CASE k = 5
      <3>1. Head(s) = "aer_disable" /\ Tail(s) = <<>>
        BY <2>2, <2>3, <2>7, FrozenIs
      <3> QED BY <2>2, <2>6, <3>1
    <2>8. CASE k < 5
      <3>1. First(Tail(s)) = Frozen[k + 1]
        BY <2>2, <2>3, <2>8 DEF First
      <3>2. /\ k = 1 => Frozen[k + 1] = "stop_engines"
            /\ k = 2 => Frozen[k + 1] = "interrupts_disable"
            /\ k = 3 => Frozen[k + 1] = "irq_teardown"
            /\ k = 4 => Frozen[k + 1] = "aer_disable"
        BY <2>0
      <3>3. /\ k = 1 => Head(s) = "set_offline"
            /\ k = 2 => Head(s) = "stop_engines"
            /\ k = 3 => Head(s) = "interrupts_disable"
            /\ k = 4 => Head(s) = "irq_teardown"
        BY <2>0, <2>2
      <3>4. k = 1 \/ k = 2 \/ k = 3 \/ k = 4
        BY <2>8
      <3>5. /\ CycleStep(s, First(Tail(s)), {"aer_disable"})
            /\ Head(s) \in {"set_offline", "stop_engines", "interrupts_disable",
                            "irq_teardown"}
            /\ First(Tail(s)) # "start_engines" /\ Head(s) # "aer_disable"
        BY <3>1, <3>2, <3>3, <3>4 DEF CycleStep
      <3>6. Recovery(Tail(s))
        BY <2>2, <2>3, <2>8 DEF Recovery
      <3>7. Among("aer_disable", Tail(s))
        BY <2>2, <2>6, <3>5, AmongTail
      <3> QED BY <2>2, <2>6, <3>5, <3>6, <3>7
    <2> QED BY <2>7, <2>8
  <1> QED BY <1>1, <1>2 DEF Recovery

-----------------------------------------------------------------------------
(* What a step changes *)

\* Actor a goes on with the steps s; the other actor stays where it is.
Moves(a, s) ==
    /\ todo'[a] = s
    /\ \A b \in Actors \ {a} : todo'[b] = todo[b]

\* What Succeed changes.
LEMMA SucceedStep ==
    ASSUME Typed, NEW a \in Actors, ~Idle(a), NEW d, d \in Devices, Succeed(a, d)
    PROVE  /\ Typed' /\ dev' = d /\ Moves(a, Tail(todo[a])) /\ seen' = seen
           /\ poll_mode' = poll_mode /\ aer' = aer /\ probes' = probes /\ resets' = resets
  <1>1. todo \in [Actors -> Seq(Steps)] /\ todo[a] \in Seq(Steps) /\ todo[a] # <<>>
    BY DEF Typed, Idle
  <1>2. Tail(todo[a]) \in Seq(Steps)
    BY <1>1, HeadTailProperties
  <1>3. todo' = [todo EXCEPT ![a] = Tail(@)]
    BY DEF Succeed
  <1>4. todo' \in [Actors -> Seq(Steps)] /\ Moves(a, Tail(todo[a]))
    BY <1>1, <1>2, <1>3 DEF Moves
  <1> QED BY <1>4 DEF Succeed, rest, user, Typed

\* What Fail changes.
LEMMA FailStep ==
    ASSUME Typed, NEW a \in Actors, ~Idle(a), NEW d, d \in Devices,
           NEW s, s \in Seq(Steps), Fail(a, d, s)
    PROVE  /\ Typed' /\ dev' = d /\ Moves(a, s) /\ seen' = seen \cup {Head(todo[a])}
           /\ poll_mode' = poll_mode /\ aer' = aer /\ probes' = probes /\ resets' = resets
  <1>1. todo \in [Actors -> Seq(Steps)] /\ todo[a] \in Seq(Steps) /\ todo[a] # <<>>
    BY DEF Typed, Idle
  <1>2. Head(todo[a]) \in Steps
    BY <1>1, HeadTailProperties
  <1>3. todo' \in [Actors -> Seq(Steps)] /\ Moves(a, s)
    BY <1>1 DEF Fail, Moves
  <1> QED BY <1>2, <1>3 DEF Fail, rest, user, Typed

SameOwned == /\ dev'.xpdev = dev.xpdev /\ dev'.xdev = dev.xdev /\ dev'.listed = dev.listed
             /\ dev'.bars = dev.bars /\ dev'.regions = dev.regions /\ dev'.bound = dev.bound
             /\ dev'.flags = dev.flags
SameEngines == /\ dev'.h2c = dev.h2c /\ dev'.c2h = dev.c2h /\ dev'.msix = dev.msix
               /\ dev'.work = dev.work
SameIrq == dev'.irq = dev.irq /\ dev'.lines = dev.lines
SameCycle == /\ dev'.offline = dev.offline /\ dev'.shutdown = dev.shutdown
             /\ dev'.unmasked = dev.unmasked /\ (dev'.work => dev.work)
SameNodes == /\ dev'.nodes = dev.nodes /\ dev'.flags = dev.flags
             /\ dev'.chrdev = dev.chrdev /\ dev'.major = dev.major
SameCounts == dev'.enabled = dev.enabled /\ dev'.threads = dev.threads

-----------------------------------------------------------------------------
(* Steps outside of taking the device offline and online *)

\* Outside of such a procedure the core has none of its steps to take, but
\* disables the interrupts and removes the handlers of a device it closes.
LEMMA Away ==
    ASSUME NEW s, NEW n, NEW c \in Phases, NEW p, Where(s, n, c, p), c # "cycle"
    PROVE  /\ s \in Seq(Steps) /\ (s = <<>> <=> c = "idle")
           /\ s # <<>> =>
                 /\ Head(s) \notin Upward \cup {"set_offline", "stop_engines",
                                   "start_engines", "aer_disable", "slot_reset"}
                 /\ Head(s) = "irq_teardown" => c = "release" /\ n = 11
                 /\ Head(s) = "interrupts_disable" => c \in {"open", "release"}
           /\ ~Among("irq_setup_again", s) /\ ~Among("aer_disable", s)
           /\ Among("free_xdev", s) <=> (c = "remove" \/ (c = "release" /\ n >= 2))
  <1>1. CASE c = "idle"
    <2>1. s = <<>>
      BY <1>1 DEF Where
    <2> QED BY <1>1, <2>1 DEF Among
  <1>2. CASE c = "load"
    <2>1. /\ s \in Seq(Steps) /\ s # <<>>
          /\ Head(s) \in {"class_create", "cache_create", "register_driver"}
          /\ \A x \in {"free_xdev", "irq_setup_again", "aer_disable"} : ~Among(x, s)
      BY <1>2, LoadRow
    <2> QED BY <1>2, <2>1 DEF Upward
  <1>3. CASE c = "open"
    <2>1. Where(s, n, "open", p)
      BY <1>3
    <2>2. /\ s \in Seq(Steps) /\ s # <<>>
          /\ \A x \in {"free_xdev", "irq_setup_again", "aer_disable"} : ~Among(x, s)
      BY <2>1, OpenRow
    <2>3. Head(s) \in {"xpdev_alloc", "alloc_dev_instance", "xdev_list_add",
                       "pci_enable_device", "request_regions", "map_bars", "set_dma_mask",
                       "interrupts_disable", "probe_engines", "enable_msi_msix", "irq_setup",
                       "open_done", "user_isr_enable"}
      BY <2>1, OpenRow
    <2> QED BY <1>3, <2>2, <2>3 DEF Upward
  <1>4. CASE c = "create"
    <2>1. /\ s \in Seq(Steps) /\ s # <<>> /\ Head(s) \in Groups \cup {"set_drvdata"}
          /\ \A x \in {"free_xdev", "irq_setup_again", "aer_disable"} : ~Among(x, s)
      BY <1>4, CreateRow
    <2> QED BY <1>4, <2>1 DEF Upward, Groups
  <1>5. CASE c = "remove"
    <2>1. /\ s \in Seq(Steps) /\ s # <<>> /\ Head(s) = "destroy_interfaces" /\ n = 13
          /\ Releases(s, n)
      BY <1>5, RemoveRow
    <2>2. Among("free_xdev", s)
      BY <2>1 DEF Releases
    <2> QED BY <1>5, <2>1, <2>2 DEF Upward, Releases
  <1>6. CASE c = "release"
    <2>1. s \in Seq(Steps) /\ s # <<>> /\ ReleaseStep(s, n, p) /\ Releases(s, n)
      BY <1>6, ReleaseRow
    <2>2. /\ Head(s) \in {"interrupts_disable", "irq_teardown", "disable_msi_msix",
                          "remove_engines", "unmap_bars", "release_regions",
                          "disable_device", "xdev_list_remove", "free_xdev",
                          "destroy_interfaces", "free_xpdev"}
          /\ Head(s) = "irq_teardown" => n = 11
      BY <2>1 DEF ReleaseStep
    <2> QED BY <1>6, <2>1, <2>2 DEF Upward, Releases
  <1>7. CASE c = "exit"
    <2>1. s = <<"cdev_cleanup">>
      BY <1>7 DEF Where
    <2>2. s \in Seq(Steps)
      BY <2>1, StepNames
    <2>3. s # <<>> /\ Head(s) = "cdev_cleanup" /\ Tail(s) = <<>>
      BY <2>1
    <2>4. \A x : Among(x, s) <=> Head(s) = x \/ Among(x, Tail(s))
      BY <2>2, <2>3, AmongTail
    <2>5. \A x : ~Among(x, <<>>)
      BY DEF Among
    <2>6. \A x \in {"irq_setup_again", "aer_disable", "free_xdev"} : ~Among(x, s)
      BY <2>3, <2>4, <2>5
    <2> QED BY <1>7, <2>2, <2>3, <2>6 DEF Upward
  <1> QED BY <1>1, <1>2, <1>3, <1>4, <1>5, <1>6, <1>7 DEF Phases

\* No interrupt is enabled, and no bottom half scheduled.
StillMasked ==
    /\ dev'.work => dev.work
    /\ dev'.unmasked = dev.unmasked \/ (dev'.unmasked = {} /\ ~dev'.work)

\* Below level 11 no handler belongs to the device, and its interrupts are
\* disabled: the parts of the invariant about them depend on little.
LEMMA LowFrame ==
    ASSUME Typed, Typed', NEW n \in 0 .. 10, NEW c \in Phases, Inv(n, c),
           NEW m \in 0 .. 10, NEW e \in Phases,
           Where(todo'["core"], m, e, poll_mode'), Ioctls(m, e)',
           aer' = "frozen" => aer = "frozen", resets' = resets, seen \subseteq seen',
           dev'.irq = dev.irq, StillMasked, Held(m, e)',
           e = "open" => m < 8 \/ (dev'.unmasked = {} /\ ~dev'.work),
           \/ todo'["ioctl"] = <<>>
           \/ todo'["ioctl"] = todo["ioctl"] /\ dev'.offline = dev.offline,
           m < 2 \/ e = "open" => ~dev'.shutdown
    PROVE  Handled(m, e)' /\ Counted(m, e)' /\ Cycled(m, e)'
  <1> DEFINE s == todo'["core"]
             i == todo'["ioctl"]
  <1>1. c # "cycle" /\ e # "cycle"
    BY DEF Inv, Where
  <1>2. /\ s # <<>> => Head(s) \notin Upward
        /\ ~Among("irq_setup_again", s) /\ ~Among("aer_disable", s)
        /\ s = <<>> <=> e = "idle"
    BY <1>1, Away
  <1>3. "overlap" \notin seen' => i = <<>>
    BY <1>2 DEF Ioctls
  <1>4. Handled(m, e)'
    <2>1. \A l \in Lines \ {Shared} :
             /\ dev'.irq[l] <= 1
             /\ dev'.irq[l] > 0 => seen' \cap {"irq_setup", "into_close"} # {}
      BY DEF Inv, Handled
    <2>2. ASSUME seen' \cap {"online_again", "overlap"} = {}
          PROVE  /\ dev'.irq[Shared] <= 1 /\ ~(dev'.irq[Shared] > 0)
                 /\ \A a \in Actors : AtAny(a, Upward)' => dev'.offline
      <3>1. dev'.irq[Shared] <= 1 /\ ~(dev'.irq[Shared] > 0)
        BY <2>2 DEF Inv, Handled
      <3>2. i = <<>>
        BY <1>3, <2>2
      <3>3. ~AtAny("core", Upward)' /\ ~AtAny("ioctl", Upward)'
        BY <1>2, <3>2 DEF AtAny, Idle
      <3> QED BY <3>1, <3>3 DEF Actors
    <2> QED BY <2>1, <2>2 DEF Handled
  <1>5. Counted(m, e)'
    <2>1. dev.irq[Shared] + One(Among("irq_setup_again", todo["ioctl"])) + One(aer = "frozen")
            <= resets
      <3>1. One(n >= 11 /\ dev.msix # "msix") = 0
        BY DEF One
      <3>2. ~Among("irq_setup_again", todo["core"]) /\ ~Among("aer_disable", todo["core"])
        BY <1>1, Away DEF Inv
      <3>3. One(aer = "frozen" \/ Among("irq_setup_again", todo["core"])
                  \/ Among("aer_disable", todo["core"])) = One(aer = "frozen")
        BY <3>2 DEF One
      <3>4. Shared \in Lines
        BY DEF Shared, Lines
      <3>5. /\ dev.irq[Shared] \in Nat /\ resets \in Nat
            /\ One(Among("irq_setup_again", todo["ioctl"])) \in Nat /\ One(aer = "frozen") \in Nat
        BY <3>4 DEF Typed, Devices, One
      <3> QED BY <3>1, <3>3, <3>5 DEF Inv, Counted
    <2>2. One(Among("irq_setup_again", i)) <= One(Among("irq_setup_again", todo["ioctl"]))
      <3>1. ~Among("irq_setup_again", <<>>)
        BY DEF Among
      <3> QED BY <3>1 DEF One
    <2>3. One(aer' = "frozen" \/ Among("irq_setup_again", s) \/ Among("aer_disable", s))
            <= One(aer = "frozen")
      BY <1>2 DEF One
    <2>4. One((m >= 11 /\ dev.msix # "msix")') = 0
      BY DEF One
    <2>5. dev'.irq[Shared] \in Nat /\ resets' \in Nat
      BY DEF Typed, Devices, Shared, Lines
    <2> QED BY <2>1, <2>2, <2>3, <2>4, <2>5 DEF Counted, One
  <1>6. Cycled(m, e)'
    <2>1. /\ "overlap" \notin seen' => Unmasked' = {}
          /\ e = "open" /\ m \in 8 .. 11 => dev'.unmasked = {}
      <3>1. Unmasked' \subseteq Unmasked
        BY DEF Unmasked, StillMasked
      <3> QED BY <3>1 DEF Inv, Cycled
    <2>4. dev'.work => "channel" \in dev'.unmasked \/ (e # "open" /\ "late_work" \in seen')
      <3>1. SUFFICES ASSUME dev'.work
                     PROVE  "channel" \in dev'.unmasked \/ (e # "open" /\ "late_work" \in seen')
        OBVIOUS
      <3>2. m >= 9 /\ e # "open" /\ dev.work /\ dev'.unmasked = dev.unmasked
        BY <3>1 DEF Held, StillMasked
      <3>3. "channel" \in dev.unmasked \/ "late_work" \in seen
        BY <3>2 DEF Inv, Cycled
      <3> QED BY <3>2, <3>3
    <2>2. ASSUME Calm' PROVE ~AtAny("core", Upward)' /\ i = <<>>
      BY <1>2, <1>3, <2>2 DEF Calm, AtAny, Idle
    <2>3. ASSUME Calm', NEW a \in Actors
          PROVE  /\ ~AtAny(a, Upward)' /\ ~At(a, "interrupts_enable")'
                 /\ ~At(a, "clear_offline")' /\ (e = "idle" => ~AtAny(a, Downward)')
      <3>1. CASE a = "core"
        BY <1>2, <2>2, <2>3, <3>1 DEF At, AtAny, Idle, Upward
      <3>2. CASE a = "ioctl"
        BY <2>2, <2>3, <3>2 DEF At, AtAny, Idle
      <3> QED BY <3>1, <3>2 DEF Actors
    <2>5. Calm' => Unmasked' = {}
      BY <2>1 DEF Calm
    <2> QED BY <1>1, <2>1, <2>3, <2>4, <2>5 DEF Cycled
  <1> QED BY <1>4, <1>5, <1>6

\* The step that the PCI core takes next, and where it is then.
Row(s, n, c, p) ==
    \/ /\ c = "load" /\ n = 0
       /\ Head(s) \in {"class_create", "cache_create", "register_driver"}
       /\ Where(Tail(s), 0, "load", p) \/ Tail(s) = <<>>
    \/ /\ c = "open" /\ n \in 0 .. 12
       /\ \/ n = 0 /\ Head(s) = "xpdev_alloc"
          \/ n = 1 /\ Head(s) = "alloc_dev_instance"
          \/ n = 2 /\ Head(s) = "xdev_list_add"
          \/ n = 3 /\ Head(s) = "pci_enable_device"
          \/ n = 4 /\ Head(s) = "request_regions"
          \/ n = 5 /\ Head(s) = "map_bars"
          \/ n = 6 /\ Head(s) = "set_dma_mask"
          \/ n = 7 /\ Head(s) = "interrupts_disable"
          \/ n = 8 /\ Head(s) = "probe_engines"
          \/ n = 9 /\ Head(s) = "enable_msi_msix"
          \/ n = 10 /\ Head(s) = "irq_setup"
          \/ n = 11 /\ Head(s) = "open_done"
          \/ n = 12 /\ Head(s) = "user_isr_enable"
       /\ n < 12 => Where(Tail(s), n + 1, "open", p)
       /\ n = 12 => Tail(s) = Rest(probe_one, 14)
    \/ /\ c = "create" /\ n = 13
       /\ \/ Head(s) \in Groups /\ Where(Tail(s), 13, "create", p)
          \/ Head(s) = "set_drvdata" /\ Tail(s) = <<>>
    \/ /\ c = "remove" /\ n = 13 /\ Head(s) = "destroy_interfaces"
       /\ Where(Tail(s), 13, "remove", p) \/ Where(Tail(s), 13, "release", p)
    \/ c = "release" /\ ReleaseStep(s, n, p)
    \/ c = "exit" /\ n = 0 /\ Head(s) = "cdev_cleanup" /\ Tail(s) = <<>>
    \/ /\ c = "cycle" /\ n = 13
       /\ Head(s) \in {"set_offline", "aer_disable", "slot_reset", "start_engines"}
                       \cup Downward \cup Upward
       /\ Tail(s) = <<>> \/ Where(Tail(s), 13, "cycle", p)

\* The step at which a busy core is, from its level and phase.
LEMMA Located ==
    ASSUME NEW s, NEW n \in 0 .. 13, NEW c \in Phases, NEW p \in BOOLEAN,
           Where(s, n, c, p), s # <<>>
    PROVE  s \in Seq(Steps) /\ Row(s, n, c, p)
  <1>1. CASE c = "idle"
    BY <1>1 DEF Where
  <1>2. CASE c = "load"
    <2>1. /\ s \in Seq(Steps) /\ n = 0
          /\ Head(s) \in {"class_create", "cache_create", "register_driver"}
          /\ Where(Tail(s), 0, "load", p) \/ Tail(s) = <<>>
      BY <1>2, LoadRow
    <2> QED BY <1>2, <2>1 DEF Row
  <1>3. CASE c = "open"
    <2>1. Where(s, n, "open", p)
      BY <1>3
    <2> QED BY <1>3, <2>1, OpenRow DEF Row
  <1>4. CASE c = "create"
    <2>1. Where(s, n, "create", p)
      BY <1>4
    <2> QED BY <1>4, <2>1, CreateRow DEF Row
  <1>5. CASE c = "remove"
    <2>1. Where(s, n, "remove", p)
      BY <1>5
    <2> QED BY <1>5, <2>1, RemoveRow DEF Row
  <1>6. CASE c = "release"
    <2>1. Where(s, n, "release", p)
      BY <1>6
    <2> QED BY <1>6, <2>1, ReleaseRow DEF Row
  <1>7. CASE c = "exit"
    <2>1. s = <<"cdev_cleanup">> /\ n = 0
      BY <1>7 DEF Where
    <2>2. s \in Seq(Steps)
      BY <2>1, StepNames
    <2> QED BY <1>7, <2>1, <2>2 DEF Row
  <1>8. CASE c = "cycle"
    <2>1. n = 13 /\ (Cycle(s, p) \/ Recovery(s))
      BY <1>8 DEF Where
    <2>2. CASE Cycle(s, p)
      <3>1. /\ s \in Seq(Steps)
            /\ CycleStep(s, First(Tail(s)), {}) \/ OnlineStep(s, First(Tail(s)), p)
            /\ Tail(s) = <<>> \/ Cycle(Tail(s), p)
        BY <2>2, CycleRow
      <3>2. Head(s) \in {"set_offline", "start_engines"} \cup Downward \cup Upward
        BY <3>1 DEF CycleStep, OnlineStep, Downward, Upward
      <3>3. Tail(s) = <<>> \/ Where(Tail(s), 13, "cycle", p)
        BY <3>1 DEF Where
      <3> QED BY <1>8, <2>1, <3>1, <3>2, <3>3 DEF Row
    <2>3. CASE Recovery(s)
      <3>1. /\ s \in Seq(Steps)
            /\ Head(s) \in {"set_offline", "aer_disable", "slot_reset"} \cup Downward
            /\ Tail(s) = <<>> \/ Recovery(Tail(s))
        BY <2>3, RecoveryRow DEF Downward
      <3>2. Tail(s) = <<>> \/ Where(Tail(s), 13, "cycle", p)
        BY <3>1 DEF Where
      <3> QED BY <1>8, <2>1, <3>1, <3>2 DEF Row
    <2> QED BY <2>1, <2>2, <2>3
  <1> QED BY <1>1, <1>2, <1>3, <1>4, <1>5, <1>6, <1>7, <1>8 DEF Phases

\* The nodes depend on the device only as long as they are there.
LEMMA NodesFrame ==
    ASSUME NEW n, NEW c, Nodes(n, c), NEW m, NEW e, SameNodes, seen \subseteq seen',
           Present(n, c) => Present(m, e),
           Present(n, c) => dev'.h2c = dev.h2c /\ dev'.c2h = dev.c2h
    PROVE  Nodes(m, e)'
  BY DEF Nodes, SameNodes, Present, Groups

\* The enable count depends on the level only where it passes 4.
LEMMA EnabledFrame ==
    ASSUME Typed, Typed', NEW n \in 0 .. 13, NEW c \in Phases, Enabled(n, c),
           NEW m \in 0 .. 13, NEW e \in Phases, Where(todo'["core"], m, e, poll_mode'),
           dev'.enabled = dev.enabled, aer' = aer, probes' = probes, seen \subseteq seen',
           n >= 4 <=> m >= 4, c # "cycle", e # "cycle",
           e = "open" => c = "open", e = "create" => c \in {"open", "create"},
           e \in {"remove", "release"} => c \in {"open", "create", "remove", "release"}
    PROVE  Enabled(m, e)'
  <1>1. ~At("core", "slot_reset")'
    BY Away DEF At, Idle
  <1>2. Base(m)' = Base(n) /\ Base(n) \in Int
    BY DEF Base, Typed, Devices
  <1>3. probes \in Nat
    BY DEF Typed
  <1> QED BY <1>1, <1>2, <1>3 DEF Enabled

\* Arithmetic about the threads of several probes.
LEMMA Product ==
    ASSUME NEW p \in Nat, NEW q \in Nat, p <= q
    PROVE  /\ NumThreads \in Nat /\ NumThreads > 0
           /\ (p - 1) * NumThreads + NumThreads = p * NumThreads
           /\ p * NumThreads <= q * NumThreads /\ p * NumThreads \in Nat
           /\ q * NumThreads \in Nat /\ (p - 1) * NumThreads \in Int
  <1>1. NumThreads \in Nat /\ NumThreads > 0
    BY DeviceAssumption DEF NumThreads
  <1> HIDE DEF NumThreads
  <1> QED BY <1>1

\* A step that leaves the threads alone keeps their bound.
LEMMA ThreadsFrame ==
    ASSUME Typed, Typed', NEW n \in 0 .. 13, NEW c, Threads(n, c), NEW m \in 0 .. 13, NEW e,
           dev'.threads = dev.threads, probes' = probes, poll_mode' = poll_mode,
           seen \subseteq seen', n >= 3 <=> m >= 3, e = "open" => c = "open"
    PROVE  Threads(m, e)'
  <1>1. Left(m)' = Left(n) /\ Left(n) \in Int
    BY DeviceAssumption DEF Left, Typed, Devices, NumThreads
  <1>2. probes \in Nat /\ probes <= probes
    BY DEF Typed
  <1>3. /\ NumThreads \in Nat /\ (probes - 1) * NumThreads + NumThreads = probes * NumThreads
        /\ probes * NumThreads \in Nat /\ (probes - 1) * NumThreads \in Int
    BY <1>2, Product
  <1>4. CASE m >= 3 \/ e = "open"
    BY <1>1, <1>4 DEF Threads
  <1>5. CASE ~(m >= 3 \/ e = "open")
    <2>1. Left(n) <= (probes - 1) * NumThreads \/ Left(n) <= probes * NumThreads
      BY DEF Threads
    <2>2. Left(n) <= probes * NumThreads
      BY <1>1, <1>3, <2>1
    <2> QED BY <1>1, <1>5, <2>2 DEF Threads
  <1> QED BY <1>4, <1>5

\* A step of xdma_device_open that fails goes on with the releases of the
\* level it has reached.
LEMMA Unwinding ==
    ASSUME NEW p
    PROVE  /\ Where(xpdev_free_unopened, 1, "release", p)
           /\ Where(From("free_xdev") \o xpdev_free_unopened, 2, "release", p)
           /\ Where(From("xdev_list_remove") \o xpdev_free_unopened, 3, "release", p)
           /\ Where(From("disable_device") \o xpdev_free_unopened, 4, "release", p)
           /\ Where(From("release_regions") \o xpdev_free_unopened, 5, "release", p)
           /\ Where(From("unmap_bars") \o xpdev_free_unopened, 6, "release", p)
           /\ Where(From("remove_engines") \o xpdev_free_unopened, 9, "release", p)
           /\ Where(From("disable_msi_msix") \o xpdev_free_unopened, 10, "release", p)
  <1>1. /\ UnopenedLevel[1] = 10 /\ UnopenedLevel[2] = 9 /\ UnopenedLevel[3] = 6
        /\ UnopenedLevel[4] = 5 /\ UnopenedLevel[5] = 4 /\ UnopenedLevel[6] = 3
        /\ UnopenedLevel[7] = 2 /\ UnopenedLevel[8] = 1
    BY DEF UnopenedLevel
  <1>2. /\ Labels \in Seq(Steps) /\ xpdev_free_unopened \in Seq(Steps) /\ Len(Labels) = 7
        /\ Len(Unopened) = 9
    BY LabelsAre, UnopenedFreeIs, UnopenedIs
  <1>7. ASSUME NEW j \in 1 .. Len(Labels) + 1
        PROVE  Rest(Labels, j) \o xpdev_free_unopened = Rest(Labels \o xpdev_free_unopened, j)
    <2> DEFINE P == Labels
               Q == xpdev_free_unopened
    <2>1. P \in Seq(Steps) /\ Q \in Seq(Steps) /\ j \in 1 .. Len(P) + 1
      BY <1>2
    <2> HIDE DEF P, Q
    <2>2. Rest(P, j) \o Q = Rest(P \o Q, j)
      BY <2>1, ConcatSteps
    <2> QED BY <2>2 DEF P, Q
  <1>3. ASSUME NEW k \in 1 .. 7
        PROVE  Where(From(Labels[k]) \o xpdev_free_unopened, UnopenedLevel[k], "release", p)
    <2>1. From(Labels[k]) = Rest(Labels, k)
      BY FromIs
    <2>2. k \in 1 .. Len(Labels) + 1 /\ k \in 1 .. 9
      BY <1>2
    <2>3. Rest(Labels, k) \o xpdev_free_unopened = Rest(Labels \o xpdev_free_unopened, k)
      BY <2>2, <1>7
    <2>4. On(From(Labels[k]) \o xpdev_free_unopened, Unopened, k)
      BY <1>2, <2>1, <2>2, <2>3 DEF On, Unopened
    <2> QED BY <2>2, <2>4 DEF Where
  <1>4. Where(xpdev_free_unopened, 1, "release", p)
    <2>1. Len(Labels) + 1 \in 1 .. Len(Labels) + 1
      BY <1>2
    <2>2. Rest(Labels \o xpdev_free_unopened, Len(Labels) + 1) = xpdev_free_unopened
      BY <1>2, <2>1, ConcatSteps
    <2>3. Len(Labels) + 1 = 8
      BY <1>2
    <2>4. On(xpdev_free_unopened, Unopened, 8)
      BY <1>2, <2>2, <2>3 DEF On, Unopened
    <2> QED BY <1>1, <2>4 DEF Where
  <1>5. /\ Where(From(Labels[7]) \o xpdev_free_unopened, 2, "release", p)
        /\ Where(From(Labels[6]) \o xpdev_free_unopened, 3, "release", p)
        /\ Where(From(Labels[5]) \o xpdev_free_unopened, 4, "release", p)
        /\ Where(From(Labels[4]) \o xpdev_free_unopened, 5, "release", p)
        /\ Where(From(Labels[3]) \o xpdev_free_unopened, 6, "release", p)
        /\ Where(From(Labels[2]) \o xpdev_free_unopened, 9, "release", p)
        /\ Where(From(Labels[1]) \o xpdev_free_unopened, 10, "release", p)
    <2> HIDE DEF Where, From, UnopenedLevel
    <2> QED BY <1>1, <1>3
  <1>6. /\ Labels[1] = "disable_msi_msix" /\ Labels[2] = "remove_engines"
        /\ Labels[3] = "unmap_bars" /\ Labels[4] = "release_regions"
        /\ Labels[5] = "disable_device" /\ Labels[6] = "xdev_list_remove"
        /\ Labels[7] = "free_xdev"
    BY LabelsAre
  <1> QED BY <1>4, <1>5, <1>6

\* A step below level 11, from what it leaves of the device and its counters.
LEMMA LowStep ==
    ASSUME Typed, Typed', NEW n \in 0 .. 10, NEW c \in Phases, Inv(n, c),
           NEW m \in 0 .. 10, NEW e \in Phases,
           Where(todo'["core"], m, e, poll_mode'),
           aer' = "frozen" => aer = "frozen", resets' = resets, seen \subseteq seen',
           dev'.irq = dev.irq, StillMasked,
           e = "open" => m < 8 \/ (dev'.unmasked = {} /\ ~dev'.work),
           \/ todo'["ioctl"] = <<>>
           \/ /\ todo'["ioctl"] = todo["ioctl"] /\ dev'.offline = dev.offline
              /\ poll_mode' = poll_mode /\ c = "release" /\ e = "release" /\ m >= 2,
           m < 2 \/ e = "open" => ~dev'.shutdown,
           Held(m, e)', Enabled(m, e)', Threads(m, e)', Nodes(m, e)'
    PROVE  IInv'
  <1>1. Ioctls(m, e)'
    <2>1. CASE todo'["ioctl"] = <<>>
      BY <2>1 DEF Ioctls
    <2>2. CASE /\ todo'["ioctl"] = todo["ioctl"] /\ todo'["ioctl"] # <<>>
               /\ poll_mode' = poll_mode /\ c = "release" /\ e = "release" /\ m >= 2
      <3>1. Cycle(todo["ioctl"], poll_mode)
        BY <2>2 DEF Inv, Ioctls
      <3>2. todo["core"] # <<>>
        BY <2>2, ReleaseRow DEF Inv
      <3>3. "overlap" \in seen'
        BY <2>2, <3>2 DEF Inv, Ioctls
      <3> QED BY <2>2, <3>1, <3>3 DEF Ioctls
    <2> QED BY <2>1, <2>2
  <1>2. Handled(m, e)' /\ Counted(m, e)' /\ Cycled(m, e)'
    BY <1>1, LowFrame
  <1>3. Inv(m, e)'
    BY <1>1, <1>2 DEF Inv
  <1> QED BY <1>3 DEF IInv

-----------------------------------------------------------------------------
(* Opening the device, up to its interrupts *)

\* The same for the core of the current state.
LEMMA CoreRow ==
    ASSUME Typed, NEW n \in 0 .. 13, NEW c \in Phases, Inv(n, c), ~Idle("core")
    PROVE  todo["core"] \in Seq(Steps) /\ Row(todo["core"], n, c, poll_mode)
  <1>1. Where(todo["core"], n, c, poll_mode) /\ poll_mode \in BOOLEAN /\ todo["core"] # <<>>
    BY DEF Inv, Typed, Idle
  <1> QED BY <1>1, Located

\* A step of probe_one that succeeds.
LEMMA OpenUp ==
    ASSUME Typed, NEW n \in 0 .. 9, Inv(n, "open"), Typed',
           Moves("core", Tail(todo["core"])),
           Where(Tail(todo["core"]), n + 1, "open", poll_mode),
           seen' = seen, poll_mode' = poll_mode, aer' = aer, probes' = probes, resets' = resets,
           SameNodes, dev'.irq = dev.irq, dev'.work = dev.work,
           IF n = 7 THEN dev'.unmasked = {} ELSE dev'.unmasked = dev.unmasked,
           dev'.shutdown = dev.shutdown,
           IF n = 3 THEN dev'.enabled = dev.enabled + 1 ELSE dev'.enabled = dev.enabled,
           IF n = 2 /\ poll_mode THEN dev'.threads = dev.threads + NumThreads
                                 ELSE dev'.threads = dev.threads,
           Held(n + 1, "open")'
    PROVE  IInv'
  <1> DEFINE m == n + 1
  <1>1. m \in 0 .. 10 /\ n \in 0 .. 10 /\ m \in 0 .. 13 /\ n \in 0 .. 13
    OBVIOUS
  <1>2. todo'["core"] = Tail(todo["core"]) /\ todo'["ioctl"] = todo["ioctl"]
    BY DEF Moves, Actors
  <1>3. todo'["ioctl"] = <<>>
    BY <1>2 DEF Inv, Ioctls
  <1>4. Where(todo'["core"], m, "open", poll_mode')
    BY <1>2
  <1>5. "open" \in Phases
    BY DEF Phases
  <1>6. Nodes(m, "open")'
    <2>1. Nodes(n, "open") /\ ~Present(n, "open")
      BY DEF Inv, Present
    <2> HIDE DEF m
    <2> QED BY <2>1, NodesFrame
  <1>7. Enabled(m, "open")'
    <2>1. Enabled(n, "open")
      BY DEF Inv
    <2>2. CASE n # 3
      <3>1. n >= 4 <=> m >= 4
        BY <2>2
      <3> HIDE DEF m
      <3> QED BY <1>1, <1>4, <1>5, <2>1, <2>2, <3>1, EnabledFrame
    <2>3. CASE n = 3
      <3>1. aer = "normal" /\ aer' = "normal"
        BY <2>1 DEF Enabled
      <3>2. Base(m)' = Base(n) /\ Base(n) \in Int
        <4>1. dev'.enabled = dev.enabled + 1 /\ dev.enabled \in Int
          BY <2>3 DEF Typed, Devices
        <4> QED BY <2>3, <3>1, <4>1 DEF Base
      <3>3. ~At("core", "slot_reset")'
        BY <1>4, <1>5, Away DEF At, Idle
      <3> QED BY <2>1, <3>1, <3>2, <3>3 DEF Enabled
    <2> QED BY <2>2, <2>3
  <1>8. Threads(m, "open")'
    <2>1. Threads(n, "open")
      BY DEF Inv
    <2>2. CASE n # 2
      <3>1. n >= 3 <=> m >= 3
        BY <2>2
      <3> HIDE DEF m
      <3> QED BY <1>1, <2>1, <2>2, <3>1, ThreadsFrame
    <2>3. CASE n = 2
      <3>1. NumThreads \in Nat
        BY DeviceAssumption DEF NumThreads
      <3>2. Left(m)' = Left(n) /\ Left(n) \in Int
        BY <2>3, <3>1 DEF Left, Typed, Devices
      <3> QED BY <2>1, <3>2 DEF Threads
    <2> QED BY <2>2, <2>3
  <1>9. ~dev'.shutdown
    BY DEF Inv, Cycled
  <1>10. ~dev'.work
    BY DEF Inv, Held, Cycled
  <1>11. m < 8 \/ dev'.unmasked = {}
    BY DEF Inv, Cycled
  <1>12. StillMasked
    BY <1>10 DEF StillMasked
  <1> HIDE DEF m
  <1> QED BY <1>1, <1>3, <1>4, <1>5, <1>6, <1>7, <1>8, <1>9, <1>10, <1>11, <1>12,
             LowStep DEF m

\* A step of probe_one that fails goes on with the releases of its level.
LEMMA OpenDown ==
    ASSUME Typed, NEW n \in 1 .. 9, Inv(n, "open"), Typed', NEW s, Moves("core", s),
           Where(s, n, "release", poll_mode),
           seen' = seen \cup {Head(todo["core"])},
           poll_mode' = poll_mode, aer' = aer, probes' = probes, resets' = resets,
           SameNodes, dev'.irq = dev.irq, dev'.unmasked = dev.unmasked,
           dev'.work = dev.work, dev'.shutdown = dev.shutdown, dev'.enabled = dev.enabled,
           Held(n, "release")', Threads(n, "release")'
    PROVE  IInv'
  <1>1. n \in 0 .. 10 /\ n \in 0 .. 13
    OBVIOUS
  <1>2. todo'["core"] = s /\ todo'["ioctl"] = todo["ioctl"]
    BY DEF Moves, Actors
  <1>3. todo'["ioctl"] = <<>>
    BY <1>2 DEF Inv, Ioctls
  <1>4. Where(todo'["core"], n, "release", poll_mode')
    BY <1>2
  <1>5. "open" \in Phases /\ "release" \in Phases
    BY DEF Phases
  <1>6. Nodes(n, "release")'
    <2>1. Nodes(n, "open") /\ ~Present(n, "open")
      BY DEF Inv, Present
    <2> QED BY <2>1, NodesFrame
  <1>7. Enabled(n, "release")'
    <2>1. Enabled(n, "open")
      BY DEF Inv
    <2> QED BY <1>1, <1>4, <1>5, <2>1, EnabledFrame
  <1>8. ~dev'.shutdown
    BY DEF Inv, Cycled
  <1> QED BY <1>1, <1>3, <1>4, <1>5, <1>6, <1>7, <1>8, LowStep DEF StillMasked

\* Which step of probe_one is taken at which level.
LEMMA OpenAt ==
    ASSUME NEW s, NEW n \in 0 .. 13, NEW c, NEW p, Row(s, n, c, p)
    PROVE  /\ Head(s) = "xpdev_alloc" => c = "open" /\ n = 0
           /\ Head(s) = "alloc_dev_instance" => c = "open" /\ n = 1
           /\ Head(s) = "xdev_list_add" => c = "open" /\ n = 2
           /\ Head(s) = "pci_enable_device" => c = "open" /\ n = 3
           /\ Head(s) = "request_regions" => c = "open" /\ n = 4
           /\ Head(s) = "map_bars" => c = "open" /\ n = 5
           /\ Head(s) = "set_dma_mask" => c = "open" /\ n = 6
           /\ Head(s) = "probe_engines" => c = "open" /\ n = 8
           /\ Head(s) = "enable_msi_msix" => c = "open" /\ n = 9
           /\ Head(s) = "irq_setup" => c = "open" /\ n = 10
           /\ Head(s) = "open_done" => c = "open" /\ n = 11
           /\ Head(s) = "user_isr_enable" => c = "open" /\ n = 12
           /\ c = "open" /\ n < 12 => Where(Tail(s), n + 1, "open", p)
           /\ c = "open" /\ n = 12 => Tail(s) = Rest(probe_one, 14)
  <1>1. /\ c = "open" /\ n < 12 => Where(Tail(s), n + 1, "open", p)
        /\ c = "open" /\ n = 12 => Tail(s) = Rest(probe_one, 14)
    BY DEF Row
  <1> DEFINE x == Head(s)
  <1>2. CASE c = "open"
    <2>1. \/ n = 0 /\ x = "xpdev_alloc"
          \/ n = 1 /\ x = "alloc_dev_instance"
          \/ n = 2 /\ x = "xdev_list_add"
          \/ n = 3 /\ x = "pci_enable_device"
          \/ n = 4 /\ x = "request_regions"
          \/ n = 5 /\ x = "map_bars"
          \/ n = 6 /\ x = "set_dma_mask"
          \/ n = 7 /\ x = "interrupts_disable"
          \/ n = 8 /\ x = "probe_engines"
          \/ n = 9 /\ x = "enable_msi_msix"
          \/ n = 10 /\ x = "irq_setup"
          \/ n = 11 /\ x = "open_done"
          \/ n = 12 /\ x = "user_isr_enable"
      BY <1>2 DEF Row
    <2> HIDE DEF x
    <2> QED BY <1>1, <1>2, <2>1 DEF x
  <1>3. CASE c # "open"
    <2>1. x \notin {"xpdev_alloc", "alloc_dev_instance", "xdev_list_add",
             "pci_enable_device", "request_regions", "map_bars", "set_dma_mask",
             "probe_engines", "enable_msi_msix", "irq_setup", "open_done", "user_isr_enable"}
      <3>1. CASE c = "release"
        BY <3>1 DEF Row, ReleaseStep
      <3>2. CASE c = "cycle"
        BY <3>2 DEF Row, Downward, Upward
      <3>3. CASE c \notin {"release", "cycle"}
        BY <1>3, <3>3 DEF Row, Groups
      <3> QED BY <3>1, <3>2, <3>3
    <2> QED BY <1>3, <2>1
  <1> QED BY <1>2, <1>3

\* alloc_dev_instance
LEMMA AllocDevInstance ==
    ASSUME Typed, NEW n \in 0 .. 13, NEW c \in Phases, Inv(n, c), alloc_dev_instance("core")
    PROVE  IInv'
  <1>1. /\ c = "open" /\ n = 1 /\ ~Idle("core") /\ Head(todo["core"]) = "alloc_dev_instance"
        /\ Where(Tail(todo["core"]), n + 1, "open", poll_mode)
    <2>1. ~Idle("core") /\ Head(todo["core"]) = "alloc_dev_instance"
      BY DEF alloc_dev_instance, At
    <2>2. Row(todo["core"], n, c, poll_mode)
      BY <2>1, CoreRow
    <2> QED BY <2>1, <2>2, OpenAt
  <1>2. "core" \in Actors /\ n \in 0 .. 9
    BY <1>1 DEF Actors
  <1>3. ASSUME Succeed("core", [dev EXCEPT !.xdev = TRUE, !.offline = TRUE])
        PROVE  IInv'
    <2> DEFINE d == [dev EXCEPT !.xdev = TRUE, !.offline = TRUE]
    <2>1. d \in Devices
      BY DEF Typed, Devices
    <2> HIDE DEF d
    <2>2. /\ Typed' /\ dev' = d /\ Moves("core", Tail(todo["core"])) /\ seen' = seen
          /\ poll_mode' = poll_mode /\ aer' = aer /\ probes' = probes /\ resets' = resets
      BY <1>1, <1>2, <1>3, <2>1, SucceedStep DEF d
    <2>3. /\ SameNodes /\ dev'.xpdev = dev.xpdev /\ dev'.xdev = TRUE
          /\ dev'.listed = dev.listed /\ dev'.bars = dev.bars
          /\ dev'.regions = dev.regions /\ dev'.bound = dev.bound
          /\ dev'.h2c = dev.h2c /\ dev'.c2h = dev.c2h /\ dev'.msix = dev.msix
          /\ dev'.irq = dev.irq /\ dev'.unmasked = dev.unmasked /\ dev'.work = dev.work
          /\ dev'.shutdown = dev.shutdown /\ dev'.enabled = dev.enabled
          /\ dev'.threads = dev.threads
      BY <2>2 DEF d, Typed, Devices, SameNodes
    <2>4. Held(n + 1, "open")'
      BY <1>1, <2>2, <2>3 DEF Inv, Held, SameNodes
    <2> QED BY <1>1, <1>2, <2>2, <2>3, <2>4, OpenUp
  <1>4. ASSUME Fail("core", dev, xpdev_free_unopened)
        PROVE  IInv'
    <2> DEFINE d == dev
               s == xpdev_free_unopened
    <2>1. d \in Devices
      BY DEF Typed, Devices
    <2>2. Where(s, 1, "release", poll_mode)
      BY Unwinding
    <2> HIDE DEF d, s
    <2>3. s \in Seq(Steps)
      BY <2>2, ReleaseRow
    <2>4. /\ Typed' /\ dev' = d /\ Moves("core", s) /\ seen' = seen \cup {Head(todo["core"])}
          /\ poll_mode' = poll_mode /\ aer' = aer /\ probes' = probes /\ resets' = resets
      BY <1>1, <1>2, <1>4, <2>1, <2>3, FailStep DEF d, s
    <2>5. /\ SameNodes /\ SameCounts /\ SameIrq /\ SameCycle /\ SameEngines
          /\ dev'.xpdev = dev.xpdev /\ dev'.xdev = dev.xdev /\ dev'.listed = dev.listed
          /\ dev'.bars = dev.bars /\ dev'.bound = dev.bound /\ dev'.regions = dev.regions
      BY <2>4 DEF d, Typed, Devices, SameNodes, SameCounts, SameIrq, SameCycle, SameEngines
    <2>6. Held(n, "release")'
      BY <1>1, <2>4, <2>5 DEF Inv, Held, SameEngines, SameNodes
    <2>7. Threads(n, "release")'
      <3>1. Threads(n, "open") /\ seen \subseteq seen'
        BY <1>1, <2>4 DEF Inv
      <3> QED BY <2>4, <2>5, <3>1, ThreadsFrame DEF SameCounts
    <2>8. n \in 1 .. 9 /\ Where(s, n, "release", poll_mode) /\ Inv(n, "open")
      BY <1>1, <2>2
    <2> QED BY <2>4, <2>5, <2>6, <2>7, <2>8, OpenDown
             DEF SameCounts, SameIrq, SameCycle, SameEngines
  <1> QED BY <1>3, <1>4 DEF alloc_dev_instance

\* pci_enable_device
LEMMA PciEnable ==
    ASSUME Typed, NEW n \in 0 .. 13, NEW c \in Phases, Inv(n, c), pci_enable_device("core")
    PROVE  IInv'
  <1>1. /\ c = "open" /\ n = 3 /\ ~Idle("core") /\ Head(todo["core"]) = "pci_enable_device"
        /\ Where(Tail(todo["core"]), n + 1, "open", poll_mode)
    <2>1. ~Idle("core") /\ Head(todo["core"]) = "pci_enable_device"
      BY DEF pci_enable_device, At
    <2>2. Row(todo["core"], n, c, poll_mode)
      BY <2>1, CoreRow
    <2> QED BY <2>1, <2>2, OpenAt
  <1>2. "core" \in Actors /\ n \in 0 .. 9
    BY <1>1 DEF Actors
  <1>3. ASSUME Succeed("core", [dev EXCEPT !.enabled = @ + 1])
        PROVE  IInv'
    <2> DEFINE d == [dev EXCEPT !.enabled = @ + 1]
    <2>1. d \in Devices
      <3>1. dev.enabled + 1 \in Int /\ dev \in Devices
        BY DEF Typed, Devices
      <3> QED BY <3>1 DEF Devices
    <2> HIDE DEF d
    <2>2. /\ Typed' /\ dev' = d /\ Moves("core", Tail(todo["core"])) /\ seen' = seen
          /\ poll_mode' = poll_mode /\ aer' = aer /\ probes' = probes /\ resets' = resets
      BY <1>1, <1>2, <1>3, <2>1, SucceedStep DEF d
    <2>3. /\ SameNodes /\ dev'.xpdev = dev.xpdev /\ dev'.xdev = dev.xdev
          /\ dev'.listed = dev.listed /\ dev'.bars = dev.bars
          /\ dev'.regions = dev.regions /\ dev'.bound = dev.bound
          /\ dev'.h2c = dev.h2c /\ dev'.c2h = dev.c2h /\ dev'.msix = dev.msix
          /\ dev'.irq = dev.irq /\ dev'.unmasked = dev.unmasked /\ dev'.work = dev.work
          /\ dev'.shutdown = dev.shutdown /\ dev'.enabled = dev.enabled + 1
          /\ dev'.threads = dev.threads
      BY <2>2 DEF d, Typed, Devices, SameNodes
    <2>4. Held(n + 1, "open")'
      BY <1>1, <2>2, <2>3 DEF Inv, Held, SameNodes
    <2> QED BY <1>1, <1>2, <2>2, <2>3, <2>4, OpenUp
  <1>4. ASSUME Fail("core", dev, From("xdev_list_remove") \o xpdev_free_unopened)
        PROVE  IInv'
    <2> DEFINE d == dev
               s == From("xdev_list_remove") \o xpdev_free_unopened
    <2>1. d \in Devices
      BY DEF Typed, Devices
    <2>2. Where(s, 3, "release", poll_mode)
      BY Unwinding
    <2> HIDE DEF d, s
    <2>3. s \in Seq(Steps)
      BY <2>2, ReleaseRow
    <2>4. /\ Typed' /\ dev' = d /\ Moves("core", s) /\ seen' = seen \cup {Head(todo["core"])}
          /\ poll_mode' = poll_mode /\ aer' = aer /\ probes' = probes /\ resets' = resets
      BY <1>1, <1>2, <1>4, <2>1, <2>3, FailStep DEF d, s
    <2>5. /\ SameNodes /\ SameCounts /\ SameIrq /\ SameCycle /\ SameEngines
          /\ dev'.xpdev = dev.xpdev /\ dev'.xdev = dev.xdev /\ dev'.listed = dev.listed
          /\ dev'.bars = dev.bars /\ dev'.bound = dev.bound /\ dev'.regions = dev.regions
      BY <2>4 DEF d, Typed, Devices, SameNodes, SameCounts, SameIrq, SameCycle, SameEngines
    <2>6. Held(n, "release")'
      BY <1>1, <2>4, <2>5 DEF Inv, Held, SameEngines, SameNodes
    <2>7. Threads(n, "release")'
      <3>1. Threads(n, "open") /\ seen \subseteq seen'
        BY <1>1, <2>4 DEF Inv
      <3> QED BY <2>4, <2>5, <3>1, ThreadsFrame DEF SameCounts
    <2>8. n \in 1 .. 9 /\ Where(s, n, "release", poll_mode) /\ Inv(n, "open")
      BY <1>1, <2>2
    <2> QED BY <2>4, <2>5, <2>6, <2>7, <2>8, OpenDown
             DEF SameCounts, SameIrq, SameCycle, SameEngines
  <1> QED BY <1>3, <1>4 DEF pci_enable_device

\* request_regions: a device whose regions are in use stays enabled.
LEMMA RequestRegions ==
    ASSUME Typed, NEW n \in 0 .. 13, NEW c \in Phases, Inv(n, c), request_regions("core")
    PROVE  IInv'
  <1>1. /\ c = "open" /\ n = 4 /\ ~Idle("core") /\ Head(todo["core"]) = "request_regions"
        /\ Where(Tail(todo["core"]), n + 1, "open", poll_mode)
    <2>1. ~Idle("core") /\ Head(todo["core"]) = "request_regions"
      BY DEF request_regions, At
    <2>2. Row(todo["core"], n, c, poll_mode)
      BY <2>1, CoreRow
    <2> QED BY <2>1, <2>2, OpenAt
  <1>2. "core" \in Actors /\ n \in 0 .. 9
    BY <1>1 DEF Actors
  <1>3. ASSUME Succeed("core", [dev EXCEPT !.regions = "got"])
        PROVE  IInv'
    <2> DEFINE d == [dev EXCEPT !.regions = "got"]
    <2>1. d \in Devices
      BY DEF Typed, Devices
    <2> HIDE DEF d
    <2>2. /\ Typed' /\ dev' = d /\ Moves("core", Tail(todo["core"])) /\ seen' = seen
          /\ poll_mode' = poll_mode /\ aer' = aer /\ probes' = probes /\ resets' = resets
      BY <1>1, <1>2, <1>3, <2>1, SucceedStep DEF d
    <2>3. /\ SameNodes /\ dev'.xpdev = dev.xpdev /\ dev'.xdev = dev.xdev
          /\ dev'.listed = dev.listed /\ dev'.bars = dev.bars
          /\ dev'.regions = "got" /\ dev'.bound = dev.bound
          /\ dev'.h2c = dev.h2c /\ dev'.c2h = dev.c2h /\ dev'.msix = dev.msix
          /\ dev'.irq = dev.irq /\ dev'.unmasked = dev.unmasked /\ dev'.work = dev.work
          /\ dev'.shutdown = dev.shutdown /\ dev'.enabled = dev.enabled
          /\ dev'.threads = dev.threads
      BY <2>2 DEF d, Typed, Devices, SameNodes
    <2>4. Held(n + 1, "open")'
      BY <1>1, <2>2, <2>3 DEF Inv, Held, SameNodes
    <2> QED BY <1>1, <1>2, <2>2, <2>3, <2>4, OpenUp
  <1>4. ASSUME Fail("core", [dev EXCEPT !.regions = "in_use"], From("disable_device") \o xpdev_free_unopened)
        PROVE  IInv'
    <2> DEFINE d == [dev EXCEPT !.regions = "in_use"]
               s == From("disable_device") \o xpdev_free_unopened
    <2>1. d \in Devices
      BY DEF Typed, Devices
    <2>2. Where(s, 4, "release", poll_mode)
      BY Unwinding
    <2> HIDE DEF d, s
    <2>3. s \in Seq(Steps)
      BY <2>2, ReleaseRow
    <2>4. /\ Typed' /\ dev' = d /\ Moves("core", s) /\ seen' = seen \cup {Head(todo["core"])}
          /\ poll_mode' = poll_mode /\ aer' = aer /\ probes' = probes /\ resets' = resets
      BY <1>1, <1>2, <1>4, <2>1, <2>3, FailStep DEF d, s
    <2>5. /\ SameNodes /\ SameCounts /\ SameIrq /\ SameCycle /\ SameEngines
          /\ dev'.xpdev = dev.xpdev /\ dev'.xdev = dev.xdev /\ dev'.listed = dev.listed
          /\ dev'.bars = dev.bars /\ dev'.bound = dev.bound /\ dev'.regions = "in_use"
      BY <2>4 DEF d, Typed, Devices, SameNodes, SameCounts, SameIrq, SameCycle, SameEngines
    <2>6. Held(n, "release")'
      BY <1>1, <2>4, <2>5 DEF Inv, Held, SameEngines, SameNodes
    <2>7. Threads(n, "release")'
      <3>1. Threads(n, "open") /\ seen \subseteq seen'
        BY <1>1, <2>4 DEF Inv
      <3> QED BY <2>4, <2>5, <3>1, ThreadsFrame DEF SameCounts
    <2>8. n \in 1 .. 9 /\ Where(s, n, "release", poll_mode) /\ Inv(n, "open")
      BY <1>1, <2>2
    <2> QED BY <2>4, <2>5, <2>6, <2>7, <2>8, OpenDown
             DEF SameCounts, SameIrq, SameCycle, SameEngines
  <1> QED BY <1>3, <1>4 DEF request_regions

\* map_bars
LEMMA MapBars ==
    ASSUME Typed, NEW n \in 0 .. 13, NEW c \in Phases, Inv(n, c), map_bars("core")
    PROVE  IInv'
  <1>1. /\ c = "open" /\ n = 5 /\ ~Idle("core") /\ Head(todo["core"]) = "map_bars"
        /\ Where(Tail(todo["core"]), n + 1, "open", poll_mode)
    <2>1. ~Idle("core") /\ Head(todo["core"]) = "map_bars"
      BY DEF map_bars, At
    <2>2. Row(todo["core"], n, c, poll_mode)
      BY <2>1, CoreRow
    <2> QED BY <2>1, <2>2, OpenAt
  <1>2. "core" \in Actors /\ n \in 0 .. 9
    BY <1>1 DEF Actors
  <1>3. ASSUME Succeed("core", [dev EXCEPT !.bars = TRUE])
        PROVE  IInv'
    <2> DEFINE d == [dev EXCEPT !.bars = TRUE]
    <2>1. d \in Devices
      BY DEF Typed, Devices
    <2> HIDE DEF d
    <2>2. /\ Typed' /\ dev' = d /\ Moves("core", Tail(todo["core"])) /\ seen' = seen
          /\ poll_mode' = poll_mode /\ aer' = aer /\ probes' = probes /\ resets' = resets
      BY <1>1, <1>2, <1>3, <2>1, SucceedStep DEF d
    <2>3. /\ SameNodes /\ dev'.xpdev = dev.xpdev /\ dev'.xdev = dev.xdev
          /\ dev'.listed = dev.listed /\ dev'.bars = TRUE
          /\ dev'.regions = dev.regions /\ dev'.bound = dev.bound
          /\ dev'.h2c = dev.h2c /\ dev'.c2h = dev.c2h /\ dev'.msix = dev.msix
          /\ dev'.irq = dev.irq /\ dev'.unmasked = dev.unmasked /\ dev'.work = dev.work
          /\ dev'.shutdown = dev.shutdown /\ dev'.enabled = dev.enabled
          /\ dev'.threads = dev.threads
      BY <2>2 DEF d, Typed, Devices, SameNodes
    <2>4. Held(n + 1, "open")'
      BY <1>1, <2>2, <2>3 DEF Inv, Held, SameNodes
    <2> QED BY <1>1, <1>2, <2>2, <2>3, <2>4, OpenUp
  <1>4. ASSUME Fail("core", dev, From("release_regions") \o xpdev_free_unopened)
        PROVE  IInv'
    <2> DEFINE d == dev
               s == From("release_regions") \o xpdev_free_unopened
    <2>1. d \in Devices
      BY DEF Typed, Devices
    <2>2. Where(s, 5, "release", poll_mode)
      BY Unwinding
    <2> HIDE DEF d, s
    <2>3. s \in Seq(Steps)
      BY <2>2, ReleaseRow
    <2>4. /\ Typed' /\ dev' = d /\ Moves("core", s) /\ seen' = seen \cup {Head(todo["core"])}
          /\ poll_mode' = poll_mode /\ aer' = aer /\ probes' = probes /\ resets' = resets
      BY <1>1, <1>2, <1>4, <2>1, <2>3, FailStep DEF d, s
    <2>5. /\ SameNodes /\ SameCounts /\ SameIrq /\ SameCycle /\ SameEngines
          /\ dev'.xpdev = dev.xpdev /\ dev'.xdev = dev.xdev /\ dev'.listed = dev.listed
          /\ dev'.bars = dev.bars /\ dev'.bound = dev.bound /\ dev'.regions = dev.regions
      BY <2>4 DEF d, Typed, Devices, SameNodes, SameCounts, SameIrq, SameCycle, SameEngines
    <2>6. Held(n, "release")'
      BY <1>1, <2>4, <2>5 DEF Inv, Held, SameEngines, SameNodes
    <2>7. Threads(n, "release")'
      <3>1. Threads(n, "open") /\ seen \subseteq seen'
        BY <1>1, <2>4 DEF Inv
      <3> QED BY <2>4, <2>5, <3>1, ThreadsFrame DEF SameCounts
    <2>8. n \in 1 .. 9 /\ Where(s, n, "release", poll_mode) /\ Inv(n, "open")
      BY <1>1, <2>2
    <2> QED BY <2>4, <2>5, <2>6, <2>7, <2>8, OpenDown
             DEF SameCounts, SameIrq, SameCycle, SameEngines
  <1> QED BY <1>3, <1>4 DEF map_bars

\* set_dma_mask
LEMMA SetDmaMask ==
    ASSUME Typed, NEW n \in 0 .. 13, NEW c \in Phases, Inv(n, c), set_dma_mask("core")
    PROVE  IInv'
  <1>1. /\ c = "open" /\ n = 6 /\ ~Idle("core") /\ Head(todo["core"]) = "set_dma_mask"
        /\ Where(Tail(todo["core"]), n + 1, "open", poll_mode)
    <2>1. ~Idle("core") /\ Head(todo["core"]) = "set_dma_mask"
      BY DEF set_dma_mask, At
    <2>2. Row(todo["core"], n, c, poll_mode)
      BY <2>1, CoreRow
    <2> QED BY <2>1, <2>2, OpenAt
  <1>2. "core" \in Actors /\ n \in 0 .. 9
    BY <1>1 DEF Actors
  <1>3. ASSUME Succeed("core", dev)
        PROVE  IInv'
    <2> DEFINE d == dev
    <2>1. d \in Devices
      BY DEF Typed, Devices
    <2> HIDE DEF d
    <2>2. /\ Typed' /\ dev' = d /\ Moves("core", Tail(todo["core"])) /\ seen' = seen
          /\ poll_mode' = poll_mode /\ aer' = aer /\ probes' = probes /\ resets' = resets
      BY <1>1, <1>2, <1>3, <2>1, SucceedStep DEF d
    <2>3. /\ SameNodes /\ dev'.xpdev = dev.xpdev /\ dev'.xdev = dev.xdev
          /\ dev'.listed = dev.listed /\ dev'.bars = dev.bars
          /\ dev'.regions = dev.regions /\ dev'.bound = dev.bound
          /\ dev'.h2c = dev.h2c /\ dev'.c2h = dev.c2h /\ dev'.msix = dev.msix
          /\ dev'.irq = dev.irq /\ dev'.unmasked = dev.unmasked /\ dev'.work = dev.work
          /\ dev'.shutdown = dev.shutdown /\ dev'.enabled = dev.enabled
          /\ dev'.threads = dev.threads
      BY <2>2 DEF d, Typed, Devices, SameNodes
    <2>4. Held(n + 1, "open")'
      BY <1>1, <2>2, <2>3 DEF Inv, Held, SameNodes
    <2> QED BY <1>1, <1>2, <2>2, <2>3, <2>4, OpenUp
  <1>4. ASSUME Fail("core", dev, From("unmap_bars") \o xpdev_free_unopened)
        PROVE  IInv'
    <2> DEFINE d == dev
               s == From("unmap_bars") \o xpdev_free_unopened
    <2>1. d \in Devices
      BY DEF Typed, Devices
    <2>2. Where(s, 6, "release", poll_mode)
      BY Unwinding
    <2> HIDE DEF d, s
    <2>3. s \in Seq(Steps)
      BY <2>2, ReleaseRow
    <2>4. /\ Typed' /\ dev' = d /\ Moves("core", s) /\ seen' = seen \cup {Head(todo["core"])}
          /\ poll_mode' = poll_mode /\ aer' = aer /\ probes' = probes /\ resets' = resets
      BY <1>1, <1>2, <1>4, <2>1, <2>3, FailStep DEF d, s
    <2>5. /\ SameNodes /\ SameCounts /\ SameIrq /\ SameCycle /\ SameEngines
          /\ dev'.xpdev = dev.xpdev /\ dev'.xdev = dev.xdev /\ dev'.listed = dev.listed
          /\ dev'.bars = dev.bars /\ dev'.bound = dev.bound /\ dev'.regions = dev.regions
      BY <2>4 DEF d, Typed, Devices, SameNodes, SameCounts, SameIrq, SameCycle, SameEngines
    <2>6. Held(n, "release")'
      BY <1>1, <2>4, <2>5 DEF Inv, Held, SameEngines, SameNodes
    <2>7. Threads(n, "release")'
      <3>1. Threads(n, "open") /\ seen \subseteq seen'
        BY <1>1, <2>4 DEF Inv
      <3> QED BY <2>4, <2>5, <3>1, ThreadsFrame DEF SameCounts
    <2>8. n \in 1 .. 9 /\ Where(s, n, "release", poll_mode) /\ Inv(n, "open")
      BY <1>1, <2>2
    <2> QED BY <2>4, <2>5, <2>6, <2>7, <2>8, OpenDown
             DEF SameCounts, SameIrq, SameCycle, SameEngines
  <1> QED BY <1>3, <1>4 DEF set_dma_mask

\* probe_engines
LEMMA ProbeEngines ==
    ASSUME Typed, NEW n \in 0 .. 13, NEW c \in Phases, Inv(n, c), probe_engines("core")
    PROVE  IInv'
  <1>1. /\ c = "open" /\ n = 8 /\ ~Idle("core") /\ Head(todo["core"]) = "probe_engines"
        /\ Where(Tail(todo["core"]), n + 1, "open", poll_mode)
    <2>1. ~Idle("core") /\ Head(todo["core"]) = "probe_engines"
      BY DEF probe_engines, At
    <2>2. Row(todo["core"], n, c, poll_mode)
      BY <2>1, CoreRow
    <2> QED BY <2>1, <2>2, OpenAt
  <1>2. "core" \in Actors /\ n \in 0 .. 9
    BY <1>1 DEF Actors
  <1>3. ASSUME NEW h \in 0 .. ChannelMax, NEW k \in 0 .. ChannelMax,
               Succeed("core", [dev EXCEPT !.h2c = h, !.c2h = k])
        PROVE  IInv'
    <2> DEFINE d == [dev EXCEPT !.h2c = h, !.c2h = k]
    <2>1. d \in Devices
      BY DEF Typed, Devices
    <2> HIDE DEF d
    <2>2. /\ Typed' /\ dev' = d /\ Moves("core", Tail(todo["core"])) /\ seen' = seen
          /\ poll_mode' = poll_mode /\ aer' = aer /\ probes' = probes /\ resets' = resets
      BY <1>1, <1>2, <1>3, <2>1, SucceedStep DEF d
    <2>3. /\ SameNodes /\ dev'.xpdev = dev.xpdev /\ dev'.xdev = dev.xdev
          /\ dev'.listed = dev.listed /\ dev'.bars = dev.bars
          /\ dev'.regions = dev.regions /\ dev'.bound = dev.bound
          /\ dev'.h2c = h /\ dev'.c2h = k /\ dev'.msix = dev.msix
          /\ dev'.irq = dev.irq /\ dev'.unmasked = dev.unmasked /\ dev'.work = dev.work
          /\ dev'.shutdown = dev.shutdown /\ dev'.enabled = dev.enabled
          /\ dev'.threads = dev.threads
      BY <2>2 DEF d, Typed, Devices, SameNodes
    <2>4. Held(n + 1, "open")'
      BY <1>1, <2>2, <2>3 DEF Inv, Held, SameNodes
    <2> QED BY <1>1, <1>2, <2>2, <2>3, <2>4, OpenUp
  <1> QED BY <1>3 DEF probe_engines

\* enable_msi_msix
LEMMA EnableMsi ==
    ASSUME Typed, NEW n \in 0 .. 13, NEW c \in Phases, Inv(n, c), enable_msi_msix("core")
    PROVE  IInv'
  <1>1. /\ c = "open" /\ n = 9 /\ ~Idle("core") /\ Head(todo["core"]) = "enable_msi_msix"
        /\ Where(Tail(todo["core"]), n + 1, "open", poll_mode)
    <2>1. ~Idle("core") /\ Head(todo["core"]) = "enable_msi_msix"
      BY DEF enable_msi_msix, At
    <2>2. Row(todo["core"], n, c, poll_mode)
      BY <2>1, CoreRow
    <2> QED BY <2>1, <2>2, OpenAt
  <1>2. "core" \in Actors /\ n \in 0 .. 9
    BY <1>1 DEF Actors
  <1>3. ASSUME NEW mode \in {"msix", "msi", "legacy"},
               Succeed("core", [dev EXCEPT !.msix = mode])
        PROVE  IInv'
    <2> DEFINE d == [dev EXCEPT !.msix = mode]
    <2>1. d \in Devices
      BY DEF Typed, Devices
    <2> HIDE DEF d
    <2>2. /\ Typed' /\ dev' = d /\ Moves("core", Tail(todo["core"])) /\ seen' = seen
          /\ poll_mode' = poll_mode /\ aer' = aer /\ probes' = probes /\ resets' = resets
      BY <1>1, <1>2, <1>3, <2>1, SucceedStep DEF d
    <2>3. /\ SameNodes /\ dev'.xpdev = dev.xpdev /\ dev'.xdev = dev.xdev
          /\ dev'.listed = dev.listed /\ dev'.bars = dev.bars
          /\ dev'.regions = dev.regions /\ dev'.bound = dev.bound
          /\ dev'.h2c = dev.h2c /\ dev'.c2h = dev.c2h /\ dev'.msix = mode
          /\ dev'.irq = dev.irq /\ dev'.unmasked = dev.unmasked /\ dev'.work = dev.work
          /\ dev'.shutdown = dev.shutdown /\ dev'.enabled = dev.enabled
          /\ dev'.threads = dev.threads
      BY <2>2 DEF d, Typed, Devices, SameNodes
    <2>4. Held(n + 1, "open")'
      BY <1>1, <2>2, <2>3 DEF Inv, Held, SameNodes
    <2> QED BY <1>1, <1>2, <2>2, <2>3, <2>4, OpenUp
  <1>4. ASSUME Fail("core", dev, From("remove_engines") \o xpdev_free_unopened)
        PROVE  IInv'
    <2> DEFINE d == dev
               s == From("remove_engines") \o xpdev_free_unopened
    <2>1. d \in Devices
      BY DEF Typed, Devices
    <2>2. Where(s, 9, "release", poll_mode)
      BY Unwinding
    <2> HIDE DEF d, s
    <2>3. s \in Seq(Steps)
      BY <2>2, ReleaseRow
    <2>4. /\ Typed' /\ dev' = d /\ Moves("core", s) /\ seen' = seen \cup {Head(todo["core"])}
          /\ poll_mode' = poll_mode /\ aer' = aer /\ probes' = probes /\ resets' = resets
      BY <1>1, <1>2, <1>4, <2>1, <2>3, FailStep DEF d, s
    <2>5. /\ SameNodes /\ SameCounts /\ SameIrq /\ SameCycle /\ SameEngines
          /\ dev'.xpdev = dev.xpdev /\ dev'.xdev = dev.xdev /\ dev'.listed = dev.listed
          /\ dev'.bars = dev.bars /\ dev'.bound = dev.bound /\ dev'.regions = dev.regions
      BY <2>4 DEF d, Typed, Devices, SameNodes, SameCounts, SameIrq, SameCycle, SameEngines
    <2>6. Held(n, "release")'
      BY <1>1, <2>4, <2>5 DEF Inv, Held, SameEngines, SameNodes
    <2>7. Threads(n, "release")'
      <3>1. Threads(n, "open") /\ seen \subseteq seen'
        BY <1>1, <2>4 DEF Inv
      <3> QED BY <2>4, <2>5, <3>1, ThreadsFrame DEF SameCounts
    <2>8. n \in 1 .. 9 /\ Where(s, n, "release", poll_mode) /\ Inv(n, "open")
      BY <1>1, <2>2
    <2> QED BY <2>4, <2>5, <2>6, <2>7, <2>8, OpenDown
             DEF SameCounts, SameIrq, SameCycle, SameEngines
  <1> QED BY <1>3, <1>4 DEF enable_msi_msix

\* xpdev_alloc: nothing is held yet when it fails.
LEMMA XpdevAlloc ==
    ASSUME Typed, NEW n \in 0 .. 13, NEW c \in Phases, Inv(n, c), xpdev_alloc("core")
    PROVE  IInv'
  <1>1. /\ c = "open" /\ n = 0 /\ ~Idle("core") /\ Head(todo["core"]) = "xpdev_alloc"
        /\ Where(Tail(todo["core"]), n + 1, "open", poll_mode)
    <2>1. ~Idle("core") /\ Head(todo["core"]) = "xpdev_alloc"
      BY DEF xpdev_alloc, At
    <2>2. Row(todo["core"], n, c, poll_mode)
      BY <2>1, CoreRow
    <2> QED BY <2>1, <2>2, OpenAt
  <1>2. "core" \in Actors /\ n \in 0 .. 9
    BY <1>1 DEF Actors
  <1>3. ASSUME Succeed("core", [dev EXCEPT !.xpdev = TRUE])
        PROVE  IInv'
    <2> DEFINE d == [dev EXCEPT !.xpdev = TRUE]
    <2>1. d \in Devices
      BY DEF Typed, Devices
    <2> HIDE DEF d
    <2>2. /\ Typed' /\ dev' = d /\ Moves("core", Tail(todo["core"])) /\ seen' = seen
          /\ poll_mode' = poll_mode /\ aer' = aer /\ probes' = probes /\ resets' = resets
      BY <1>1, <1>2, <1>3, <2>1, SucceedStep DEF d
    <2>3. /\ SameNodes /\ dev'.xpdev = TRUE /\ dev'.xdev = dev.xdev
          /\ dev'.listed = dev.listed /\ dev'.bars = dev.bars
          /\ dev'.regions = dev.regions /\ dev'.bound = dev.bound
          /\ dev'.h2c = dev.h2c /\ dev'.c2h = dev.c2h /\ dev'.msix = dev.msix
          /\ dev'.irq = dev.irq /\ dev'.unmasked = dev.unmasked /\ dev'.work = dev.work
          /\ dev'.shutdown = dev.shutdown /\ dev'.enabled = dev.enabled
          /\ dev'.threads = dev.threads
      BY <2>2 DEF d, Typed, Devices, SameNodes
    <2>4. Held(n + 1, "open")'
      BY <1>1, <2>2, <2>3 DEF Inv, Held, SameNodes
    <2> QED BY <1>1, <1>2, <2>2, <2>3, <2>4, OpenUp
  <1>4. ASSUME Fail("core", dev, <<>>)
        PROVE  IInv'
    <2>1. <<>> \in Seq(Steps) /\ dev \in Devices
      BY DEF Typed
    <2>2. /\ Typed' /\ dev' = dev /\ Moves("core", <<>>)
          /\ seen' = seen \cup {Head(todo["core"])}
          /\ poll_mode' = poll_mode /\ aer' = aer /\ probes' = probes /\ resets' = resets
      BY <1>1, <1>2, <1>4, <2>1, FailStep
    <2>3. todo'["core"] = <<>> /\ todo'["ioctl"] = <<>>
      BY <1>1, <2>2 DEF Moves, Actors, Inv, Ioctls
    <2>4. Where(todo'["core"], 0, "idle", poll_mode') /\ "idle" \in Phases
      BY <2>3 DEF Where, Phases
    <2>5. Held(0, "idle")'
      BY <1>1, <2>2 DEF Inv, Held, SameNodes
    <2>6. Nodes(n, c) /\ Enabled(n, c) /\ Threads(n, c) /\ Cycled(n, c)
      BY DEF Inv
    <2>7. Nodes(0, "idle")'
      BY <1>1, <2>2, <2>6, NodesFrame DEF SameNodes, Present
    <2>8. Enabled(0, "idle")'
      BY <1>1, <2>2, <2>4, <2>6, EnabledFrame
    <2>9. Threads(0, "idle")'
      BY <1>1, <2>2, <2>6, ThreadsFrame
    <2>10. ~dev'.shutdown /\ n \in 0 .. 10 /\ 0 \in 0 .. 10
      BY <1>1, <2>2, <2>6 DEF Cycled
    <2> QED BY <2>2, <2>3, <2>4, <2>5, <2>7, <2>8, <2>9, <2>10, LowStep DEF StillMasked
  <1> QED BY <1>3, <1>4 DEF xpdev_alloc

\* xdev_list_add: the first device starts the polling threads.  When one of
\* them cannot be started, those before it run on.
LEMMA XdevListAdd ==
    ASSUME Typed, NEW n \in 0 .. 13, NEW c \in Phases, Inv(n, c), xdev_list_add("core")
    PROVE  IInv'
  <1>1. /\ c = "open" /\ n = 2 /\ ~Idle("core") /\ Head(todo["core"]) = "xdev_list_add"
        /\ Where(Tail(todo["core"]), n + 1, "open", poll_mode)
    <2>1. ~Idle("core") /\ Head(todo["core"]) = "xdev_list_add"
      BY DEF xdev_list_add, At
    <2>2. Row(todo["core"], n, c, poll_mode)
      BY <2>1, CoreRow
    <2> QED BY <2>1, <2>2, OpenAt
  <1>2. "core" \in Actors /\ n \in 0 .. 9 /\ NumThreads \in Nat /\ dev.threads \in Int
    BY <1>1, DeviceAssumption DEF Actors, NumThreads, Typed, Devices
  <1> DEFINE Started(k) == [dev EXCEPT !.listed = TRUE, !.threads = k]
  <1>3. ASSUME NEW k \in Int, k = (IF poll_mode THEN dev.threads + NumThreads ELSE dev.threads),
               Succeed("core", Started(k))
        PROVE  IInv'
    <2> DEFINE d == Started(k)
    <2>1. d \in Devices
      BY DEF Typed, Devices
    <2> HIDE DEF d
    <2>2. /\ Typed' /\ dev' = d /\ Moves("core", Tail(todo["core"])) /\ seen' = seen
          /\ poll_mode' = poll_mode /\ aer' = aer /\ probes' = probes /\ resets' = resets
      BY <1>1, <1>2, <1>3, <2>1, SucceedStep DEF d
    <2>3. /\ SameNodes /\ dev'.xpdev = dev.xpdev /\ dev'.xdev = dev.xdev
          /\ dev'.listed = TRUE /\ dev'.bars = dev.bars
          /\ dev'.regions = dev.regions /\ dev'.bound = dev.bound
          /\ SameEngines /\ SameIrq /\ SameCycle
          /\ dev'.enabled = dev.enabled /\ dev'.threads = k
      BY <2>2 DEF d, Typed, Devices, SameNodes, SameEngines, SameIrq, SameCycle
    <2>4. Held(n + 1, "open")'
      BY <1>1, <2>2, <2>3 DEF Inv, Held, SameEngines, SameNodes
    <2>5. IF n = 2 /\ poll_mode THEN dev'.threads = dev.threads + NumThreads
                                ELSE dev'.threads = dev.threads
      BY <1>1, <1>3, <2>3
    <2> QED BY <1>1, <1>2, <2>2, <2>3, <2>4, <2>5, OpenUp
             DEF SameIrq, SameCycle, SameEngines
  <1>4. ASSUME poll_mode, NEW k \in 0 .. NumThreads - 1,
               Fail("core", xdma_threads_create(dev, k),
                    From("free_xdev") \o xpdev_free_unopened)
        PROVE  IInv'
    <2> DEFINE d == xdma_threads_create(dev, k)
               s == From("free_xdev") \o xpdev_free_unopened
    <2>1. d \in Devices
      <3>1. dev.threads + k \in Int /\ dev \in Devices
        BY <1>2 DEF Typed
      <3> QED BY <3>1 DEF xdma_threads_create, Devices
    <2>2. Where(s, 2, "release", poll_mode)
      BY Unwinding
    <2> HIDE DEF d, s
    <2>3. s \in Seq(Steps)
      BY <2>2, ReleaseRow
    <2>4. /\ Typed' /\ dev' = d /\ Moves("core", s) /\ seen' = seen \cup {Head(todo["core"])}
          /\ poll_mode' = poll_mode /\ aer' = aer /\ probes' = probes /\ resets' = resets
      BY <1>1, <1>2, <1>4, <2>1, <2>3, FailStep DEF d, s
    <2>5. /\ SameNodes /\ SameOwned /\ SameIrq /\ SameCycle /\ SameEngines
          /\ dev'.enabled = dev.enabled /\ dev'.threads = dev.threads + k
      BY <2>4 DEF d, xdma_threads_create, Typed, Devices, SameNodes, SameOwned, SameIrq,
                  SameCycle, SameEngines
    <2>6. Held(n, "release")'
      BY <1>1, <2>4, <2>5 DEF Inv, Held, SameEngines, SameOwned
    <2>7. Threads(n, "release")'
      <3>1. Threads(n, "open") /\ Left(n) = dev.threads /\ Left(n)' = dev'.threads
        <4>1. dev'.threads \in Int
          BY <1>2, <2>5
        <4> QED BY <1>1, <1>2, <4>1 DEF Inv, Left
      <3>2. dev.threads >= 0 /\ dev.threads <= (probes - 1) * NumThreads
        <4>1. Left(n) >= 0 /\ Left(n) <= (probes - 1) * NumThreads
          BY <3>1 DEF Threads
        <4> QED BY <3>1, <4>1
      <3>3. probes \in Nat /\ probes <= probes
        BY DEF Typed
      <3>4. /\ (probes - 1) * NumThreads + NumThreads = probes * NumThreads
            /\ (probes - 1) * NumThreads \in Int
        BY <3>3, Product
      <3>5. dev'.threads >= 0 /\ dev'.threads <= probes * NumThreads
        BY <1>2, <2>5, <3>2, <3>4
      <3>6. "xdev_list_add" \in seen'
        BY <1>1, <2>4
      <3> QED BY <1>1, <2>4, <3>1, <3>5, <3>6 DEF Threads
    <2>8. n \in 1 .. 9 /\ Where(s, n, "release", poll_mode) /\ Inv(n, "open")
      BY <1>1, <2>2
    <2> QED BY <2>4, <2>5, <2>6, <2>7, <2>8, OpenDown
             DEF SameIrq, SameCycle, SameEngines
  <1>5. CASE Succeed("core", IF poll_mode
                             THEN xdma_threads_create([dev EXCEPT !.listed = TRUE], NumThreads)
                             ELSE [dev EXCEPT !.listed = TRUE])
    <2> DEFINE k == IF poll_mode THEN dev.threads + NumThreads ELSE dev.threads
    <2>1. (IF poll_mode THEN xdma_threads_create([dev EXCEPT !.listed = TRUE], NumThreads)
           ELSE [dev EXCEPT !.listed = TRUE]) = Started(k)
      <3>1. dev \in Devices
        BY DEF Typed
      <3>2. CASE poll_mode
        <4>1. xdma_threads_create([dev EXCEPT !.listed = TRUE], NumThreads) =
                Started(dev.threads + NumThreads)
          BY <3>1 DEF Devices, xdma_threads_create
        <4> QED BY <3>2, <4>1
      <3>3. CASE ~poll_mode
        <4>1. [dev EXCEPT !.listed = TRUE] = Started(dev.threads)
          BY <3>1 DEF Devices
        <4> QED BY <3>3, <4>1
      <3> QED BY <3>2, <3>3
    <2>2. k \in Int
      BY <1>2
    <2> HIDE DEF Started
    <2>3. Succeed("core", Started(k))
      BY <1>5, <2>1
    <2> QED BY <1>3, <2>2, <2>3
  <1> QED BY <1>4, <1>5 DEF xdev_list_add

\* interrupts_disable, as a step of xdma_device_open.
LEMMA InterruptsOpen ==
    ASSUME Typed, NEW n \in 0 .. 13, NEW c \in Phases, Inv(n, c), c = "open",
           interrupts_disable("core")
    PROVE  IInv'
  <1>1. n = 7 /\ ~Idle("core") /\ Where(Tail(todo["core"]), n + 1, "open", poll_mode)
    <2>1. ~Idle("core") /\ Head(todo["core"]) = "interrupts_disable"
      BY DEF interrupts_disable, At
    <2>2. Row(todo["core"], n, c, poll_mode)
      BY <2>1, CoreRow
    <2>3. n = 7
      BY <2>1, <2>2 DEF Row
    <2> QED BY <2>1, <2>2, <2>3, OpenAt
  <1>2. "core" \in Actors /\ n \in 0 .. 9 /\ ~dev.work
    BY <1>1 DEF Actors, Inv, Held
  <1> DEFINE d == [dev EXCEPT !.unmasked = {}]
  <1>3. d \in Devices
    BY DEF Typed, Devices
  <1>7. Succeed("core", d)
    BY <1>2 DEF interrupts_disable, Succeed
  <1> HIDE DEF d
  <1>4. /\ Typed' /\ dev' = d /\ Moves("core", Tail(todo["core"])) /\ seen' = seen
        /\ poll_mode' = poll_mode /\ aer' = aer /\ probes' = probes /\ resets' = resets
    BY <1>1, <1>2, <1>3, <1>7, SucceedStep
  <1>5. /\ SameNodes /\ SameOwned /\ SameEngines /\ SameIrq /\ SameCounts
        /\ dev'.unmasked = {} /\ dev'.shutdown = dev.shutdown
    BY <1>2, <1>4 DEF d, Typed, Devices, SameNodes, SameOwned, SameEngines, SameIrq, SameCounts
  <1>6. Held(n + 1, "open")'
    BY <1>1, <1>4, <1>5 DEF Inv, Held, SameEngines, SameOwned
  <1> QED BY <1>1, <1>2, <1>4, <1>5, <1>6, OpenUp DEF SameIrq, SameCounts, SameEngines

-----------------------------------------------------------------------------
(* Releasing the device *)

\* Which release is taken at which level.
LEMMA ReleaseAt ==
    ASSUME NEW s, NEW n \in 0 .. 13, NEW c, NEW p, Row(s, n, c, p)
    PROVE  /\ Head(s) = "disable_msi_msix" =>
                 c = "release" /\ n = 10 /\ Where(Tail(s), 9, "release", p)
           /\ Head(s) = "remove_engines" =>
                 c = "release" /\ n = 9 /\ Where(Tail(s), 6, "release", p)
           /\ Head(s) = "unmap_bars" =>
                 c = "release" /\ n = 6 /\ Where(Tail(s), 5, "release", p)
           /\ Head(s) = "release_regions" =>
                 c = "release" /\ n = 5 /\ Where(Tail(s), 4, "release", p)
           /\ Head(s) = "disable_device" =>
                 c = "release" /\ n = 4 /\ Where(Tail(s), 3, "release", p)
           /\ Head(s) = "xdev_list_remove" =>
                 c = "release" /\ n = 3 /\ Where(Tail(s), 2, "release", p)
           /\ Head(s) = "free_xdev" =>
                 c = "release" /\ n = 2 /\ Where(Tail(s), 1, "release", p)
           /\ Head(s) = "free_xpdev" =>
                 /\ c = "release" /\ n = 1
                 /\ Tail(s) = <<>> \/ Where(Tail(s), 0, "exit", p)
           /\ Head(s) = "destroy_interfaces" =>
                 \/ c = "release" /\ n = 1 /\ Where(Tail(s), 1, "release", p)
                 \/ /\ c = "remove" /\ n = 13
                    /\ Where(Tail(s), 13, "remove", p) \/ Where(Tail(s), 13, "release", p)
  <1>1. CASE c = "release"
    BY <1>1 DEF Row, ReleaseStep
  <1>2. CASE c # "release"
    <2>1. Head(s) \notin {"disable_msi_msix", "remove_engines", "unmap_bars",
             "release_regions", "disable_device", "xdev_list_remove", "free_xdev", "free_xpdev"}
      <3>1. CASE c = "open"
        BY <3>1 DEF Row
      <3>2. CASE c = "cycle"
        BY <3>2 DEF Row, Downward, Upward
      <3>3. CASE c \notin {"open", "cycle"}
        BY <1>2, <3>3 DEF Row, Groups
      <3> QED BY <3>1, <3>2, <3>3
    <2>2. Head(s) = "destroy_interfaces" =>
            /\ c = "remove" /\ n = 13
            /\ Where(Tail(s), 13, "remove", p) \/ Where(Tail(s), 13, "release", p)
      <3>1. CASE c = "open"
        BY <3>1 DEF Row
      <3>2. CASE c = "cycle"
        BY <3>2 DEF Row, Downward, Upward
      <3>3. CASE c \notin {"open", "cycle"}
        BY <1>2, <3>3 DEF Row, Groups
      <3> QED BY <3>1, <3>2, <3>3
    <2> QED BY <2>1, <2>2
  <1> QED BY <1>1, <1>2

\* A release that lowers the level from n to m.
LEMMA ReleaseDown ==
    ASSUME Typed, NEW n \in 3 .. 10, Inv(n, "release"), Typed',
           NEW m \in 2 .. 9, m < n, n = 3 \/ m >= 3, n < 4 \/ m >= 4 \/ n = 4,
           Moves("core", Tail(todo["core"])), Where(Tail(todo["core"]), m, "release", poll_mode),
           seen' = seen, poll_mode' = poll_mode, aer' = aer, probes' = probes, resets' = resets,
           SameNodes, dev'.irq = dev.irq, SameCycle,
           IF n = 4 THEN dev'.enabled = IF dev.regions = "in_use" THEN dev.enabled
                                        ELSE dev.enabled - 1
           ELSE dev'.enabled = dev.enabled,
           IF n = 3 /\ poll_mode THEN dev'.threads = dev.threads - NumThreads
                                 ELSE dev'.threads = dev.threads,
           Held(m, "release")'
    PROVE  IInv'
  <1>1. n \in 0 .. 10 /\ m \in 0 .. 10 /\ n \in 0 .. 13 /\ m \in 0 .. 13
    OBVIOUS
  <1>2. todo'["core"] = Tail(todo["core"]) /\ todo'["ioctl"] = todo["ioctl"]
    BY DEF Moves, Actors
  <1>3. Where(todo'["core"], m, "release", poll_mode') /\ "release" \in Phases
    BY <1>2 DEF Phases
  <1>4. Nodes(m, "release")'
    <2>1. Nodes(n, "release") /\ ~Present(n, "release")
      BY DEF Inv, Present
    <2> QED BY <2>1, NodesFrame
  <1>5. Enabled(m, "release")'
    <2>1. Enabled(n, "release")
      BY DEF Inv
    <2>2. CASE n # 4
      <3>1. n >= 4 <=> m >= 4
        BY <2>2
      <3> QED BY <1>1, <1>3, <2>1, <2>2, <3>1, EnabledFrame
    <2>3. CASE n = 4
      <3>1. dev.enabled \in Int /\ dev'.enabled \in Int /\ probes \in Nat
        BY DEF Typed, Devices
      <3>2. Base(m)' = dev'.enabled
        BY <2>3, <3>1 DEF Base
      <3>3. ~At("core", "slot_reset")'
        BY <1>3, Away DEF At, Idle
      <3>4. /\ Base(n) > 0 => "request_regions" \in seen
            /\ Base(n) < 0 => "remove_frozen" \in seen
            /\ -(probes - 1) <= Base(n) /\ Base(n) <= probes - 1
            /\ aer # "normal" => "remove_frozen" \in seen
        BY <2>1, <2>3 DEF Enabled
      <3>5. dev.regions = "in_use" => "request_regions" \in seen
        BY <2>3 DEF Inv, Held, SameNodes
      <3>6. Base(n) = IF aer = "normal" THEN dev.enabled - 1 ELSE dev.enabled
        BY <2>3, <3>1 DEF Base
      <3>7. dev'.enabled = IF dev.regions = "in_use" THEN dev.enabled ELSE dev.enabled - 1
        BY <2>3
      <3>8. /\ dev'.enabled > 0 => "request_regions" \in seen
            /\ dev'.enabled < 0 => "remove_frozen" \in seen
            /\ -probes <= dev'.enabled /\ dev'.enabled <= probes
        <4> DEFINE b == Base(n)
        <4> HIDE DEF b
        <4> QED BY <3>1, <3>4, <3>5, <3>6, <3>7 DEF b
      <3> QED BY <2>3, <3>2, <3>3, <3>8 DEF Enabled
    <2> QED BY <2>2, <2>3
  <1>6. Threads(m, "release")'
    <2>1. Threads(n, "release")
      BY DEF Inv
    <2>2. CASE n # 3
      <3>1. n >= 3 <=> m >= 3
        BY <2>2
      <3> QED BY <1>1, <2>1, <2>2, <3>1, ThreadsFrame
    <2>3. CASE n = 3
      <3>1. NumThreads \in Nat /\ dev.threads \in Int /\ dev'.threads \in Int /\ probes \in Nat
        BY DeviceAssumption DEF NumThreads, Typed, Devices
      <3>2. Left(m)' = Left(n) /\ Left(n) \in Int
        BY <2>3, <3>1 DEF Left
      <3>3. /\ (probes - 1) * NumThreads + NumThreads = probes * NumThreads
            /\ (probes - 1) * NumThreads \in Int /\ probes <= probes
        BY <3>1, Product
      <3>4. Left(n) <= (probes - 1) * NumThreads
        BY <2>1, <2>3 DEF Threads
      <3>5. Left(n) <= probes * NumThreads
        BY <3>1, <3>2, <3>3, <3>4
      <3> QED BY <2>1, <2>3, <3>2, <3>5 DEF Threads
    <2> QED BY <2>2, <2>3
  <1> QED BY <1>1, <1>2, <1>3, <1>4, <1>5, <1>6, LowStep DEF SameCycle, StillMasked

\* disable_msi_msix
LEMMA DisableMsi ==
    ASSUME Typed, NEW n \in 0 .. 13, NEW c \in Phases, Inv(n, c), disable_msi_msix("core")
    PROVE  IInv'
  <1>1. /\ c = "release" /\ n = 10 /\ ~Idle("core")
        /\ Where(Tail(todo["core"]), 9, "release", poll_mode)
    <2>1. ~Idle("core") /\ Head(todo["core"]) = "disable_msi_msix"
      BY DEF disable_msi_msix, At
    <2>2. Row(todo["core"], n, c, poll_mode)
      BY <2>1, CoreRow
    <2> QED BY <2>1, <2>2, ReleaseAt
  <1>2. "core" \in Actors /\ n \in 3 .. 10
    BY <1>1 DEF Actors
  <1> DEFINE d == [dev EXCEPT !.msix = "legacy"]
  <1>3. d \in Devices
    BY DEF Typed, Devices
  <1>4. Succeed("core", d)
    BY DEF disable_msi_msix
  <1> HIDE DEF d
  <1>5. /\ Typed' /\ dev' = d /\ Moves("core", Tail(todo["core"])) /\ seen' = seen
        /\ poll_mode' = poll_mode /\ aer' = aer /\ probes' = probes /\ resets' = resets
    BY <1>1, <1>2, <1>3, <1>4, SucceedStep
  <1>6. /\ SameNodes /\ SameCycle /\ dev'.xpdev = dev.xpdev /\ dev'.work = dev.work
        /\ dev'.xdev = dev.xdev /\ dev'.listed = dev.listed
        /\ dev'.bars = dev.bars /\ dev'.regions = dev.regions
        /\ dev'.bound = dev.bound /\ dev'.h2c = dev.h2c /\ dev'.c2h = dev.c2h
        /\ dev'.msix = "legacy" /\ dev'.enabled = dev.enabled
        /\ dev'.threads = dev.threads /\ dev'.irq = dev.irq
    BY <1>5 DEF d, Typed, Devices, SameNodes, SameCycle
  <1>7. Held(9, "release")'
    BY <1>1, <1>5, <1>6 DEF Inv, Held, SameNodes
  <1> QED BY <1>1, <1>2, <1>5, <1>6, <1>7, ReleaseDown

\* unmap_bars
LEMMA UnmapBars ==
    ASSUME Typed, NEW n \in 0 .. 13, NEW c \in Phases, Inv(n, c), unmap_bars("core")
    PROVE  IInv'
  <1>1. /\ c = "release" /\ n = 6 /\ ~Idle("core")
        /\ Where(Tail(todo["core"]), 5, "release", poll_mode)
    <2>1. ~Idle("core") /\ Head(todo["core"]) = "unmap_bars"
      BY DEF unmap_bars, At
    <2>2. Row(todo["core"], n, c, poll_mode)
      BY <2>1, CoreRow
    <2> QED BY <2>1, <2>2, ReleaseAt
  <1>2. "core" \in Actors /\ n \in 3 .. 10
    BY <1>1 DEF Actors
  <1> DEFINE d == [dev EXCEPT !.bars = FALSE]
  <1>3. d \in Devices
    BY DEF Typed, Devices
  <1>4. Succeed("core", d)
    BY DEF unmap_bars
  <1> HIDE DEF d
  <1>5. /\ Typed' /\ dev' = d /\ Moves("core", Tail(todo["core"])) /\ seen' = seen
        /\ poll_mode' = poll_mode /\ aer' = aer /\ probes' = probes /\ resets' = resets
    BY <1>1, <1>2, <1>3, <1>4, SucceedStep
  <1>6. /\ SameNodes /\ SameCycle /\ dev'.xpdev = dev.xpdev /\ dev'.work = dev.work
        /\ dev'.xdev = dev.xdev /\ dev'.listed = dev.listed
        /\ dev'.bars = FALSE /\ dev'.regions = dev.regions
        /\ dev'.bound = dev.bound /\ dev'.h2c = dev.h2c /\ dev'.c2h = dev.c2h
        /\ dev'.msix = dev.msix /\ dev'.enabled = dev.enabled
        /\ dev'.threads = dev.threads /\ dev'.irq = dev.irq
    BY <1>5 DEF d, Typed, Devices, SameNodes, SameCycle
  <1>7. Held(5, "release")'
    BY <1>1, <1>5, <1>6 DEF Inv, Held, SameNodes
  <1> QED BY <1>1, <1>2, <1>5, <1>6, <1>7, ReleaseDown

\* release_regions
LEMMA ReleaseRegions ==
    ASSUME Typed, NEW n \in 0 .. 13, NEW c \in Phases, Inv(n, c), release_regions("core")
    PROVE  IInv'
  <1>1. /\ c = "release" /\ n = 5 /\ ~Idle("core")
        /\ Where(Tail(todo["core"]), 4, "release", poll_mode)
    <2>1. ~Idle("core") /\ Head(todo["core"]) = "release_regions"
      BY DEF release_regions, At
    <2>2. Row(todo["core"], n, c, poll_mode)
      BY <2>1, CoreRow
    <2> QED BY <2>1, <2>2, ReleaseAt
  <1>2. "core" \in Actors /\ n \in 3 .. 10
    BY <1>1 DEF Actors
  <1> DEFINE d == [dev EXCEPT !.regions = IF @ = "got" THEN "none" ELSE @]
  <1>3. d \in Devices
    BY DEF Typed, Devices
  <1>4. Succeed("core", d)
    BY DEF release_regions
  <1> HIDE DEF d
  <1>5. /\ Typed' /\ dev' = d /\ Moves("core", Tail(todo["core"])) /\ seen' = seen
        /\ poll_mode' = poll_mode /\ aer' = aer /\ probes' = probes /\ resets' = resets
    BY <1>1, <1>2, <1>3, <1>4, SucceedStep
  <1>6. /\ SameNodes /\ SameCycle /\ dev'.xpdev = dev.xpdev /\ dev'.work = dev.work
        /\ dev'.xdev = dev.xdev /\ dev'.listed = dev.listed
        /\ dev'.bars = dev.bars
        /\ dev'.regions = IF dev.regions = "got" THEN "none" ELSE dev.regions
        /\ dev'.bound = dev.bound /\ dev'.h2c = dev.h2c /\ dev'.c2h = dev.c2h
        /\ dev'.msix = dev.msix /\ dev'.enabled = dev.enabled
        /\ dev'.threads = dev.threads /\ dev'.irq = dev.irq
    BY <1>5 DEF d, Typed, Devices, SameNodes, SameCycle
  <1>7. Held(4, "release")'
    BY <1>1, <1>5, <1>6 DEF Inv, Held, SameNodes
  <1> QED BY <1>1, <1>2, <1>5, <1>6, <1>7, ReleaseDown

\* disable_device: not of a device whose regions are in use.
LEMMA DisableDevice ==
    ASSUME Typed, NEW n \in 0 .. 13, NEW c \in Phases, Inv(n, c), disable_device("core")
    PROVE  IInv'
  <1>1. /\ c = "release" /\ n = 4 /\ ~Idle("core")
        /\ Where(Tail(todo["core"]), 3, "release", poll_mode)
    <2>1. ~Idle("core") /\ Head(todo["core"]) = "disable_device"
      BY DEF disable_device, At
    <2>2. Row(todo["core"], n, c, poll_mode)
      BY <2>1, CoreRow
    <2> QED BY <2>1, <2>2, ReleaseAt
  <1>2. "core" \in Actors /\ n \in 3 .. 10
    BY <1>1 DEF Actors
  <1> DEFINE d == [dev EXCEPT !.enabled = IF dev.regions = "in_use" THEN @ ELSE @ - 1]
  <1>3. d \in Devices
    <2>1. (IF dev.regions = "in_use" THEN dev.enabled ELSE dev.enabled - 1) \in Int /\ dev \in Devices
      BY DEF Typed, Devices
    <2> QED BY <2>1 DEF Devices
  <1>4. Succeed("core", d)
    BY DEF disable_device
  <1> HIDE DEF d
  <1>5. /\ Typed' /\ dev' = d /\ Moves("core", Tail(todo["core"])) /\ seen' = seen
        /\ poll_mode' = poll_mode /\ aer' = aer /\ probes' = probes /\ resets' = resets
    BY <1>1, <1>2, <1>3, <1>4, SucceedStep
  <1>6. /\ SameNodes /\ SameCycle /\ dev'.xpdev = dev.xpdev /\ dev'.work = dev.work
        /\ dev'.xdev = dev.xdev /\ dev'.listed = dev.listed
        /\ dev'.bars = dev.bars /\ dev'.regions = dev.regions
        /\ dev'.bound = dev.bound /\ dev'.h2c = dev.h2c /\ dev'.c2h = dev.c2h
        /\ dev'.msix = dev.msix
        /\ dev'.enabled = (IF dev.regions = "in_use" THEN dev.enabled ELSE dev.enabled - 1)
        /\ dev'.threads = dev.threads /\ dev'.irq = dev.irq
    BY <1>5 DEF d, Typed, Devices, SameNodes, SameCycle
  <1>7. Held(3, "release")'
    BY <1>1, <1>5, <1>6 DEF Inv, Held, SameNodes
  <1> QED BY <1>1, <1>2, <1>5, <1>6, <1>7, ReleaseDown

\* xdev_list_remove: the last device stops the polling threads.
LEMMA XdevListRemove ==
    ASSUME Typed, NEW n \in 0 .. 13, NEW c \in Phases, Inv(n, c), xdev_list_remove("core")
    PROVE  IInv'
  <1>1. /\ c = "release" /\ n = 3 /\ ~Idle("core")
        /\ Where(Tail(todo["core"]), 2, "release", poll_mode)
    <2>1. ~Idle("core") /\ Head(todo["core"]) = "xdev_list_remove"
      BY DEF xdev_list_remove, At
    <2>2. Row(todo["core"], n, c, poll_mode)
      BY <2>1, CoreRow
    <2> QED BY <2>1, <2>2, ReleaseAt
  <1>2. "core" \in Actors /\ n \in 3 .. 10
    BY <1>1 DEF Actors
  <1> DEFINE d == IF poll_mode THEN xdma_threads_destroy([dev EXCEPT !.listed = FALSE])
                  ELSE [dev EXCEPT !.listed = FALSE]
  <1>3. d \in Devices
    <2>1. dev.threads - NumThreads \in Int /\ dev \in Devices
      BY DeviceAssumption DEF Typed, Devices, NumThreads
    <2> HIDE DEF NumThreads
    <2> QED BY <2>1, ZenonT(60) DEF Devices, xdma_threads_destroy
  <1>4. Succeed("core", d)
    BY DEF xdev_list_remove
  <1> HIDE DEF d
  <1>5. /\ Typed' /\ dev' = d /\ Moves("core", Tail(todo["core"])) /\ seen' = seen
        /\ poll_mode' = poll_mode /\ aer' = aer /\ probes' = probes /\ resets' = resets
    BY <1>1, <1>2, <1>3, <1>4, SucceedStep
  <1>6. /\ SameNodes /\ SameCycle /\ dev'.xpdev = dev.xpdev /\ dev'.work = dev.work
        /\ dev'.xdev = dev.xdev /\ dev'.listed = FALSE /\ dev'.bars = dev.bars
        /\ dev'.regions = dev.regions /\ dev'.bound = dev.bound
        /\ dev'.h2c = dev.h2c /\ dev'.c2h = dev.c2h /\ dev'.msix = dev.msix
        /\ dev'.enabled = dev.enabled
        /\ dev'.threads = (IF poll_mode THEN dev.threads - NumThreads ELSE dev.threads)
        /\ dev'.irq = dev.irq
    BY <1>5 DEF d, Typed, Devices, SameNodes, SameCycle, xdma_threads_destroy
  <1>7. Held(2, "release")'
    BY <1>1, <1>5, <1>6 DEF Inv, Held, SameNodes
  <1> QED BY <1>1, <1>2, <1>5, <1>6, <1>7, ReleaseDown

\* The interrupt lines of the channels of a device.
LEMMA ChannelSet ==
    ASSUME NEW d, d.h2c \in 0 .. ChannelMax, d.c2h \in 0 .. ChannelMax
    PROVE  Channels(d) = ({"h2c"} \X (0 .. d.h2c - 1)) \cup ({"c2h"} \X (0 .. d.c2h - 1))
  <1> DEFINE h == d.h2c
             k == d.c2h
             L == [i \in 1 .. h + k |-> IF i <= h THEN <<"h2c", i - 1>> ELSE <<"c2h", i - 1 - h>>]
  <1>1. h \in Nat /\ k \in Nat
    BY DeviceAssumption
  <1>2. Channels(d) = {L[i] : i \in 1 .. h + k}
    BY DEF Channels, ChannelLines
  <1> HIDE DEF h, k
  <1>3. ASSUME NEW i \in 1 .. h + k
        PROVE  L[i] \in ({"h2c"} \X (0 .. h - 1)) \cup ({"c2h"} \X (0 .. k - 1))
    <2>1. CASE i <= h
      <3>1. L[i] = <<"h2c", i - 1>> /\ i - 1 \in 0 .. h - 1
        BY <1>1, <2>1
      <3> QED BY <3>1
    <2>2. CASE ~(i <= h)
      <3>1. L[i] = <<"c2h", i - 1 - h>> /\ i - 1 - h \in 0 .. k - 1
        BY <1>1, <2>2
      <3> QED BY <3>1
    <2> QED BY <2>1, <2>2
  <1>4. ASSUME NEW j \in 0 .. h - 1 PROVE \E i \in 1 .. h + k : L[i] = <<"h2c", j>>
    <2>1. j + 1 \in 1 .. h + k /\ j + 1 <= h /\ (j + 1) - 1 = j
      BY <1>1
    <2>2. L[j + 1] = <<"h2c", j>>
      BY <2>1
    <2> QED BY <2>1, <2>2
  <1>5. ASSUME NEW j \in 0 .. k - 1 PROVE \E i \in 1 .. h + k : L[i] = <<"c2h", j>>
    <2> DEFINE i == h + (j + 1)
    <2>1. i \in 1 .. h + k /\ ~(i <= h) /\ i - 1 - h = j
      BY <1>1
    <2> HIDE DEF i
    <2>2. L[i] = <<"c2h", j>>
      BY <2>1
    <2> QED BY <2>1, <2>2
  <1> HIDE DEF L
  <1>6. ASSUME NEW l \in ({"h2c"} \X (0 .. h - 1)) \cup ({"c2h"} \X (0 .. k - 1))
        PROVE  l \in {L[i] : i \in 1 .. h + k}
    <2>1. CASE l \in {"h2c"} \X (0 .. h - 1)
      <3>1. PICK j \in 0 .. h - 1 : l = <<"h2c", j>>
        BY <2>1
      <3> QED BY <1>4, <3>1
    <2>2. CASE l \in {"c2h"} \X (0 .. k - 1)
      <3>1. PICK j \in 0 .. k - 1 : l = <<"c2h", j>>
        BY <2>2
      <3> QED BY <1>5, <3>1
    <2> QED BY <2>1, <2>2
  <1>7. Channels(d) = ({"h2c"} \X (0 .. h - 1)) \cup ({"c2h"} \X (0 .. k - 1))
    BY <1>2, <1>3, <1>6
  <1> QED BY <1>7 DEF h, k

\* engine_destroy frees all of them.
LEMMA AllDestroyed ==
    ASSUME NEW d, d.h2c \in 0 .. ChannelMax, d.c2h \in 0 .. ChannelMax
    PROVE  /\ Cardinality({l \in Channels(d) : l[1] = "h2c"}) = d.h2c
           /\ Cardinality({l \in Channels(d) : l[1] = "c2h"}) = d.c2h
  <1> DEFINE H == {"h2c"} \X (0 .. d.h2c - 1)
             K == {"c2h"} \X (0 .. d.c2h - 1)
  <1>1. d.h2c \in Nat /\ d.c2h \in Nat
    BY DeviceAssumption
  <1>2. Channels(d) = H \cup K
    BY ChannelSet
  <1>3. (\A l \in H : l[1] = "h2c") /\ (\A l \in K : l[1] = "c2h")
    OBVIOUS
  <1>4. {l \in Channels(d) : l[1] = "h2c"} = H /\ {l \in Channels(d) : l[1] = "c2h"} = K
    <2> HIDE DEF H, K
    <2> QED BY <1>2, <1>3
  <1>5. ASSUME NEW j \in Nat, NEW x
        PROVE  Cardinality({x} \X (0 .. j - 1)) = j
    <2>1. IsFiniteSet(0 .. j - 1) /\ Cardinality(0 .. j - 1) = j
      <3>1. 0 \in Int /\ j - 1 \in Int
        OBVIOUS
      <3>2. /\ IsFiniteSet(0 .. j - 1)
            /\ Cardinality(0 .. j - 1) = IF 0 > j - 1 THEN 0 ELSE (j - 1) - 0 + 1
        BY <3>1, FS_Interval
      <3> QED BY <3>2
    <2>2. IsFiniteSet({x}) /\ Cardinality({x}) = 1
      BY FS_Singleton
    <2>3. Cardinality({x} \X (0 .. j - 1)) = Cardinality({x}) * Cardinality(0 .. j - 1)
      <3> DEFINE S == {x}
                 T == 0 .. j - 1
      <3>1. IsFiniteSet(S) /\ IsFiniteSet(T)
        BY <2>1, <2>2
      <3> HIDE DEF S, T
      <3>2. Cardinality(S \X T) = Cardinality(S) * Cardinality(T)
        BY <3>1, FS_Product
      <3> QED BY <3>2 DEF S, T
    <2> QED BY <2>1, <2>2, <2>3
  <1>6. Cardinality(H) = d.h2c /\ Cardinality(K) = d.c2h
    BY <1>1, <1>5
  <1> QED BY <1>4, <1>6

\* remove_engines
LEMMA RemoveEngines ==
    ASSUME Typed, NEW n \in 0 .. 13, NEW c \in Phases, Inv(n, c), remove_engines("core")
    PROVE  IInv'
  <1>1. /\ c = "release" /\ n = 9 /\ ~Idle("core")
        /\ Where(Tail(todo["core"]), 6, "release", poll_mode)
    <2>1. ~Idle("core") /\ Head(todo["core"]) = "remove_engines"
      BY DEF remove_engines, At
    <2>2. Row(todo["core"], n, c, poll_mode)
      BY <2>1, CoreRow
    <2> QED BY <2>1, <2>2, ReleaseAt
  <1>2. "core" \in Actors /\ n \in 3 .. 10
    BY <1>1 DEF Actors
  <1> DEFINE d == engine_destroy(dev, Channels(dev))
  <1>8. d = [dev EXCEPT !.h2c = 0, !.c2h = 0, !.lines = @ \ Channels(dev), !.work = FALSE]
    <2>1. dev \in Devices /\ dev.h2c \in 0 .. ChannelMax /\ dev.c2h \in 0 .. ChannelMax
      BY DEF Typed, Devices
    <2>3. /\ Cardinality({l \in Channels(dev) : l[1] = "h2c"}) = dev.h2c
          /\ Cardinality({l \in Channels(dev) : l[1] = "c2h"}) = dev.c2h
      BY <2>1, AllDestroyed
    <2>4. dev.h2c - dev.h2c = 0 /\ dev.c2h - dev.c2h = 0
      BY <2>1, DeviceAssumption
    <2>2. /\ dev.h2c - Cardinality({l \in Channels(dev) : l[1] = "h2c"}) = 0
          /\ dev.c2h - Cardinality({l \in Channels(dev) : l[1] = "c2h"}) = 0
      BY <2>3, <2>4
    <2> QED BY <2>1, <2>2 DEF engine_destroy, Devices
  <1>3. d \in Devices
    <2> HIDE DEF d
    <2>1. dev \in Devices /\ 0 \in 0 .. ChannelMax /\ dev.lines \ Channels(dev) \in SUBSET Lines
      BY DeviceAssumption DEF Typed, Devices
    <2> QED BY <1>8, <2>1 DEF Devices
  <1>4. Succeed("core", d)
    BY DEF remove_engines
  <1> HIDE DEF d
  <1>5. /\ Typed' /\ dev' = d /\ Moves("core", Tail(todo["core"])) /\ seen' = seen
        /\ poll_mode' = poll_mode /\ aer' = aer /\ probes' = probes /\ resets' = resets
    BY <1>1, <1>2, <1>3, <1>4, SucceedStep
  <1>6. /\ SameNodes /\ SameCycle /\ dev'.xpdev = dev.xpdev
        /\ dev'.xdev = dev.xdev /\ dev'.listed = dev.listed
        /\ dev'.bars = dev.bars /\ dev'.regions = dev.regions
        /\ dev'.bound = dev.bound /\ dev'.h2c = 0 /\ dev'.c2h = 0 /\ dev'.work = FALSE
        /\ dev'.msix = dev.msix /\ dev'.enabled = dev.enabled
        /\ dev'.threads = dev.threads /\ dev'.irq = dev.irq
    BY <1>5, <1>8 DEF Typed, Devices, SameNodes, SameCycle
  <1>7. Held(6, "release")'
    BY <1>1, <1>5, <1>6 DEF Inv, Held, SameNodes
  <1> QED BY <1>1, <1>2, <1>5, <1>6, <1>7, ReleaseDown

\* free_xdev: nobody can use the device any more.
LEMMA FreeXdev ==
    ASSUME Typed, NEW n \in 0 .. 13, NEW c \in Phases, Inv(n, c), free_xdev("core")
    PROVE  IInv'
  <1>1. /\ c = "release" /\ n = 2 /\ ~Idle("core")
        /\ Where(Tail(todo["core"]), 1, "release", poll_mode)
    <2>1. ~Idle("core") /\ Head(todo["core"]) = "free_xdev"
      BY DEF free_xdev, At
    <2>2. Row(todo["core"], n, c, poll_mode)
      BY <2>1, CoreRow
    <2> QED BY <2>1, <2>2, ReleaseAt
  <1> DEFINE d == [dev EXCEPT !.xdev = FALSE, !.offline = FALSE, !.shutdown = FALSE,
                              !.regions = "none", !.lines = {}, !.event = 0]
  <1>2. d \in Devices
    <2>1. dev \in Devices /\ {} \in SUBSET Lines /\ 0 \in 0 .. 1
      BY DEF Typed
    <2> QED BY <2>1 DEF Devices
  <1>3. dev' = d /\ seen' = seen /\ UNCHANGED <<poll_mode, aer, probes, resets>>
    BY DEF free_xdev
  <1>4. /\ todo'["core"] = Tail(todo["core"]) /\ todo'["ioctl"] = <<>>
        /\ todo' \in [Actors -> Seq(Steps)]
    <2>1. todo \in [Actors -> Seq(Steps)] /\ todo["core"] # <<>>
      BY <1>1 DEF Typed, Idle
    <2>2. Tail(todo["core"]) \in Seq(Steps) /\ <<>> \in Seq(Steps)
      BY <2>1, HeadTailProperties DEF Actors
    <2>3. todo' = [todo EXCEPT !["core"] = Tail(@), !["ioctl"] = <<>>]
      BY DEF free_xdev
    <2> QED BY <2>1, <2>2, <2>3 DEF Actors
  <1>5. Typed'
    <2> HIDE DEF d
    <2>1. reader' = "out" /\ raised' = FALSE
      BY DEF free_xdev
    <2> QED BY <1>2, <1>3, <1>4, <2>1 DEF Typed
  <1>6. /\ SameNodes /\ SameCounts /\ SameEngines
        /\ dev'.xpdev = dev.xpdev /\ dev'.xdev = FALSE /\ dev'.listed = dev.listed
        /\ dev'.bars = dev.bars /\ dev'.regions = "none" /\ dev'.bound = dev.bound
        /\ dev'.irq = dev.irq /\ dev'.unmasked = dev.unmasked /\ dev'.shutdown = FALSE
    BY <1>3 DEF Typed, Devices, SameNodes, SameCounts, SameEngines
  <1> HIDE DEF d
  <1>7. Held(1, "release")'
    BY <1>1, <1>3, <1>6 DEF Inv, Held, SameEngines, SameNodes
  <1>8. Nodes(n, c) /\ Enabled(n, c) /\ Threads(n, c)
    BY DEF Inv
  <1>9. Where(todo'["core"], 1, "release", poll_mode')
    BY <1>1, <1>3, <1>4
  <1>10. Nodes(1, "release")'
    BY <1>1, <1>3, <1>6, <1>8, NodesFrame DEF Present
  <1>11. Enabled(1, "release")'
    BY <1>1, <1>3, <1>5, <1>6, <1>8, <1>9, EnabledFrame DEF SameCounts
  <1>12. Threads(1, "release")'
    BY <1>1, <1>3, <1>5, <1>6, <1>8, ThreadsFrame DEF SameCounts
  <1>13. n \in 0 .. 10 /\ 1 \in 0 .. 10
    BY <1>1
  <1> QED BY <1>1, <1>3, <1>4, <1>5, <1>6, <1>7, <1>9, <1>10, <1>11, <1>12, <1>13, LowStep
             DEF SameEngines, StillMasked

\* A step without struct xdma_dev: no ioctl runs, and probe has still to begin
\* or has come to its end.
LEMMA GroundStep ==
    ASSUME Typed, NEW n \in 0 .. 1, NEW c \in Phases, Inv(n, c), Typed', NEW s, Moves("core", s),
           NEW m \in 0 .. 1, NEW e \in {"idle", "load", "release", "exit"},
           Where(s, m, e, poll_mode), e = "release" => c = "release",
           seen \subseteq seen', poll_mode' = poll_mode, aer' = aer, probes' = probes,
           resets' = resets, SameCounts, SameIrq, SameCycle,
           Held(m, e)', Nodes(m, e)'
    PROVE  IInv'
  <1>1. /\ n \in 0 .. 10 /\ m \in 0 .. 10 /\ n \in 0 .. 13 /\ m \in 0 .. 13 /\ e \in Phases
        /\ ~(n >= 4) /\ ~(m >= 4) /\ ~(n >= 3) /\ ~(m >= 3)
    BY DEF Phases
  <1>2. todo'["core"] = s /\ todo'["ioctl"] = <<>>
    BY DEF Moves, Actors, Inv, Ioctls
  <1>3. Where(todo'["core"], m, e, poll_mode') /\ c # "cycle" /\ e # "cycle"
    BY <1>2 DEF Inv, Where
  <1>4. Enabled(n, c) /\ Threads(n, c) /\ Cycled(n, c)
    BY DEF Inv
  <1>5. Enabled(m, e)'
    BY <1>1, <1>3, <1>4, EnabledFrame DEF SameCounts
  <1>6. Threads(m, e)'
    BY <1>1, <1>4, ThreadsFrame DEF SameCounts
  <1>7. ~dev'.shutdown
    BY <1>4 DEF Cycled, SameCycle
  <1> QED BY <1>1, <1>2, <1>3, <1>5, <1>6, <1>7, LowStep
             DEF SameCycle, SameIrq, StillMasked

\* free_xpdev
LEMMA FreeXpdev ==
    ASSUME Typed, NEW n \in 0 .. 13, NEW c \in Phases, Inv(n, c), free_xpdev("core")
    PROVE  IInv'
  <1> DEFINE s == Tail(todo["core"])
  <1>1. /\ c = "release" /\ n = 1 /\ ~Idle("core")
        /\ s = <<>> \/ Where(s, 0, "exit", poll_mode)
    <2>1. ~Idle("core") /\ Head(todo["core"]) = "free_xpdev"
      BY DEF free_xpdev, At
    <2>2. Row(todo["core"], n, c, poll_mode)
      BY <2>1, CoreRow
    <2> QED BY <2>1, <2>2, ReleaseAt
  <1>2. PICK e \in {"idle", "exit"} : Where(s, 0, e, poll_mode)
    <2>1. s = <<>> => Where(s, 0, "idle", poll_mode)
      BY DEF Where
    <2> QED BY <1>1, <2>1
  <1> DEFINE d == [dev EXCEPT !.xpdev = FALSE, !.bound = FALSE, !.flags = {}, !.major = FALSE]
  <1>3. d \in Devices
    <2>1. dev \in Devices /\ {} \in SUBSET Groups
      BY DEF Typed
    <2> QED BY <2>1 DEF Devices
  <1>4. Succeed("core", d) /\ "core" \in Actors
    BY DEF free_xpdev, Actors
  <1> HIDE DEF d
  <1>5. /\ Typed' /\ dev' = d /\ Moves("core", s) /\ seen' = seen
        /\ poll_mode' = poll_mode /\ aer' = aer /\ probes' = probes /\ resets' = resets
    BY <1>1, <1>3, <1>4, SucceedStep
  <1>6. /\ SameCounts /\ SameIrq /\ SameCycle /\ SameEngines
        /\ dev'.xpdev = FALSE /\ dev'.bound = FALSE /\ dev'.xdev = dev.xdev
        /\ dev'.listed = dev.listed /\ dev'.bars = dev.bars /\ dev'.regions = dev.regions
        /\ dev'.nodes = dev.nodes /\ dev'.chrdev = dev.chrdev /\ dev'.flags = {}
    BY <1>5 DEF d, Typed, Devices, SameCounts, SameIrq, SameCycle, SameEngines
  <1>7. Held(0, e)'
    BY <1>1, <1>2, <1>5, <1>6 DEF Inv, Held, SameEngines
  <1>8. Nodes(0, e)'
    <2>1. Nodes(n, c) /\ ~Present(n, c)
      BY <1>1 DEF Inv, Present
    <2>2. ~dev'.chrdev
      BY <1>6, <2>1 DEF Nodes
    <2>3. \A g \in Groups : dev'.nodes[g] > 0 => g \in {"events", "sg", "bypass"} \cap seen'
      BY <1>5, <1>6, <2>1 DEF Nodes
    <2>4. "sg" \in Groups
      BY DEF Groups
    <2> QED BY <2>2, <2>3, <2>4 DEF Nodes
  <1>9. n \in 0 .. 1 /\ 0 \in 0 .. 1 /\ seen \subseteq seen'
    BY <1>1, <1>5
  <1> HIDE DEF s
  <1> QED BY <1>2, <1>5, <1>6, <1>7, <1>8, <1>9, GroundStep

\* xpdev_destroy_interfaces of a device that was not opened.
LEMMA DestroyUnopened ==
    ASSUME Typed, NEW n \in 0 .. 13, NEW c \in Phases, Inv(n, c), c = "release",
           destroy_interfaces("core")
    PROVE  IInv'
  <1> DEFINE s == Tail(todo["core"])
  <1>1. n = 1 /\ ~Idle("core") /\ Where(s, 1, "release", poll_mode)
    <2>1. ~Idle("core") /\ Head(todo["core"]) = "destroy_interfaces"
      BY DEF destroy_interfaces, At
    <2>2. Row(todo["core"], n, c, poll_mode)
      BY <2>1, CoreRow
    <2> QED BY <2>1, <2>2, ReleaseAt
  <1>2. PICK d : /\ Succeed("core", d)
                 /\ d = [dev EXCEPT !.nodes = [g \in Groups |-> IF g \in dev.flags THEN 0
                                                               ELSE dev.nodes[g]],
                                    !.chrdev = IF dev.major THEN FALSE ELSE @]
    BY DEF destroy_interfaces
  <1>3. d \in Devices /\ "core" \in Actors
    <2>1. dev \in Devices /\ [g \in Groups |-> IF g \in dev.flags THEN 0 ELSE dev.nodes[g]]
                                \in [Groups -> 0 .. UserMax + 2 * ChannelMax + 1]
      BY DeviceAssumption DEF Typed, Devices
    <2> QED BY <1>2, <2>1, ZenonT(60) DEF Devices, Actors
  <1>4. /\ Typed' /\ dev' = d /\ Moves("core", s) /\ seen' = seen
        /\ poll_mode' = poll_mode /\ aer' = aer /\ probes' = probes /\ resets' = resets
    BY <1>1, <1>2, <1>3, SucceedStep
  <1>5. /\ SameCounts /\ SameIrq /\ SameCycle /\ SameEngines /\ SameOwned
        /\ dev'.nodes = [g \in Groups |-> IF g \in dev.flags THEN 0 ELSE dev.nodes[g]]
        /\ dev'.chrdev = IF dev.major THEN FALSE ELSE dev.chrdev
    <2> DEFINE N == [g \in Groups |-> IF g \in dev.flags THEN 0 ELSE dev.nodes[g]]
               C == IF dev.major THEN FALSE ELSE dev.chrdev
    <2>1. dev \in Devices /\ dev' = [dev EXCEPT !.nodes = N, !.chrdev = C]
      BY <1>2, <1>4 DEF Typed
    <2> HIDE DEF N, C
    <2>2. dev'.nodes = N /\ dev'.chrdev = C
      BY <2>1 DEF Devices
    <2>3. SameCounts /\ SameIrq /\ SameCycle /\ SameEngines /\ SameOwned
      BY <2>1 DEF Devices, SameCounts, SameIrq, SameCycle, SameEngines, SameOwned
    <2> QED BY <2>2, <2>3 DEF N, C
  <1>6. Held(1, "release")'
    BY <1>1, <1>4, <1>5 DEF Inv, Held, SameEngines, SameOwned
  <1>7. Nodes(1, "release")'
    <2>1. Nodes(n, c) /\ ~Present(n, c)
      BY <1>1 DEF Inv, Present
    <2>2. ~dev'.chrdev
      BY <1>5, <2>1 DEF Nodes
    <2>3. \A g \in Groups : dev'.nodes[g] > 0 => g \in {"events", "sg", "bypass"} \cap seen'
      BY <1>4, <1>5, <2>1 DEF Nodes
    <2>4. "sg" \in Groups
      BY DEF Groups
    <2> QED BY <2>2, <2>3, <2>4 DEF Nodes
  <1>8. n \in 0 .. 1 /\ 1 \in 0 .. 1 /\ seen \subseteq seen'
    BY <1>1, <1>4
  <1> HIDE DEF s
  <1> QED BY <1>1, <1>4, <1>5, <1>6, <1>7, <1>8, GroundStep

\* module_init, step by step: a failure leaves what it has made.
LEMMA ModuleStep ==
    ASSUME Typed, NEW n \in 0 .. 13, NEW c \in Phases, Inv(n, c), Module("core")
    PROVE  IInv'
  <1>1. /\ ~Idle("core") /\ n = 0 /\ c \in {"load", "exit"}
        /\ Where(Tail(todo["core"]), 0, "load", poll_mode) \/ Tail(todo["core"]) = <<>>
    <2>1. /\ ~Idle("core")
          /\ Head(todo["core"]) \in {"class_create", "cache_create", "register_driver",
                                     "cdev_cleanup"}
      BY DEF Module, class_create, cache_create, register_driver, xdma_cdev_cleanup, At
    <2>2. Row(todo["core"], n, c, poll_mode)
      BY <2>1, CoreRow
    <2>3. c \in {"load", "exit"}
      <3>1. CASE c = "release"
        BY <2>1, <2>2, <3>1 DEF Row, ReleaseStep
      <3>2. CASE c = "cycle"
        BY <2>1, <2>2, <3>2 DEF Row, Downward, Upward
      <3>3. CASE c \notin {"release", "cycle"}
        BY <2>1, <2>2, <3>3 DEF Row, Groups
      <3> QED BY <3>1, <3>2, <3>3
    <2> QED BY <2>1, <2>2, <2>3 DEF Row
  <1>2. ASSUME NEW s, Typed', Moves("core", s),
               s = <<>> \/ Where(s, 0, "load", poll_mode), seen \subseteq seen',
               poll_mode' = poll_mode, aer' = aer, probes' = probes, resets' = resets,
               SameCounts, SameIrq, SameCycle, SameEngines, SameOwned, SameNodes
        PROVE  IInv'
    <2>2. PICK e \in {"idle", "load"} : Where(s, 0, e, poll_mode)
      <3>1. s = <<>> => Where(s, 0, "idle", poll_mode)
        BY DEF Where
      <3> QED BY <1>2, <3>1
    <2>3. Held(0, e)'
      BY <1>1, <1>2, <2>2 DEF Inv, Held, SameEngines, SameOwned
    <2>4. Nodes(0, e)'
      <3>1. Nodes(n, c) /\ ~Present(n, c)
        BY <1>1 DEF Inv, Present
      <3> QED BY <1>2, <3>1, NodesFrame
    <2>5. n \in 0 .. 1 /\ 0 \in 0 .. 1
      BY <1>1
    <2> QED BY <1>2, <2>2, <2>3, <2>4, <2>5, GroundStep
  <1>3. "core" \in Actors /\ dev \in Devices /\ <<>> \in Seq(Steps)
    BY DEF Actors, Typed
  <1>4. ASSUME NEW x \in BOOLEAN, NEW y \in BOOLEAN, NEW z \in BOOLEAN, NEW d,
               d = [dev EXCEPT !.class = x, !.cache = y, !.driver = z],
               Succeed("core", d) \/ Fail("core", d, <<>>)
        PROVE  IInv'
    <2>1. d \in Devices
      BY <1>3, <1>4, ZenonT(60) DEF Devices
    <2>2. dev' = d => /\ SameCounts /\ SameIrq /\ SameCycle /\ SameEngines
                      /\ SameOwned /\ SameNodes
      BY <1>3, <1>4 DEF Devices, SameCounts, SameIrq, SameCycle, SameEngines, SameOwned,
                        SameNodes
    <2>3. CASE Succeed("core", d)
      <3> DEFINE s == Tail(todo["core"])
      <3>1. /\ Typed' /\ dev' = d /\ Moves("core", s) /\ seen' = seen
            /\ poll_mode' = poll_mode /\ aer' = aer /\ probes' = probes /\ resets' = resets
        BY <1>1, <1>3, <2>1, <2>3, SucceedStep
      <3>2. s = <<>> \/ Where(s, 0, "load", poll_mode)
        BY <1>1
      <3>3. seen \subseteq seen'
        BY <3>1
      <3> HIDE DEF s
      <3> QED BY <1>2, <2>2, <3>1, <3>2, <3>3
    <2>4. CASE Fail("core", d, <<>>)
      <3>1. /\ Typed' /\ dev' = d /\ Moves("core", <<>>)
            /\ seen' = seen \cup {Head(todo["core"])}
            /\ poll_mode' = poll_mode /\ aer' = aer /\ probes' = probes /\ resets' = resets
        BY <1>1, <1>3, <2>1, <2>4, FailStep
      <3>2. seen \subseteq seen'
        BY <3>1
      <3> QED BY <1>2, <2>2, <3>1, <3>2
    <2> QED BY <1>4, <2>3, <2>4
  <1>5. /\ dev.class \in BOOLEAN /\ dev.cache \in BOOLEAN /\ dev.driver \in BOOLEAN
        /\ dev = [dev EXCEPT !.class = dev.class, !.cache = dev.cache, !.driver = dev.driver]
    BY <1>3 DEF Devices
  <1>6. CASE class_create("core")
    <2>1. CASE Succeed("core", [dev EXCEPT !.class = TRUE])
      <3>1. [dev EXCEPT !.class = TRUE] =
              [dev EXCEPT !.class = TRUE, !.cache = dev.cache, !.driver = dev.driver]
        BY <1>3 DEF Devices
      <3> QED BY <1>4, <1>5, <2>1, <3>1
    <2>2. CASE todo' = [todo EXCEPT !["core"] = <<>>] /\ UNCHANGED <<dev, rest, seen>>
      <3>1. todo \in [Actors -> Seq(Steps)]
        BY DEF Typed
      <3>2. Moves("core", <<>>) /\ todo' \in [Actors -> Seq(Steps)]
        BY <1>3, <2>2, <3>1 DEF Moves
      <3>3. /\ dev' = dev /\ seen' = seen /\ poll_mode' = poll_mode /\ aer' = aer
            /\ probes' = probes /\ resets' = resets /\ raised' = raised /\ reader' = reader
        BY <2>2 DEF rest, user
      <3>4. Typed'
        BY <3>2, <3>3 DEF Typed
      <3>5. /\ seen \subseteq seen' /\ SameCounts /\ SameIrq /\ SameCycle /\ SameEngines
            /\ SameOwned /\ SameNodes
        BY <3>3 DEF SameCounts, SameIrq, SameCycle, SameEngines, SameOwned, SameNodes
      <3> QED BY <1>2, <3>2, <3>3, <3>4, <3>5
    <2> QED BY <1>6, <2>1, <2>2 DEF class_create
  <1>7. CASE cache_create("core")
    <2>1. [dev EXCEPT !.cache = TRUE] =
            [dev EXCEPT !.class = dev.class, !.cache = TRUE, !.driver = dev.driver]
      BY <1>3 DEF Devices
    <2> QED BY <1>4, <1>5, <1>7, <2>1 DEF cache_create
  <1>8. CASE register_driver("core")
    <2>1. [dev EXCEPT !.driver = TRUE] =
            [dev EXCEPT !.class = dev.class, !.cache = dev.cache, !.driver = TRUE]
      BY <1>3 DEF Devices
    <2> QED BY <1>4, <1>5, <1>8, <2>1 DEF register_driver
  <1>9. CASE xdma_cdev_cleanup("core")
    BY <1>4, <1>9 DEF xdma_cdev_cleanup
  <1> QED BY <1>6, <1>7, <1>8, <1>9 DEF Module

-----------------------------------------------------------------------------
(* Interrupt handlers *)

\* The lines a device needs are lines, and the shared one is not one of MSI-X.
LEMMA HandlerLines ==
    ASSUME NEW d \in Devices
    PROVE  /\ Handlers(d) \subseteq Lines /\ Channels(d) \subseteq Lines \ {Shared}
           /\ UserLines \subseteq Lines \ {Shared} /\ Shared \in Lines
           /\ d.msix = "msix" => Shared \notin Handlers(d)
           /\ d.msix # "msix" => Handlers(d) = {Shared}
  <1>1. d.h2c \in 0 .. ChannelMax /\ d.c2h \in 0 .. ChannelMax
    BY DEF Devices
  <1>2. Channels(d) = ({"h2c"} \X (0 .. d.h2c - 1)) \cup ({"c2h"} \X (0 .. d.c2h - 1))
    BY <1>1, ChannelSet
  <1>3. 0 .. d.h2c - 1 \subseteq 0 .. ChannelMax - 1 /\ 0 .. d.c2h - 1 \subseteq 0 .. ChannelMax - 1
    BY <1>1, DeviceAssumption
  <1>4. Channels(d) \subseteq {"h2c", "c2h"} \X (0 .. ChannelMax - 1)
    BY <1>2, <1>3
  <1>5. Shared \notin {"h2c", "c2h"} \X (0 .. ChannelMax - 1)
    BY DEF Shared
  <1>6. Shared \notin {"user"} \X (0 .. UserMax - 1)
    BY DEF Shared
  <1>7. Channels(d) \subseteq Lines \ {Shared} /\ UserLines \subseteq Lines \ {Shared}
    BY <1>4, <1>5, <1>6 DEF Lines, UserLines
  <1>8. Shared \in Lines
    BY DEF Shared, Lines
  <1> QED BY <1>7, <1>8 DEF Handlers, Shared

\* e is device d with other handlers, lines and vectors.
Rewired(d, e) ==
    /\ e.xpdev = d.xpdev /\ e.bound = d.bound /\ e.xdev = d.xdev /\ e.listed = d.listed
    /\ e.offline = d.offline /\ e.shutdown = d.shutdown /\ e.enabled = d.enabled
    /\ e.regions = d.regions /\ e.bars = d.bars /\ e.h2c = d.h2c /\ e.c2h = d.c2h
    /\ e.threads = d.threads /\ e.msix = d.msix /\ e.unmasked = d.unmasked
    /\ e.work = d.work
    /\ e.nodes = d.nodes /\ e.flags = d.flags /\ e.major = d.major /\ e.chrdev = d.chrdev

Rewire(d, q, L, V) == [d EXCEPT !.irq = q, !.lines = L, !.vectors = V]

\* Other handlers, lines and vectors leave the rest of the device as it is.
LEMMA Rewiring ==
    ASSUME NEW d \in Devices, NEW q \in [Lines -> Nat], NEW L \in SUBSET Lines,
           NEW V \in SUBSET Lines
    PROVE  /\ Rewire(d, q, L, V) \in Devices /\ Rewired(d, Rewire(d, q, L, V))
           /\ Rewire(d, q, L, V).irq = q /\ Rewire(d, q, L, V).lines = L
  BY DEF Devices, Rewired, Rewire

\* irq_setup that succeeds.
LEMMA SetupDone ==
    ASSUME NEW d \in Devices
    PROVE  /\ irq_setup(d) \in Devices /\ Rewired(d, irq_setup(d))
           /\ irq_setup(d).lines = d.lines \cup Handlers(d)
           /\ \A l \in Lines : irq_setup(d).irq[l] =
                                IF l \in Handlers(d) THEN d.irq[l] + 1 ELSE d.irq[l]
  <1> DEFINE H == Handlers(d)
             q == [l \in Lines |-> IF l \in H THEN d.irq[l] + 1 ELSE d.irq[l]]
             L == d.lines \cup H
             V == IF d.msix = "msix" THEN H ELSE d.vectors
             e == Rewire(d, q, L, V)
  <1>1. H \in SUBSET Lines /\ d.lines \in SUBSET Lines /\ d.vectors \in SUBSET Lines
    BY HandlerLines DEF Devices
  <1>2. q \in [Lines -> Nat]
    BY DEF Devices
  <1>3. L \in SUBSET Lines /\ V \in SUBSET Lines
    BY <1>1
  <1>4. irq_setup(d) = e
    <2> HIDE DEF H
    <2>1. Request(d, H) = [d EXCEPT !.irq = q, !.lines = L]
      BY DEF Request
    <2> HIDE DEF q, L
    <2>2. CASE d.msix = "msix"
      <3>1. prog_irq_msix(Request(d, H), H) = e
        BY <2>1, <2>2 DEF prog_irq_msix, Devices, Rewire
      <3> QED BY <2>2, <3>1 DEF irq_setup, H
    <2>3. CASE d.msix # "msix"
      <3>1. Request(d, H) = e
        BY <2>1, <2>3 DEF Devices, Rewire
      <3> QED BY <2>3, <3>1 DEF irq_setup, H
    <2> QED BY <2>2, <2>3
  <1>5. e \in Devices /\ Rewired(d, e) /\ e.irq = q /\ e.lines = L
    <2> HIDE DEF q, L, V
    <2> QED BY <1>2, <1>3, Rewiring
  <1> HIDE DEF e
  <1> QED BY <1>4, <1>5

\* irq_setup that fails has registered some of the handlers of channels.
LEMMA SetupFailed ==
    ASSUME NEW d \in Devices, NEW e \in irq_setup_failed(d)
    PROVE  /\ e \in Devices /\ Rewired(d, e) /\ d.lines \subseteq e.lines
           /\ e.irq[Shared] = d.irq[Shared]
           /\ \A l \in Lines : \/ e.irq[l] = d.irq[l]
                               \/ /\ d.irq[l] = 0 /\ e.irq[l] = 1
                                  /\ d.msix = "msix" /\ l \in Handlers(d)
  <1>1. Shared \in Lines /\ Channels(d) \subseteq Lines \ {Shared}
    BY HandlerLines
  <1>2. CASE d.msix # "msix"
    <2> DEFINE q == d.irq
               L == d.lines \cup {Shared}
               V == d.vectors
    <2>1. q \in [Lines -> Nat] /\ L \in SUBSET Lines /\ V \in SUBSET Lines
      BY <1>1 DEF Devices
    <2>2. e = [d EXCEPT !.lines = L]
      BY <1>2 DEF irq_setup_failed, Shared
    <2>3. e = Rewire(d, q, L, V)
      <3> HIDE DEF L
      <3> QED BY <2>2 DEF Devices, Rewire
    <2>4. e \in Devices /\ Rewired(d, e) /\ e.irq = q /\ e.lines = L
      <3> HIDE DEF q, L, V
      <3> QED BY <2>1, <2>3, Rewiring
    <2> QED BY <2>4
  <1>3. CASE d.msix = "msix"
    <2>1. PICK j \in 0 .. Len(ChannelLines(d)) :
             /\ \A i \in 1 .. j : d.irq[ChannelLines(d)[i]] = 0
             /\ e = Request(d, {ChannelLines(d)[i] : i \in 1 .. j})
      BY <1>3 DEF irq_setup_failed
    <2> DEFINE S == {ChannelLines(d)[i] : i \in 1 .. j}
               q == [l \in Lines |-> IF l \in S THEN d.irq[l] + 1 ELSE d.irq[l]]
               L == d.lines \cup S
               V == d.vectors
    <2>2. /\ d.h2c \in Nat /\ d.c2h \in Nat
          /\ DOMAIN ChannelLines(d) = 1 .. d.h2c + d.c2h
      BY DeviceAssumption DEF Devices, ChannelLines
    <2>3. Len(ChannelLines(d)) = d.h2c + d.c2h
      <3> DEFINE C == ChannelLines(d)
                 N == d.h2c + d.c2h
      <3>1. N \in Nat /\ DOMAIN C = 1 .. N
        BY <2>2
      <3> DEFINE T == {C[i] : i \in 1 .. N}
      <3>2. C = [i \in 1 .. N |-> C[i]]
        BY <3>1 DEF ChannelLines
      <3> HIDE DEF C, N
      <3>3. C \in [1 .. N -> T]
        BY <3>2
      <3> HIDE DEF T
      <3>4. C \in Seq(T) /\ Len(C) = N
        BY <3>1, <3>3, LenProperties
      <3> QED BY <3>4 DEF C, N
    <2>4. S \subseteq Channels(d)
      BY <2>1, <2>2, <2>3 DEF Channels
    <2>5. \A l \in S : d.irq[l] = 0
      BY <2>1
    <2>6. e = [d EXCEPT !.irq = q, !.lines = L]
      BY <2>1 DEF Request
    <2> HIDE DEF S
    <2>7. q \in [Lines -> Nat] /\ L \in SUBSET Lines /\ V \in SUBSET Lines
      BY <1>1, <2>4 DEF Devices
    <2>8. e = Rewire(d, q, L, V)
      <3> HIDE DEF L, q
      <3> QED BY <2>6 DEF Devices, Rewire
    <2>9. e \in Devices /\ Rewired(d, e) /\ e.irq = q /\ e.lines = L
      <3> HIDE DEF q, L, V
      <3> QED BY <2>7, <2>8, Rewiring
    <2>10. Shared \notin S
      BY <1>1, <2>4
    <2>11. \A l \in Lines : q[l] = d.irq[l] \/ (d.irq[l] = 0 /\ q[l] = 1 /\ l \in S)
      BY <2>5
    <2>12. S \subseteq Handlers(d)
      BY <1>3, <2>4 DEF Handlers
    <2> QED BY <1>1, <1>3, <2>9, <2>10, <2>11, <2>12
  <1> QED BY <1>2, <1>3

\* irq_teardown of a device with all its lines: every handler goes once.
LEMMA TornDown ==
    ASSUME NEW d \in Devices, Handlers(d) \subseteq d.lines
    PROVE  /\ irq_teardown(d) \in Devices /\ Rewired(d, irq_teardown(d))
           /\ irq_teardown(d).lines = d.lines
           /\ \A l \in Lines : irq_teardown(d).irq[l] =
                  IF l \in Handlers(d) /\ d.irq[l] > 0 THEN d.irq[l] - 1 ELSE d.irq[l]
  <1> DEFINE H == Handlers(d)
             q == [l \in Lines |-> IF l \in H /\ d.irq[l] > 0 THEN d.irq[l] - 1 ELSE d.irq[l]]
             L == d.lines
             V == IF d.msix = "msix" THEN {} ELSE d.vectors
             e == Rewire(d, q, L, V)
  <1>1. L \in SUBSET Lines /\ V \in SUBSET Lines /\ d.irq \in [Lines -> Nat]
    BY DEF Devices
  <1>2. q \in [Lines -> Nat]
    BY <1>1
  <1>3. ASSUME d.msix = "msix" PROVE irq_teardown(d) = e
    <2> DEFINE S == Leading(d, "h2c", d.h2c) \cup Leading(d, "c2h", d.c2h) \cup UserLines
    <2>1. /\ d.h2c \in 0 .. ChannelMax /\ d.c2h \in 0 .. ChannelMax
          /\ d.h2c \in Nat /\ d.c2h \in Nat
      BY DeviceAssumption DEF Devices
    <2>2. Channels(d) = ({"h2c"} \X (0 .. d.h2c - 1)) \cup ({"c2h"} \X (0 .. d.c2h - 1))
      BY <2>1, ChannelSet
    <2>3. Channels(d) \subseteq d.lines /\ H = Channels(d) \cup UserLines
      BY <1>3 DEF Handlers
    <2>4. Leading(d, "h2c", d.h2c) = {"h2c"} \X (0 .. d.h2c - 1)
      <3>1. \A j \in 0 .. d.h2c - 1 : \A k \in 0 .. j : <<"h2c", k>> \in d.lines
        BY <2>1, <2>2, <2>3
      <3>2. {j \in 0 .. d.h2c - 1 : \A k \in 0 .. j : <<"h2c", k>> \in d.lines} = 0 .. d.h2c - 1
        BY <3>1
      <3> QED BY <3>2 DEF Leading
    <2>5. Leading(d, "c2h", d.c2h) = {"c2h"} \X (0 .. d.c2h - 1)
      <3>1. \A j \in 0 .. d.c2h - 1 : \A k \in 0 .. j : <<"c2h", k>> \in d.lines
        BY <2>1, <2>2, <2>3
      <3>2. {j \in 0 .. d.c2h - 1 : \A k \in 0 .. j : <<"c2h", k>> \in d.lines} = 0 .. d.c2h - 1
        BY <3>1
      <3> QED BY <3>2 DEF Leading
    <2>6. S = H
      BY <2>2, <2>3, <2>4, <2>5
    <2>7. irq_teardown(d) = prog_irq_msix(Free(d, H), {})
      BY <1>3, <2>6 DEF irq_teardown
    <2>8. Free(d, H) = [d EXCEPT !.irq = q]
      <3> HIDE DEF H
      <3> QED BY DEF Free
    <2>9. prog_irq_msix(Free(d, H), {}) = e
      <3> HIDE DEF H, q
      <3> QED BY <1>3, <2>8 DEF prog_irq_msix, Rewire, Devices
    <2> QED BY <2>7, <2>9
  <1>4. ASSUME d.msix # "msix" PROVE irq_teardown(d) = e
    <2>1. H = {<<"dev", 0>>} /\ {<<"dev", 0>>} \cap d.lines = H
      BY <1>4 DEF Handlers
    <2>2. irq_teardown(d) = Free(d, H)
      BY <1>4, <2>1 DEF irq_teardown
    <2>3. Free(d, H) = [d EXCEPT !.irq = q]
      <3> HIDE DEF H
      <3> QED BY DEF Free
    <2>4. Free(d, H) = e
      <3> HIDE DEF H, q
      <3> QED BY <1>4, <2>3 DEF Rewire, Devices
    <2> QED BY <2>2, <2>4
  <1>5. irq_teardown(d) = e
    <2> HIDE DEF e
    <2> QED BY <1>3, <1>4
  <1>6. e \in Devices /\ Rewired(d, e) /\ e.irq = q /\ e.lines = L
    <2> HIDE DEF q, L, V
    <2> QED BY <1>1, <1>2, Rewiring
  <1> HIDE DEF e
  <1> QED BY <1>5, <1>6

\* The handlers a device needs follow from its engines and its mode.
LEMMA SameHandlers ==
    ASSUME SameEngines
    PROVE  Handlers(dev') = Handlers(dev)
  <1>1. ChannelLines(dev') = ChannelLines(dev)
    BY DEF ChannelLines, SameEngines
  <1>2. Channels(dev') = Channels(dev)
    BY <1>1 DEF Channels
  <1> QED BY <1>2 DEF Handlers, SameEngines

\* What other handlers leave as it was.
LEMMA RewiredSame ==
    ASSUME Rewired(dev, dev')
    PROVE  /\ SameOwned /\ SameEngines /\ SameCycle /\ SameNodes /\ SameCounts
           /\ Handlers(dev') = Handlers(dev)
  <1>1. SameOwned /\ SameEngines /\ SameCycle /\ SameNodes /\ SameCounts
    BY DEF Rewired, SameOwned, SameEngines, SameCycle, SameNodes, SameCounts
  <1> QED BY <1>1, SameHandlers

\* The last steps of xdma_device_open, and user_isr_enable, are about handlers
\* and interrupts only.
LEMMA OpenRest ==
    ASSUME Typed, NEW n \in 10 .. 12, Inv(n, "open"), Typed', NEW s, Moves("core", s),
           NEW m \in 10 .. 13, NEW e \in {"open", "create", "release"},
           Where(s, m, e, poll_mode),
           seen \subseteq seen', poll_mode' = poll_mode, aer' = aer, probes' = probes,
           resets' = resets, SameOwned, SameEngines, SameNodes, SameCounts
    PROVE  /\ todo'["core"] = s /\ todo'["ioctl"] = <<>>
           /\ Where(todo'["core"], m, e, poll_mode')
           /\ ~Among("irq_setup_again", s) /\ ~Among("aer_disable", s)
           /\ Held(m, e)' /\ Ioctls(m, e)' /\ Enabled(m, e)' /\ Threads(m, e)' /\ Nodes(m, e)'
  <1>1. /\ n \in 0 .. 13 /\ m \in 0 .. 13 /\ e \in Phases /\ "open" \in Phases
        /\ e # "cycle" /\ n >= 4 /\ m >= 4 /\ n >= 3 /\ m >= 3 /\ n # 13
    BY DEF Phases
  <1>2. todo'["core"] = s /\ todo'["ioctl"] = todo["ioctl"]
    BY DEF Moves, Actors
  <1>3. todo'["ioctl"] = <<>>
    BY <1>1, <1>2 DEF Inv, Ioctls
  <1>4. Where(todo'["core"], m, e, poll_mode')
    BY <1>2
  <1>5. ~Among("irq_setup_again", s) /\ ~Among("aer_disable", s)
    BY <1>1, Away
  <1>6. Ioctls(m, e)'
    BY <1>3 DEF Ioctls
  <1>7. Enabled(m, e)'
    BY <1>1, <1>4, EnabledFrame DEF Inv, SameCounts
  <1>8. Threads(m, e)'
    BY <1>1, ThreadsFrame DEF Inv, SameCounts
  <1>9. ~Present(n, "open")
    BY <1>1 DEF Present
  <1>10. Nodes(m, e)'
    BY <1>9, NodesFrame DEF Inv
  <1>11. Held(m, e)'
    <2>1. Held(n, "open")
      BY DEF Inv
    <2> QED BY <1>1, <2>1 DEF Held, SameOwned, SameEngines
  <1> QED BY <1>2, <1>3, <1>4, <1>5, <1>6, <1>7, <1>8, <1>10, <1>11

\* irq_setup within xdma_device_open.
LEMMA SetupStep ==
    ASSUME Typed, NEW n \in 0 .. 13, NEW c \in Phases, Inv(n, c), SetupIrq("core")
    PROVE  IInv'
  <1>1. /\ c = "open" /\ n = 10 /\ ~Idle("core") /\ Head(todo["core"]) = "irq_setup"
        /\ Where(Tail(todo["core"]), n + 1, "open", poll_mode)
    <2>1. ~Idle("core") /\ Head(todo["core"]) = "irq_setup"
      BY DEF SetupIrq, At
    <2>2. Row(todo["core"], n, c, poll_mode)
      BY <2>1, CoreRow
    <2> QED BY <2>1, <2>2, OpenAt
  <1>2. /\ "core" \in Actors /\ n \in 10 .. 12 /\ Inv(n, "open") /\ dev \in Devices
        /\ 10 \in 10 .. 13 /\ 11 \in 10 .. 13 /\ n + 1 = 11
        /\ 10 \in 0 .. 13 /\ 11 \in 0 .. 13
        /\ "open" \in {"open", "create", "release"} /\ "release" \in {"open", "create", "release"}
        /\ "open" \in Phases /\ "release" \in Phases
    BY <1>1 DEF Actors, Typed, Phases
  <1>3. /\ Handled(10, "open") /\ Counted(10, "open") /\ Cycled(10, "open")
        /\ todo["ioctl"] = <<>> /\ dev.irq \in [Lines -> Nat] /\ resets \in Nat
    BY <1>1 DEF Inv, Ioctls, Typed, Devices
  <1>4. Shared \in Lines /\ (dev.msix = "msix" => Shared \notin Handlers(dev))
        /\ (dev.msix # "msix" => Handlers(dev) = {Shared}) /\ Handlers(dev) \subseteq Lines
    BY <1>2, HandlerLines
  <1>5. ~Among("irq_setup_again", todo["core"]) /\ ~Among("aer_disable", todo["core"])
    BY <1>1, <1>2, Away DEF Inv
  <1>6. ~Among("irq_setup_again", <<>>)
    BY DEF Among
  <1>7. ASSUME Requestable(dev, Handlers(dev)), Succeed("core", irq_setup(dev))
        PROVE  IInv'
    <2> DEFINE s == Tail(todo["core"])
    <2>1. /\ irq_setup(dev) \in Devices /\ Rewired(dev, irq_setup(dev))
          /\ irq_setup(dev).lines = dev.lines \cup Handlers(dev)
          /\ \A l \in Lines : irq_setup(dev).irq[l] =
                               IF l \in Handlers(dev) THEN dev.irq[l] + 1 ELSE dev.irq[l]
      BY <1>2, SetupDone
    <2>2. /\ Typed' /\ dev' = irq_setup(dev) /\ Moves("core", s) /\ seen' = seen
          /\ poll_mode' = poll_mode /\ aer' = aer /\ probes' = probes /\ resets' = resets
      BY <1>1, <1>2, <1>7, <2>1, SucceedStep
    <2>3. /\ SameOwned /\ SameEngines /\ SameCycle /\ SameNodes /\ SameCounts
          /\ Handlers(dev') = Handlers(dev)
      BY <2>1, <2>2, RewiredSame
    <2>4. /\ todo'["core"] = s /\ todo'["ioctl"] = <<>>
          /\ Where(todo'["core"], 11, "open", poll_mode')
          /\ ~Among("irq_setup_again", s) /\ ~Among("aer_disable", s)
          /\ Held(11, "open")' /\ Ioctls(11, "open")' /\ Enabled(11, "open")'
          /\ Threads(11, "open")' /\ Nodes(11, "open")'
      <3>1. Where(s, 11, "open", poll_mode) /\ seen \subseteq seen'
        BY <1>1, <1>2, <2>2
      <3> QED BY <1>2, <2>2, <2>3, <3>1, OpenRest
    <2>5. \A a \in Actors : ~AtAny(a, Upward)'
      <3>1. s # <<>> => Head(s) \notin Upward
        BY <1>2, <2>4, Away
      <3> QED BY <2>4, <3>1 DEF AtAny, Idle, Actors
    <2>6. \A l \in Lines : /\ dev'.irq[l] = IF l \in Handlers(dev) THEN dev.irq[l] + 1 ELSE dev.irq[l]
                           /\ dev.irq[l] \in Nat
      BY <1>3, <2>1, <2>2
    <2>7. Handled(11, "open")'
      <3>1. Handlers(dev') \subseteq dev'.lines
        BY <2>1, <2>2, <2>3
      <3>2. ASSUME NEW l \in Lines \ {Shared}
            PROVE  /\ dev'.irq[l] <= 1
                   /\ dev'.irq[l] > 0 /\ seen' \cap {"irq_setup", "into_close"} = {} =>
                         dev'.msix = "msix" /\ l \in Handlers(dev')
        <4>1. dev.irq[l] <= 1 /\ (dev.irq[l] > 0 => seen \cap {"irq_setup", "into_close"} # {})
          BY <1>3 DEF Handled
        <4>2. l \in Handlers(dev) => dev.msix = "msix"
          BY <1>4
        <4>3. l \in Handlers(dev) => dev.irq[l] = 0
          BY <1>7, <4>2 DEF Requestable
        <4> QED BY <2>2, <2>3, <2>6, <4>1, <4>2, <4>3 DEF SameEngines
      <3>3. seen' \cap {"online_again", "overlap"} = {} =>
               dev'.irq[Shared] <= 1 /\ (dev'.irq[Shared] > 0 => dev'.msix # "msix")
        <4>1. seen \cap {"online_again", "overlap"} = {} => dev.irq[Shared] = 0
          BY <1>3, <1>4 DEF Handled
        <4> QED BY <1>4, <2>2, <2>3, <2>6, <4>1 DEF SameEngines
      <3> QED BY <2>5, <3>1, <3>2, <3>3 DEF Handled
    <2>8. Counted(11, "open")'
      <3>1. dev.irq[Shared] + One(aer = "frozen") <= resets
        BY <1>3, <1>4, <1>5, <1>6 DEF Counted, One
      <3>2. dev'.irq[Shared] <= dev.irq[Shared] + One(dev.msix # "msix")
        BY <1>4, <2>6 DEF One
      <3>3. dev'.irq[Shared] \in Nat
        BY <1>4, <2>6
      <3> QED BY <1>3, <1>4, <1>6, <2>2, <2>3, <2>4, <2>6, <3>1, <3>2, <3>3 DEF Counted, One, SameEngines
    <2>9. Cycled(11, "open")'
      <3>1. Up'
        BY <1>4, <2>3, <2>6 DEF Up
      <3>2. dev'.unmasked = {} /\ ~dev'.shutdown /\ ~dev'.work /\ Unmasked' = {}
        BY <1>3, <2>3 DEF Cycled, SameCycle, Unmasked
      <3>3. \A a \in Actors : ~At(a, "interrupts_enable")' /\ ~At(a, "clear_offline")'
        BY <2>5 DEF AtAny, At, Upward
      <3> QED BY <2>5, <3>1, <3>2, <3>3 DEF Cycled
    <2> QED BY <1>2, <2>2, <2>4, <2>7, <2>8, <2>9 DEF IInv, Inv
  <1>8. ASSUME NEW d \in irq_setup_failed(dev),
               Fail("core", d, From("disable_msi_msix") \o xpdev_free_unopened)
        PROVE  IInv'
    <2> DEFINE s == From("disable_msi_msix") \o xpdev_free_unopened
    <2>1. /\ d \in Devices /\ Rewired(dev, d) /\ d.irq[Shared] = dev.irq[Shared]
          /\ \A l \in Lines : d.irq[l] = dev.irq[l] \/ (dev.irq[l] = 0 /\ d.irq[l] = 1)
      BY <1>2, SetupFailed
    <2>2. Where(s, 10, "release", poll_mode)
      BY Unwinding
    <2> HIDE DEF s
    <2>3. s \in Seq(Steps) /\ (s # <<>> => Head(s) \notin Upward)
          /\ (s # <<>> => Head(s) # "irq_teardown")
      <3>1. /\ s \in Seq(Steps) /\ (s # <<>> => Head(s) \notin Upward)
            /\ s # <<>> /\ Head(s) = "irq_teardown" => 10 = 11
        BY <1>2, <2>2, Away, Zenon
      <3> QED BY <3>1
    <2>4. /\ Typed' /\ dev' = d /\ Moves("core", s) /\ seen' = seen \cup {"irq_setup"}
          /\ poll_mode' = poll_mode /\ aer' = aer /\ probes' = probes /\ resets' = resets
      BY <1>1, <1>2, <1>8, <2>1, <2>3, FailStep DEF s
    <2>5. /\ SameOwned /\ SameEngines /\ SameCycle /\ SameNodes /\ SameCounts
      BY <2>1, <2>4, RewiredSame
    <2>6. /\ todo'["core"] = s /\ todo'["ioctl"] = <<>>
          /\ Where(todo'["core"], 10, "release", poll_mode')
          /\ ~Among("irq_setup_again", s) /\ ~Among("aer_disable", s)
          /\ Held(10, "release")' /\ Ioctls(10, "release")' /\ Enabled(10, "release")'
          /\ Threads(10, "release")' /\ Nodes(10, "release")'
      <3>1. seen \subseteq seen'
        BY <2>4
      <3> QED BY <1>2, <2>2, <2>4, <2>5, <3>1, OpenRest
    <2>7. \A a \in Actors : ~AtAny(a, Upward)' /\ ~At(a, "irq_teardown")'
      BY <2>3, <2>6 DEF AtAny, At, Idle, Actors
    <2>8. Handled(10, "release")'
      BY <1>3, <1>4, <2>1, <2>4, <2>7 DEF Handled
    <2>9. Counted(10, "release")'
      BY <1>3, <1>4, <1>5, <1>6, <2>1, <2>4, <2>6 DEF Counted, One
    <2>10. Cycled(10, "release")'
      <3>1. Unmasked' = {} /\ ~dev'.work
        BY <1>3, <2>5 DEF Cycled, SameCycle, Unmasked
      <3>2. \A a \in Actors : ~At(a, "interrupts_enable")' /\ ~At(a, "clear_offline")'
        BY <2>7 DEF AtAny, At, Upward
      <3> QED BY <2>7, <3>1, <3>2 DEF Cycled
    <2> QED BY <1>2, <2>4, <2>6, <2>8, <2>9, <2>10 DEF IInv, Inv
  <1> QED BY <1>7, <1>8 DEF SetupIrq

\* The end of xdma_device_open.
LEMMA OpenDone ==
    ASSUME Typed, NEW n \in 0 .. 13, NEW c \in Phases, Inv(n, c), open_done("core")
    PROVE  IInv'
  <1>1. /\ c = "open" /\ n = 11 /\ ~Idle("core")
        /\ Where(Tail(todo["core"]), n + 1, "open", poll_mode)
    <2>1. ~Idle("core") /\ Head(todo["core"]) = "open_done"
      BY DEF open_done, At
    <2>2. Row(todo["core"], n, c, poll_mode)
      BY <2>1, CoreRow
    <2> QED BY <2>1, <2>2, OpenAt
  <1>2. /\ "core" \in Actors /\ n \in 10 .. 12 /\ Inv(n, "open") /\ dev \in Devices
        /\ 12 \in 10 .. 13 /\ n + 1 = 12 /\ 12 \in 0 .. 13
        /\ "open" \in {"open", "create", "release"} /\ "open" \in Phases
    BY <1>1 DEF Actors, Typed, Phases
  <1>3. /\ Handled(11, "open") /\ Counted(11, "open") /\ Cycled(11, "open")
        /\ todo["ioctl"] = <<>> /\ dev.unmasked = {} /\ ~dev.work
    BY <1>1 DEF Inv, Ioctls, Cycled
  <1> DEFINE s == Tail(todo["core"])
             U == IF poll_mode THEN {} ELSE {"channel"}
             d == [dev EXCEPT !.offline = FALSE, !.unmasked = U]
  <1>4. d \in Devices /\ Succeed("core", d)
    <2>1. U \in SUBSET {"channel", "user"}
      OBVIOUS
    <2>2. U = IF poll_mode THEN dev.unmasked ELSE dev.unmasked \cup {"channel"}
      BY <1>3
    <2>3. Succeed("core", d)
      BY <2>2 DEF open_done
    <2> HIDE DEF U
    <2> QED BY <1>2, <2>1, <2>3 DEF Devices
  <1>6. /\ Typed' /\ dev' = d /\ Moves("core", s) /\ seen' = seen
        /\ poll_mode' = poll_mode /\ aer' = aer /\ probes' = probes /\ resets' = resets
    <2> HIDE DEF d
    <2> QED BY <1>1, <1>2, <1>4, SucceedStep
  <1>7. /\ SameOwned /\ SameEngines /\ SameIrq /\ SameNodes /\ SameCounts
        /\ ~dev'.offline /\ dev'.unmasked = U /\ dev'.shutdown = dev.shutdown
    <2> HIDE DEF U
    <2> QED BY <1>2, <1>6 DEF Devices, SameOwned, SameEngines, SameIrq, SameNodes, SameCounts
  <1> HIDE DEF d
  <1>8. /\ todo'["core"] = s /\ todo'["ioctl"] = <<>>
        /\ Where(todo'["core"], 12, "open", poll_mode')
        /\ ~Among("irq_setup_again", s) /\ ~Among("aer_disable", s)
        /\ Held(12, "open")' /\ Ioctls(12, "open")' /\ Enabled(12, "open")'
        /\ Threads(12, "open")' /\ Nodes(12, "open")'
    <2>1. Where(s, 12, "open", poll_mode) /\ seen \subseteq seen'
      BY <1>1, <1>2, <1>6
    <2> QED BY <1>2, <1>6, <1>7, <2>1, OpenRest
  <1>9. \A a \in Actors : ~AtAny(a, Upward)' /\ ~At(a, "irq_teardown")'
    <2>1. s # <<>> => Head(s) \notin Upward /\ Head(s) # "irq_teardown"
      BY <1>2, <1>8, Away, ZenonT(60)
    <2> QED BY <1>8, <2>1 DEF AtAny, At, Idle, Actors
  <1>10. Handlers(dev') = Handlers(dev)
    BY <1>7, SameHandlers
  <1>11. Handled(12, "open")'
    BY <1>3, <1>6, <1>7, <1>9, <1>10 DEF Handled, SameIrq, SameEngines
  <1>12. Counted(12, "open")'
    <2>1. ~Among("irq_setup_again", todo["core"]) /\ ~Among("aer_disable", todo["core"])
      BY <1>1, <1>2, Away DEF Inv
    <2> QED BY <1>3, <1>6, <1>7, <1>8, <2>1 DEF Counted, One, SameIrq, SameEngines
  <1>13. Cycled(12, "open")'
    <2>1. ~dev'.shutdown /\ (Calm => Up) /\ ~dev'.work
      BY <1>3, <1>7 DEF Cycled, SameEngines
    <2>2. Calm' => Up'
      BY <1>6, <1>7, <1>10, <2>1 DEF Calm, Up, SameIrq
    <2>3. \A a \in Actors : ~At(a, "interrupts_enable")' /\ ~At(a, "clear_offline")'
      BY <1>9 DEF AtAny, At, Upward
    <2> QED BY <1>6, <1>7, <1>9, <2>1, <2>2, <2>3 DEF Cycled
  <1> QED BY <1>2, <1>6, <1>8, <1>11, <1>12, <1>13 DEF IInv, Inv

\* The interfaces, and the driver data last.
LEMMA InterfacesFirst ==
    /\ xpdev_create_interfaces \o Rest(probe_one, 14) \in Seq(Steps)
    /\ Creating(xpdev_create_interfaces \o Rest(probe_one, 14))
  <1> DEFINE S == Groups \cup {"set_drvdata"}
             X == xpdev_create_interfaces
             R == Rest(probe_one, 14)
             Y == X \o R
  <1>1. X \in Seq(Groups)
    <2> DEFINE roles == identify_bars(NumBars, ConfigBarPos)
               A == <<"ctrl", "events", "sg">>
               B == IF "bypass" \in roles THEN <<"bypass">> ELSE <<>>
               C == IF "user" \in roles THEN <<"user", "xvc">> ELSE <<>>
    <2>1. A \in Seq(Groups)
      BY DEF Groups
    <2>2. B \in Seq(Groups)
      <3> HIDE DEF roles
      <3>1. <<"bypass">> \in Seq(Groups) /\ <<>> \in Seq(Groups)
        BY DEF Groups
      <3> QED BY <3>1
    <2>3. C \in Seq(Groups)
      <3> HIDE DEF roles
      <3>1. <<"user", "xvc">> \in Seq(Groups) /\ <<>> \in Seq(Groups)
        BY DEF Groups
      <3> QED BY <3>1
    <2>4. X = A \o B \o C
      BY DEF xpdev_create_interfaces
    <2> HIDE DEF A, B, C
    <2> QED BY <2>1, <2>2, <2>3, <2>4, ConcatProperties
  <1>2. R \in Seq(Steps) /\ Len(R) = 1 /\ R[1] = "set_drvdata"
    <2>1. probe_one \in Seq(Steps) /\ 14 \in 1 .. Len(probe_one) + 1 /\ Len(probe_one) = 14
          /\ probe_one[14] = "set_drvdata" /\ 14 \in 1 .. Len(probe_one)
      BY ProbeIs
    <2>2. R \in Seq(Steps) /\ Len(R) = 14 - 14 + 1
      BY <2>1, RestItems, ZenonT(60)
    <2>3. R # <<>> /\ Head(R) = "set_drvdata"
      BY <2>1, RestStep
    <2> HIDE DEF R
    <2>4. Head(R) = R[1]
      BY <2>2, HeadTailProperties
    <2> QED BY <2>2, <2>3, <2>4
  <1> HIDE DEF X, R
  <1>3. X \in Seq(S) /\ R \in Seq(S) /\ X \in Seq(Steps)
    <2>1. X \in Seq(S)
      BY <1>1, SeqMonotonic
    <2>2. Groups \subseteq Steps
      BY StepNames
    <2>3. X \in Seq(Steps)
      BY <1>1, <2>2, SeqMonotonic
    <2>4. \A i \in 1 .. Len(R) : R[i] \in S
      BY <1>2
    <2> HIDE DEF S
    <2>5. R \in Seq(S)
      <3>1. R \in [1 .. Len(R) -> Steps] /\ Len(R) \in Nat
        BY <1>2, LenProperties
      <3>2. R = [i \in 1 .. Len(R) |-> R[i]]
        BY <3>1
      <3>3. R \in [1 .. Len(R) -> S]
        BY <2>4, <3>2
      <3> QED BY <3>1, <3>3, SeqDef
    <2> QED BY <2>1, <2>3, <2>5
  <1>4. Y \in Seq(Steps)
    BY <1>2, <1>3, ConcatProperties
  <1>5. /\ Y \in Seq(S) /\ Len(Y) = Len(X) + 1 /\ Len(X) \in Nat
        /\ \A i \in 1 .. Len(X) : Y[i] = X[i]
        /\ Y[Len(X) + 1] = "set_drvdata"
    <2>1. Y \in Seq(S) /\ Joins(Y, X, R) /\ Len(X) \in Nat
      BY <1>3, ConcatJoins, LenProperties
    <2> HIDE DEF Y
    <2> QED BY <1>2, <2>1 DEF Joins
  <1>6. \A i \in 1 .. Len(X) : X[i] # "set_drvdata"
    <2>1. \A i \in 1 .. Len(X) : X[i] \in Groups
      BY <1>1, ElementOfSeq
    <2> QED BY <2>1 DEF Groups
  <1> HIDE DEF Y, S
  <1>7. \A i \in 1 .. Len(Y) : Y[i] = "set_drvdata" <=> i = Len(Y)
    BY <1>5, <1>6
  <1>8. Y # <<>>
    BY <1>5
  <1>9. Creating(Y)
    BY <1>5, <1>7, <1>8 DEF Creating, S
  <1> QED BY <1>4, <1>9 DEF Y, X, R

\* The user interrupts are enabled, and the interfaces follow.
LEMMA UserEnable ==
    ASSUME Typed, NEW n \in 0 .. 13, NEW c \in Phases, Inv(n, c), user_isr_enable("core")
    PROVE  IInv'
  <1> DEFINE s == xpdev_create_interfaces \o Tail(todo["core"])
  <1>1. /\ c = "open" /\ n = 12 /\ Where(s, 13, "create", poll_mode) /\ s \in Seq(Steps)
    <2>1. ~Idle("core") /\ Head(todo["core"]) = "user_isr_enable"
      BY DEF user_isr_enable, At
    <2>2. Row(todo["core"], n, c, poll_mode)
      BY <2>1, CoreRow
    <2>3. c = "open" /\ n = 12
      BY <2>1, <2>2, OpenAt
    <2>4. Tail(todo["core"]) = Rest(probe_one, 14)
      BY <2>2, <2>3 DEF Row
    <2>5. s \in Seq(Steps) /\ Creating(s)
      BY <2>4, InterfacesFirst
    <2> HIDE DEF s
    <2> QED BY <2>3, <2>5 DEF Where
  <1>2. /\ n \in 10 .. 12 /\ Inv(n, "open") /\ dev \in Devices
        /\ 13 \in 10 .. 13 /\ 13 \in 0 .. 13
        /\ "create" \in {"open", "create", "release"} /\ "open" \in Phases /\ "create" \in Phases
    BY <1>1 DEF Typed, Phases
  <1>3. /\ Handled(12, "open") /\ Counted(12, "open") /\ Cycled(12, "open")
        /\ todo["ioctl"] = <<>> /\ ~dev.offline
        /\ dev.unmasked = IF poll_mode THEN {} ELSE {"channel"}
    BY <1>1 DEF Inv, Ioctls, Cycled
  <1> HIDE DEF s
  <1>4. /\ dev' = [dev EXCEPT !.unmasked = @ \cup {"user"}] /\ todo' = [todo EXCEPT !["core"] = s]
        /\ seen' = seen /\ poll_mode' = poll_mode /\ aer' = aer /\ probes' = probes
        /\ resets' = resets /\ raised' = raised /\ reader' = reader
    BY DEF user_isr_enable, rest, user, s
  <1>5. /\ dev' \in Devices /\ SameOwned /\ SameEngines /\ SameIrq /\ SameNodes /\ SameCounts
        /\ dev'.offline = dev.offline /\ dev'.shutdown = dev.shutdown
        /\ dev'.unmasked = dev.unmasked \cup {"user"}
    <2>1. dev.unmasked \cup {"user"} \in SUBSET {"channel", "user"}
      BY <1>2 DEF Devices
    <2> QED BY <1>2, <1>4, <2>1 DEF Devices, SameOwned, SameEngines, SameIrq, SameNodes, SameCounts
  <1>6. Typed' /\ Moves("core", s)
    <2>1. todo \in [Actors -> Seq(Steps)]
      BY DEF Typed
    <2>2. todo' \in [Actors -> Seq(Steps)] /\ Moves("core", s)
      BY <1>1, <1>4, <2>1 DEF Moves, Actors
    <2> QED BY <1>4, <1>5, <2>2 DEF Typed
  <1>7. /\ todo'["core"] = s /\ todo'["ioctl"] = <<>>
        /\ Where(todo'["core"], 13, "create", poll_mode')
        /\ ~Among("irq_setup_again", s) /\ ~Among("aer_disable", s)
        /\ Held(13, "create")' /\ Ioctls(13, "create")' /\ Enabled(13, "create")'
        /\ Threads(13, "create")' /\ Nodes(13, "create")'
    <2>1. seen \subseteq seen'
      BY <1>4
    <2> QED BY <1>1, <1>2, <1>4, <1>5, <1>6, <2>1, OpenRest
  <1>8. \A a \in Actors : ~AtAny(a, Upward)' /\ ~At(a, "irq_teardown")'
    <2>1. s # <<>> => Head(s) \notin Upward /\ Head(s) # "irq_teardown"
      BY <1>2, <1>7, Away
    <2> QED BY <1>7, <2>1 DEF AtAny, At, Idle, Actors
  <1>9. Handlers(dev') = Handlers(dev)
    BY <1>5, SameHandlers
  <1>10. Handled(13, "create")'
    <2>1. ~dev'.offline /\ dev'.irq = dev.irq /\ dev'.lines = dev.lines /\ dev'.msix = dev.msix
      BY <1>3, <1>5 DEF SameIrq, SameEngines
    <2>2. Handlers(dev') \subseteq dev'.lines
      BY <1>3, <1>9, <2>1 DEF Handled
    <2>3. \A l \in Lines \ {Shared} :
            /\ dev'.irq[l] <= 1
            /\ dev'.irq[l] > 0 /\ seen' \cap {"irq_setup", "into_close"} = {} =>
                  dev'.msix = "msix" /\ l \in Handlers(dev')
      BY <1>3, <1>4, <1>9, <2>1 DEF Handled
    <2>4. seen' \cap {"online_again", "overlap"} = {} =>
            dev'.irq[Shared] <= 1 /\ (dev'.irq[Shared] > 0 => dev'.msix # "msix")
      BY <1>3, <1>4, <2>1 DEF Handled
    <2> QED BY <1>8, <2>1, <2>2, <2>3, <2>4 DEF Handled
  <1>11. Counted(13, "create")'
    <2>1. ~Among("irq_setup_again", todo["core"]) /\ ~Among("aer_disable", todo["core"])
      BY <1>1, <1>2, Away DEF Inv
    <2> QED BY <1>3, <1>4, <1>5, <1>7, <2>1 DEF Counted, One, SameIrq, SameEngines
  <1>12. Cycled(13, "create")'
    <2>1. /\ ~dev'.shutdown /\ (Calm => Up)
          /\ dev'.work => "channel" \in dev'.unmasked
      BY <1>3, <1>5 DEF Cycled, SameEngines
    <2>2. Calm' => Up'
      BY <1>4, <1>5, <1>9, <2>1 DEF Calm, Up, SameIrq
    <2>3. \A a \in Actors : ~At(a, "interrupts_enable")' /\ ~At(a, "clear_offline")'
      BY <1>8 DEF AtAny, At, Upward
    <2>4. ~poll_mode' => dev'.unmasked = {"channel", "user"}
      BY <1>3, <1>4, <1>5
    <2> QED BY <1>8, <2>1, <2>2, <2>3, <2>4 DEF Cycled
  <1> QED BY <1>2, <1>6, <1>7, <1>10, <1>11, <1>12 DEF IInv, Inv

-----------------------------------------------------------------------------
(* Steps of an open device that leave its handlers and interrupts alone *)

\* A step from and to steps that are not of taking the device off or online.
LEMMA Aside ==
    ASSUME NEW a \in Actors, NEW s, Moves(a, s),
           todo[a] # <<>> => Head(todo[a]) \notin Downward \cup Upward,
           s # <<>> => Head(s) \notin Downward \cup Upward
    PROVE  \A b \in Actors, x \in Downward \cup Upward : At(b, x)' <=> At(b, x)
  <1>1. \A x \in Downward \cup Upward : ~At(a, x) /\ ~At(a, x)'
    BY DEF At, Idle, Moves
  <1>2. \A b \in Actors \ {a}, x \in Downward \cup Upward : At(b, x)' <=> At(b, x)
    BY DEF At, Idle, Moves
  <1> QED BY <1>1, <1>2

\* What such a step has to show.
LEMMA HighStep ==
    ASSUME Typed, Typed', NEW c \in Phases, Inv(13, c), NEW e \in Phases \ {"open"},
           Where(todo'["core"], 13, e, poll_mode'),
           \A b \in Actors, x \in Upward \cup {"irq_teardown"} : At(b, x)' => At(b, x),
           e \in {"idle", "create", "cycle"} =>
              /\ c \in {"idle", "create", "cycle"}
              /\ \A b \in Actors, x \in Downward \cup Upward : At(b, x)' <=> At(b, x),
           poll_mode' = poll_mode, probes' = probes, seen \subseteq seen',
           SameIrq, SameEngines, SameCycle, dev'.threads = dev.threads,
           Held(13, e)', Ioctls(13, e)', Enabled(13, e)', Nodes(13, e)', Counted(13, e)'
    PROVE  IInv'
  <1>1. Handlers(dev') = Handlers(dev)
    BY SameHandlers
  <1>2. /\ dev'.irq = dev.irq /\ dev'.lines = dev.lines /\ dev'.msix = dev.msix
        /\ dev'.offline = dev.offline /\ dev'.shutdown = dev.shutdown
        /\ dev'.unmasked = dev.unmasked /\ dev'.work = dev.work
    BY DEF SameIrq, SameEngines, SameCycle
  <1>3. Handled(13, c) /\ Cycled(13, c) /\ Threads(13, c) /\ Ioctls(13, c)
    BY DEF Inv
  <1>4. Threads(13, e)'
    <2>1. 13 \in 0 .. 13 /\ 13 >= 3
      OBVIOUS
    <2> QED BY <1>3, <2>1, ThreadsFrame
  <1>5. \A b \in Actors : AtAny(b, Upward)' => AtAny(b, Upward)
    BY DEF AtAny, At
  <1>6. Handled(13, e)'
    <2>1. Handlers(dev') \subseteq dev'.lines
      BY <1>1, <1>2, <1>3 DEF Handled
    <2>2. \A l \in Lines \ {Shared} :
            /\ dev'.irq[l] <= 1
            /\ dev'.irq[l] > 0 /\ seen' \cap {"irq_setup", "into_close"} = {} =>
                  dev'.msix = "msix" /\ l \in Handlers(dev')
      BY <1>1, <1>2, <1>3 DEF Handled
    <2>3. ASSUME seen' \cap {"online_again", "overlap"} = {}
          PROVE  /\ dev'.irq[Shared] <= 1 /\ (dev'.irq[Shared] > 0 => dev'.msix # "msix")
                 /\ \A a \in Actors : AtAny(a, Upward)' => dev'.offline
                 /\ /\ e \in {"idle", "create", "cycle"} /\ dev'.offline
                    /\ \A a \in Actors :
                          ~AtAny(a, Downward \cup {"interrupts_enable", "clear_offline"})'
                    => dev'.irq[Shared] = 0
      <3>1. seen \cap {"online_again", "overlap"} = {}
        BY <2>3
      <3>2. /\ dev.irq[Shared] <= 1 /\ (dev.irq[Shared] > 0 => dev.msix # "msix")
            /\ \A a \in Actors : AtAny(a, Upward) => dev.offline
            /\ /\ c \in {"idle", "create", "cycle"} /\ dev.offline
               /\ \A a \in Actors :
                     ~AtAny(a, Downward \cup {"interrupts_enable", "clear_offline"})
               => dev.irq[Shared] = 0
        BY <1>3, <3>1 DEF Handled
      <3>3. ASSUME e \in {"idle", "create", "cycle"}, NEW a \in Actors
            PROVE  AtAny(a, Downward \cup {"interrupts_enable", "clear_offline"})' <=>
                   AtAny(a, Downward \cup {"interrupts_enable", "clear_offline"})
        <4>1. \A x \in Downward \cup {"interrupts_enable", "clear_offline"} : At(a, x)' <=> At(a, x)
          BY <3>3 DEF Upward
        <4> QED BY <4>1 DEF AtAny, At
      <3> QED BY <1>2, <1>5, <3>2, <3>3
    <2>4. 13 >= 11 /\ 13 = 13
      OBVIOUS
    <2> QED BY <2>1, <2>2, <2>3, <2>4, Zenon DEF Handled
  <1>7. Cycled(13, e)'
    <2> SUFFICES ASSUME Calm'
                 PROVE  /\ Unmasked' # {} => Up'
                        /\ e \in {"idle", "create", "cycle"} /\ ~dev'.offline =>
                             /\ ~dev'.shutdown
                             /\ ~poll_mode' => dev'.unmasked = {"channel", "user"}
                        /\ \A a \in Actors :
                              /\ At(a, "irq_teardown")' => Unmasked' = {}
                              /\ At(a, "interrupts_enable")' => Up'
                              /\ e \in {"idle", "cycle"} /\ AtAny(a, Downward)' => dev'.offline
                              /\ AtAny(a, Upward)' => ~dev'.shutdown
                              /\ At(a, "clear_offline")' /\ ~poll_mode'
                                 => dev'.unmasked = {"channel", "user"}
      <3>1. dev'.work => "channel" \in dev'.unmasked \/ "late_work" \in seen'
        BY <1>2, <1>3 DEF Cycled
      <3> QED BY <3>1 DEF Cycled
    <2>0. Unmasked' \subseteq Unmasked
      BY <1>2 DEF Unmasked
    <2>1. Calm /\ "overlap" \notin seen /\ (Up <=> Up')
      BY <1>1, <1>2 DEF Calm, Up
    <2>2. /\ Unmasked # {} => Up
          /\ c \in {"idle", "create", "cycle"} /\ ~dev.offline =>
               ~dev.shutdown /\ (~poll_mode => dev.unmasked = {"channel", "user"})
          /\ \A a \in Actors :
                /\ At(a, "irq_teardown") => Unmasked = {}
                /\ At(a, "interrupts_enable") => Up
                /\ c \in {"idle", "cycle"} /\ AtAny(a, Downward) => dev.offline
                /\ AtAny(a, Upward) => ~dev.shutdown
                /\ At(a, "clear_offline") /\ ~poll_mode => dev.unmasked = {"channel", "user"}
      BY <1>3, <2>1 DEF Cycled
    <2>3. ASSUME NEW a \in Actors, e \in {"idle", "cycle"}, AtAny(a, Downward)'
          PROVE  dev'.offline
      <3>1. AtAny(a, Downward)
        <4>1. \A x \in Downward : At(a, x)' <=> At(a, x)
          BY <2>3
        <4> QED BY <2>3, <4>1 DEF AtAny, At
      <3>2. c # "create"
        <4> SUFFICES ASSUME c = "create" PROVE FALSE
          OBVIOUS
        <4>1. Where(todo["core"], 13, c, poll_mode)
          BY DEF Inv
        <4>2. /\ todo["core"] # <<>> /\ Head(todo["core"]) \notin Downward
          BY <4>1, Away DEF Downward
        <4>3. todo["ioctl"] = <<>>
          BY <1>3, <2>1, <4>2 DEF Ioctls
        <4> QED BY <3>1, <4>2, <4>3 DEF AtAny, Idle, Actors
      <3> QED BY <1>2, <2>2, <2>3, <3>1, <3>2
    <2>4. \A a \in Actors : /\ At(a, "irq_teardown")' => At(a, "irq_teardown")
                            /\ At(a, "interrupts_enable")' => At(a, "interrupts_enable")
                            /\ At(a, "clear_offline")' => At(a, "clear_offline")
      BY DEF Upward
    <2> QED BY <1>2, <1>5, <2>0, <2>1, <2>2, <2>3, <2>4
  <1> QED BY <1>4, <1>6, <1>7 DEF IInv, Inv

\* Creating and removing the nodes.
LEMMA HighAway ==
    ASSUME Typed, Typed', NEW c \in {"create", "remove"}, Inv(13, c), NEW s, Moves("core", s),
           NEW e \in {"idle", "create", "remove", "release"}, Where(s, 13, e, poll_mode),
           e \in {"idle", "create"} => c = "create",
           seen \subseteq seen', poll_mode' = poll_mode, aer' = aer, probes' = probes,
           resets' = resets, SameEngines, SameIrq, SameCycle, SameCounts,
           Held(13, e)', Nodes(13, e)'
    PROVE  IInv'
  <1>1. /\ c \in Phases /\ e \in Phases \ {"open"} /\ e \in Phases /\ c # "cycle" /\ e # "cycle"
        /\ 13 \in 0 .. 13 /\ 13 >= 4
    BY DEF Phases
  <1>2. todo'["core"] = s /\ todo'["ioctl"] = todo["ioctl"] /\ "core" \in Actors
    BY DEF Moves, Actors
  <1>3. Where(todo'["core"], 13, e, poll_mode') /\ Where(todo["core"], 13, c, poll_mode)
    BY <1>2 DEF Inv
  <1>4. /\ todo["core"] # <<>> /\ Head(todo["core"]) \notin Downward \cup Upward
        /\ ~Among("irq_setup_again", todo["core"]) /\ ~Among("aer_disable", todo["core"])
    <2>1. /\ todo["core"] = <<>> <=> c = "idle"
          /\ todo["core"] # <<>> =>
               /\ Head(todo["core"]) \notin Upward \cup {"stop_engines"}
               /\ Head(todo["core"]) = "irq_teardown" => c = "release"
               /\ Head(todo["core"]) = "interrupts_disable" => c \in {"open", "release"}
          /\ ~Among("irq_setup_again", todo["core"]) /\ ~Among("aer_disable", todo["core"])
      BY <1>1, <1>3, Away
    <2> QED BY <2>1 DEF Downward
  <1>5. /\ s # <<>> => /\ Head(s) \notin Upward \cup {"stop_engines"}
                       /\ Head(s) # "irq_teardown"
                       /\ Head(s) = "interrupts_disable" => e = "release"
        /\ ~Among("irq_setup_again", s) /\ ~Among("aer_disable", s)
    <2>1. /\ s # <<>> => /\ Head(s) \notin Upward \cup {"stop_engines"}
                         /\ Head(s) = "irq_teardown" => 13 = 11
                         /\ Head(s) = "interrupts_disable" => e \in {"open", "release"}
          /\ ~Among("irq_setup_again", s) /\ ~Among("aer_disable", s)
      BY <1>1, Away, Zenon
    <2> QED BY <2>1
  <1>6. \A b \in Actors, x \in Upward \cup {"irq_teardown"} : At(b, x)' => At(b, x)
    <2>1. \A x \in Upward \cup {"irq_teardown"} : ~At("core", x)'
      BY <1>2, <1>5 DEF At, Idle
    <2>2. \A x : At("ioctl", x)' <=> At("ioctl", x)
      BY <1>2 DEF At, Idle
    <2> QED BY <2>1, <2>2 DEF Actors
  <1>7. e \in {"idle", "create", "cycle"} =>
              /\ c \in {"idle", "create", "cycle"}
              /\ \A b \in Actors, x \in Downward \cup Upward : At(b, x)' <=> At(b, x)
    <2> SUFFICES ASSUME e \in {"idle", "create"}
                 PROVE  \A b \in Actors, x \in Downward \cup Upward : At(b, x)' <=> At(b, x)
      BY <1>1
    <2>1. s # <<>> => Head(s) \notin Downward \cup Upward
      BY <1>5 DEF Downward
    <2> QED BY <1>2, <1>4, <2>1, Aside
  <1>8. Ioctls(13, e)'
    <2>1. Ioctls(13, c)
      BY DEF Inv
    <2> QED BY <1>2, <1>4, <2>1 DEF Ioctls
  <1>9. Enabled(13, e)'
    <2>1. Enabled(13, c) /\ dev'.enabled = dev.enabled
      BY DEF Inv, SameCounts
    <2> QED BY <1>1, <1>3, <2>1, EnabledFrame
  <1>10. Counted(13, e)'
    <2>1. Counted(13, c)
      BY DEF Inv
    <2> QED BY <1>2, <1>4, <1>5, <2>1 DEF Counted, SameIrq, SameEngines, One
  <1>11. dev'.threads = dev.threads
    BY DEF SameCounts
  <1> QED BY <1>1, <1>3, <1>6, <1>7, <1>8, <1>9, <1>10, <1>11, HighStep

\* What is held of an open device.
LEMMA HeldHigh ==
    ASSUME NEW c, NEW e, Held(13, c), dev'.xpdev = dev.xpdev, dev'.xdev = dev.xdev,
           dev'.listed = dev.listed, dev'.bars = dev.bars, dev'.regions = dev.regions,
           probes' = probes, e \in {"idle", "cycle"} => dev'.bound
    PROVE  Held(13, e)'
  BY DEF Held

\* Device d with other nodes, and everything else as it was.
WithNodes(d, N, F, M, R) ==
    [d EXCEPT !.nodes = N, !.flags = F, !.major = M, !.chrdev = R]

\* So do other nodes.
LEMMA NodesMade ==
    ASSUME NEW d \in Devices, NEW N \in [Groups -> 0 .. UserMax + 2 * ChannelMax + 1],
           NEW F \in SUBSET Groups, NEW M \in BOOLEAN, NEW R \in BOOLEAN
    PROVE  LET e == WithNodes(d, N, F, M, R) IN
           /\ e \in Devices
           /\ e.nodes = N /\ e.flags = F /\ e.major = M /\ e.chrdev = R
           /\ e.xpdev = d.xpdev /\ e.bound = d.bound /\ e.xdev = d.xdev /\ e.listed = d.listed
           /\ e.offline = d.offline /\ e.shutdown = d.shutdown /\ e.enabled = d.enabled
           /\ e.regions = d.regions /\ e.bars = d.bars /\ e.h2c = d.h2c /\ e.c2h = d.c2h
           /\ e.threads = d.threads /\ e.msix = d.msix /\ e.unmasked = d.unmasked
           /\ e.work = d.work /\ e.irq = d.irq /\ e.lines = d.lines
  BY ZenonT(60) DEF Devices, WithNodes

\* A group has a bounded number of nodes, and more than one only if it is of
\* events or channels.
LEMMA GroupSize ==
    ASSUME NEW d \in Devices, NEW g \in Groups
    PROVE  /\ Size(d, g) \in 0 .. UserMax + 2 * ChannelMax + 1
           /\ Size(d, g) <= 1 \/ g \in {"events", "sg", "bypass"}
           /\ g = "sg" => Size(d, g) = d.h2c + d.c2h
  <1>1. /\ d.h2c \in 0 .. ChannelMax /\ d.c2h \in 0 .. ChannelMax
        /\ UserMax \in Nat /\ ChannelMax \in Nat
    BY DeviceAssumption DEF Devices
  <1>2. CASE g = "events"
    BY <1>1, <1>2 DEF Size
  <1>3. CASE g = "sg"
    BY <1>1, <1>3 DEF Size
  <1>4. CASE g = "bypass"
    BY <1>1, <1>4 DEF Size
  <1>5. CASE g \notin {"events", "sg", "bypass"}
    <2>1. Size(d, g) = 1
      BY <1>5 DEF Size
    <2> QED BY <1>1, <1>5, <2>1
  <1> QED BY <1>2, <1>3, <1>4, <1>5

\* The core creates interfaces, or removes them.
LEMMA NodesAt ==
    ASSUME NEW s, NEW n \in 0 .. 13, NEW c, NEW p, Row(s, n, c, p)
    PROVE  /\ Head(s) \in Groups => c = "create" /\ n = 13 /\ Where(Tail(s), 13, "create", p)
           /\ Head(s) = "set_drvdata" => c = "create" /\ n = 13 /\ Tail(s) = <<>>
           /\ Head(s) = "destroy_interfaces" /\ c # "release" =>
                 /\ c = "remove" /\ n = 13
                 /\ Where(Tail(s), 13, "remove", p) \/ Where(Tail(s), 13, "release", p)
  BY DEF Row, ReleaseStep, Groups, Downward, Upward

\* The nodes of one group, or why not.
LEMMA CreateStep ==
    ASSUME Typed, NEW n \in 0 .. 13, NEW c \in Phases, Inv(n, c), NEW g \in Groups,
           CreateGroup("core", g)
    PROVE  IInv'
  <1>1. /\ c = "create" /\ n = 13 /\ ~Idle("core") /\ Head(todo["core"]) = g
        /\ Where(Tail(todo["core"]), 13, "create", poll_mode)
    <2>1. ~Idle("core") /\ Head(todo["core"]) = g
      BY DEF CreateGroup, At
    <2>2. Row(todo["core"], n, c, poll_mode)
      BY <2>1, CoreRow
    <2> QED BY <2>1, <2>2, NodesAt
  <1>2. /\ "core" \in Actors /\ dev \in Devices /\ c \in {"create", "remove"} /\ Inv(13, c)
        /\ Held(13, c) /\ Nodes(13, c) /\ dev.nodes \in [Groups -> Nat]
        /\ dev.h2c \in Nat /\ dev.c2h \in Nat
    <2>1. dev \in Devices /\ UserMax \in Nat /\ ChannelMax \in Nat
      BY DeviceAssumption DEF Typed
    <2>2. dev.nodes \in [Groups -> Nat] /\ dev.h2c \in Nat /\ dev.c2h \in Nat
      BY <2>1 DEF Devices
    <2> QED BY <1>1, <2>1, <2>2 DEF Actors, Inv
  <1>3. /\ Size(dev, g) \in 0 .. UserMax + 2 * ChannelMax + 1
        /\ Size(dev, g) <= 1 \/ g \in {"events", "sg", "bypass"}
        /\ g = "sg" => Size(dev, g) = dev.h2c + dev.c2h
    BY <1>2, GroupSize
  <1>4. ASSUME NEW k \in 0 .. UserMax + 2 * ChannelMax + 1, NEW F \in SUBSET Groups,
               NEW M \in BOOLEAN, NEW R \in BOOLEAN, NEW d,
               d = WithNodes(dev, [dev.nodes EXCEPT ![g] = k], F, M, R),
               NEW e \in {"create", "remove"}, NEW s, Where(s, 13, e, poll_mode),
               Typed', dev' = d, Moves("core", s), seen \subseteq seen', poll_mode' = poll_mode,
               aer' = aer, probes' = probes, resets' = resets,
               dev.flags \subseteq F, R => M,
               \/ g \in F /\ k = Size(dev, g)
               \/ g \in seen' /\ (k > 0 => g \in F \cup {"events", "sg", "bypass"})
        PROVE  IInv'
    <2> DEFINE N == [dev.nodes EXCEPT ![g] = k]
    <2>0. N \in [Groups -> 0 .. UserMax + 2 * ChannelMax + 1] /\ d = WithNodes(dev, N, F, M, R)
      BY <1>2, <1>4 DEF Devices
    <2>1. /\ d.nodes = N
          /\ d.flags = F /\ d.major = M /\ d.chrdev = R
          /\ d.xpdev = dev.xpdev /\ d.bound = dev.bound /\ d.xdev = dev.xdev
          /\ d.listed = dev.listed /\ d.offline = dev.offline /\ d.shutdown = dev.shutdown
          /\ d.enabled = dev.enabled /\ d.regions = dev.regions /\ d.bars = dev.bars
          /\ d.h2c = dev.h2c /\ d.c2h = dev.c2h /\ d.threads = dev.threads
          /\ d.msix = dev.msix /\ d.unmasked = dev.unmasked /\ d.work = dev.work /\ d.irq = dev.irq
          /\ d.lines = dev.lines
      <3> HIDE DEF N
      <3> QED BY <1>2, <2>0, NodesMade
    <2>2. SameEngines /\ SameIrq /\ SameCycle /\ SameCounts
      BY <1>4, <2>1 DEF SameEngines, SameIrq, SameCycle, SameCounts
    <2>3. Held(13, e)'
      BY <1>2, <1>4, <2>1, HeldHigh
    <2>4. Present(13, e) /\ Present(13, c)
      BY <1>1 DEF Present
    <2>5. ASSUME NEW h \in Groups, dev'.nodes[h] > 0
          PROVE  h \in dev'.flags \/ h \in {"events", "sg", "bypass"} \cap seen'
      <3>1. CASE h = g
        BY <1>2, <1>4, <2>1, <2>5, <3>1
      <3>2. CASE h # g
        BY <1>2, <1>4, <2>1, <2>5, <3>2 DEF Nodes
      <3> QED BY <3>1, <3>2
    <2>6. dev'.nodes["sg"] > 0 /\ "sg" \notin seen' => dev'.nodes["sg"] <= dev'.h2c + dev'.c2h
      <3>1. CASE g = "sg"
        BY <1>2, <1>3, <1>4, <2>1, <3>1
      <3>2. CASE g # "sg"
        <4>1. "sg" \in Groups
          BY DEF Groups
        <4> QED BY <1>2, <1>4, <2>1, <3>2, <4>1 DEF Nodes
      <3> QED BY <3>1, <3>2
    <2>7. Nodes(13, e)'
      BY <1>4, <2>1, <2>4, <2>5, <2>6 DEF Nodes
    <2>8. e \in {"idle", "create", "remove", "release"} /\ (e \in {"idle", "create"} => c = "create")
      BY <1>1
    <2> HIDE <1>4
    <2> QED BY <1>2, <1>4, <2>2, <2>3, <2>7, <2>8, HighAway
  <1>5. ASSUME Succeed("core", [create_xcdev(dev, g, Size(dev, g)) EXCEPT !.flags = @ \cup {g}])
        PROVE  IInv'
    <2> DEFINE k == Size(dev, g)
               F == dev.flags \cup {g}
               N == [dev.nodes EXCEPT ![g] = k]
               d == WithNodes(dev, N, F, TRUE, TRUE)
    <2>1. /\ F \in SUBSET Groups /\ k \in 0 .. UserMax + 2 * ChannelMax + 1
          /\ N \in [Groups -> 0 .. UserMax + 2 * ChannelMax + 1]
      BY <1>2, <1>3 DEF Devices
    <2>2. [create_xcdev(dev, g, k) EXCEPT !.flags = @ \cup {g}] = d
      <3> HIDE DEF k
      <3> QED BY <1>2 DEF create_xcdev, Devices, WithNodes
    <2>3. Succeed("core", d)
      BY <1>5, <2>2
    <2>4. d \in Devices
      <3> HIDE DEF N, F
      <3> QED BY <1>2, <2>1, NodesMade
    <2>5. /\ Typed' /\ dev' = d /\ Moves("core", Tail(todo["core"])) /\ seen' = seen
          /\ poll_mode' = poll_mode /\ aer' = aer /\ probes' = probes /\ resets' = resets
      <3> HIDE DEF d
      <3> QED BY <1>1, <1>2, <2>3, <2>4, SucceedStep
    <2>6. seen \subseteq seen' /\ dev.flags \subseteq F /\ g \in F
      BY <2>5
    <2> HIDE DEF k, F
    <2>7. k = Size(dev, g)
      BY DEF k
    <2> QED BY <1>1, <1>4, <2>1, <2>5, <2>6, <2>7
  <1>6. ASSUME NEW d \in CreateFailed(g), Fail("core", d, <<"destroy_interfaces">> \o xpdev_free)
        PROVE  IInv'
    <2> DEFINE s == <<"destroy_interfaces">> \o xpdev_free
    <2>1. s \in Seq(Steps) /\ Where(s, 13, "remove", poll_mode)
      <3>1. s = Abandoned
        BY DEF Abandoned
      <3> HIDE DEF s
      <3>2. Abandoned \in Seq(Steps) /\ Len(Abandoned) = 12
        BY AbandonedIs
      <3>3. Rest(Abandoned, 1) = Abandoned
        BY <3>2, RestEnds
      <3>4. On(s, Abandoned, 1)
        BY <3>1, <3>2, <3>3 DEF On
      <3> QED BY <3>1, <3>2, <3>4 DEF Where
    <2> HIDE DEF s
    <2>2. PICK k \in 0 .. UserMax + 2 * ChannelMax + 1, M \in BOOLEAN, R \in BOOLEAN :
             /\ d = WithNodes(dev, [dev.nodes EXCEPT ![g] = k], dev.flags, M, R)
             /\ R => M
             /\ k > 0 => g \in dev.flags \cup {"events", "sg", "bypass"}
      <3>1. CASE \E k \in 0 .. Size(dev, g) - 1 : d = create_xcdev(dev, g, k)
        <4>1. PICK k \in 0 .. Size(dev, g) - 1 : d = create_xcdev(dev, g, k)
          BY <3>1
        <4>2. k \in 0 .. UserMax + 2 * ChannelMax + 1 /\ k < Size(dev, g)
          BY <1>3, DeviceAssumption
        <4>3. d = WithNodes(dev, [dev.nodes EXCEPT ![g] = k], dev.flags, TRUE, TRUE)
          BY <1>2, <4>1 DEF create_xcdev, Devices, WithNodes
        <4>4. k > 0 => g \in {"events", "sg", "bypass"}
          BY <1>3, <4>2
        <4> QED BY <4>2, <4>3, <4>4
      <3> DEFINE k == dev.nodes[g]
      <3>2. /\ k \in 0 .. UserMax + 2 * ChannelMax + 1 /\ dev.major \in BOOLEAN
            /\ dev.chrdev \in BOOLEAN /\ (dev.chrdev => dev.major)
            /\ k > 0 => g \in dev.flags \cup {"events", "sg", "bypass"}
        <4>1. dev.nodes \in [Groups -> 0 .. UserMax + 2 * ChannelMax + 1]
          BY <1>2 DEF Devices
        <4> QED BY <1>2, <4>1 DEF Nodes, Devices
      <3>3. dev.nodes = [dev.nodes EXCEPT ![g] = k]
        BY <1>2
      <3>4. CASE d = dev
        <4>1. d = WithNodes(dev, [dev.nodes EXCEPT ![g] = k], dev.flags, dev.major, dev.chrdev)
          BY <1>2, <3>3, <3>4 DEF Devices, WithNodes
        <4> QED BY <3>2, <4>1
      <3>5. CASE d = [dev EXCEPT !.chrdev = FALSE]
        <4>1. d = WithNodes(dev, [dev.nodes EXCEPT ![g] = k], dev.flags, dev.major, FALSE)
          BY <1>2, <3>3, <3>5 DEF Devices, WithNodes
        <4> QED BY <3>2, <4>1
      <3> QED BY <1>6, <3>1, <3>4, <3>5 DEF CreateFailed
    <2>3. dev.flags \in SUBSET Groups
      BY <1>2 DEF Devices
    <2> DEFINE N == [dev.nodes EXCEPT ![g] = k]
    <2>4. d \in Devices
      <3>1. N \in [Groups -> 0 .. UserMax + 2 * ChannelMax + 1] /\ d = WithNodes(dev, N, dev.flags, M, R)
        BY <1>2, <2>2 DEF Devices
      <3> HIDE DEF N
      <3> QED BY <1>2, <2>2, <2>3, <3>1, NodesMade
    <2>5. /\ Typed' /\ dev' = d /\ Moves("core", s) /\ seen' = seen \cup {g}
          /\ poll_mode' = poll_mode /\ aer' = aer /\ probes' = probes /\ resets' = resets
      BY <1>1, <1>2, <1>6, <2>1, <2>4, FailStep DEF s
    <2>6. seen \subseteq seen' /\ g \in seen' /\ dev.flags \subseteq dev.flags
          /\ "remove" \in {"create", "remove"}
      BY <2>5
    <2> HIDE DEF N
    <2> QED BY <1>4, <2>1, <2>2, <2>3, <2>5, <2>6
  <1> QED BY <1>5, <1>6 DEF CreateGroup

\* The device is bound to the driver.
LEMMA SetDrvdata ==
    ASSUME Typed, NEW n \in 0 .. 13, NEW c \in Phases, Inv(n, c), set_drvdata("core")
    PROVE  IInv'
  <1>1. /\ c = "create" /\ n = 13 /\ ~Idle("core") /\ Tail(todo["core"]) = <<>>
    <2>1. ~Idle("core") /\ Head(todo["core"]) = "set_drvdata"
      BY DEF set_drvdata, At
    <2>2. Row(todo["core"], n, c, poll_mode)
      BY <2>1, CoreRow
    <2> QED BY <2>1, <2>2, NodesAt
  <1>2. /\ "core" \in Actors /\ dev \in Devices /\ c \in {"create", "remove"} /\ Inv(13, c)
        /\ Held(13, c) /\ Nodes(13, c)
    BY <1>1 DEF Actors, Typed, Inv
  <1> DEFINE d == [dev EXCEPT !.bound = TRUE]
             s == Tail(todo["core"])
  <1>3. d \in Devices /\ Succeed("core", d)
    BY <1>2 DEF Devices, set_drvdata
  <1>4. /\ Typed' /\ dev' = d /\ Moves("core", s) /\ seen' = seen
        /\ poll_mode' = poll_mode /\ aer' = aer /\ probes' = probes /\ resets' = resets
    <2> HIDE DEF d
    <2> QED BY <1>1, <1>2, <1>3, SucceedStep
  <1>5. /\ SameEngines /\ SameIrq /\ SameCycle /\ SameCounts /\ SameNodes /\ dev'.bound
        /\ dev'.xpdev = dev.xpdev /\ dev'.xdev = dev.xdev
        /\ dev'.listed = dev.listed /\ dev'.bars = dev.bars /\ dev'.regions = dev.regions
    BY <1>2, <1>4 DEF Devices, SameEngines, SameIrq, SameCycle, SameCounts, SameNodes
  <1>6. Held(13, "idle")'
    BY <1>2, <1>4, <1>5, HeldHigh
  <1>7. Nodes(13, "idle")'
    <2>1. Present(13, "idle") /\ seen \subseteq seen' /\ dev'.h2c = dev.h2c /\ dev'.c2h = dev.c2h
      BY <1>4, <1>5 DEF Present, SameEngines
    <2> QED BY <1>2, <1>5, <2>1, NodesFrame
  <1>8. /\ "idle" \in {"idle", "create", "remove", "release"} /\ seen \subseteq seen'
        /\ Where(s, 13, "idle", poll_mode)
    BY <1>1, <1>4 DEF Where
  <1> HIDE DEF s
  <1> QED BY <1>1, <1>2, <1>4, <1>5, <1>6, <1>7, <1>8, HighAway

\* The nodes of an open device are removed.
LEMMA DestroyOpen ==
    ASSUME Typed, NEW n \in 0 .. 13, NEW c \in Phases, Inv(n, c), c # "release",
           destroy_interfaces("core")
    PROVE  IInv'
  <1> DEFINE s == Tail(todo["core"])
             N == [g \in Groups |-> IF g \in dev.flags THEN 0 ELSE dev.nodes[g]]
             R == IF dev.major THEN FALSE ELSE dev.chrdev
             d == WithNodes(dev, N, dev.flags, dev.major, R)
  <1>1. /\ c = "remove" /\ n = 13 /\ ~Idle("core")
        /\ Where(s, 13, "remove", poll_mode) \/ Where(s, 13, "release", poll_mode)
    <2>1. ~Idle("core") /\ Head(todo["core"]) = "destroy_interfaces"
      BY DEF destroy_interfaces, At
    <2>2. Row(todo["core"], n, c, poll_mode)
      BY <2>1, CoreRow
    <2> QED BY <2>1, <2>2, NodesAt
  <1>2. /\ "core" \in Actors /\ dev \in Devices /\ c \in {"create", "remove"} /\ Inv(13, c)
        /\ Held(13, c) /\ Nodes(13, c)
    BY <1>1 DEF Actors, Typed, Inv
  <1>3. /\ N \in [Groups -> 0 .. UserMax + 2 * ChannelMax + 1] /\ dev.flags \in SUBSET Groups
        /\ dev.major \in BOOLEAN /\ R \in BOOLEAN
    <2>1. dev.nodes \in [Groups -> 0 .. UserMax + 2 * ChannelMax + 1]
          /\ 0 \in 0 .. UserMax + 2 * ChannelMax + 1
      BY <1>2, DeviceAssumption DEF Devices
    <2> QED BY <1>2, <2>1 DEF Devices
  <1>4. Succeed("core", d)
    <2>1. [dev EXCEPT !.nodes = N, !.chrdev = R] = d
      <3> HIDE DEF N, R
      <3> QED BY <1>2 DEF Devices, WithNodes
    <2>2. Succeed("core", [dev EXCEPT !.nodes = N, !.chrdev = R])
      BY DEF destroy_interfaces
    <2> QED BY <2>1, <2>2
  <1>5. /\ d \in Devices
        /\ d.nodes = N /\ d.flags = dev.flags /\ d.major = dev.major /\ d.chrdev = R
        /\ d.xpdev = dev.xpdev /\ d.bound = dev.bound /\ d.xdev = dev.xdev
        /\ d.listed = dev.listed /\ d.offline = dev.offline /\ d.shutdown = dev.shutdown
        /\ d.enabled = dev.enabled /\ d.regions = dev.regions /\ d.bars = dev.bars
        /\ d.h2c = dev.h2c /\ d.c2h = dev.c2h /\ d.threads = dev.threads
        /\ d.msix = dev.msix /\ d.unmasked = dev.unmasked /\ d.work = dev.work /\ d.irq = dev.irq
        /\ d.lines = dev.lines
    <2> HIDE DEF N, R
    <2> QED BY <1>2, <1>3, NodesMade
  <1> HIDE DEF d
  <1>6. /\ Typed' /\ dev' = d /\ Moves("core", s) /\ seen' = seen
        /\ poll_mode' = poll_mode /\ aer' = aer /\ probes' = probes /\ resets' = resets
    BY <1>1, <1>2, <1>4, <1>5, SucceedStep
  <1>7. SameEngines /\ SameIrq /\ SameCycle /\ SameCounts
    BY <1>5, <1>6 DEF SameEngines, SameIrq, SameCycle, SameCounts
  <1>8. ASSUME NEW e \in {"remove", "release"}, Where(s, 13, e, poll_mode) PROVE IInv'
    <2>1. Held(13, e)'
      <3>1. /\ dev'.xpdev = dev.xpdev /\ dev'.xdev = dev.xdev
            /\ dev'.listed = dev.listed /\ dev'.bars = dev.bars /\ dev'.regions = dev.regions
        BY <1>5, <1>6
      <3> QED BY <1>2, <1>6, <3>1, HeldHigh
    <2>2. ~dev'.chrdev
      BY <1>2, <1>5, <1>6 DEF Nodes
    <2>3. \A g \in Groups : dev'.nodes[g] > 0 => g \in {"events", "sg", "bypass"} \cap seen'
      BY <1>2, <1>5, <1>6 DEF Nodes
    <2>4. dev'.nodes["sg"] > 0 /\ "sg" \notin seen' => dev'.nodes["sg"] <= dev'.h2c + dev'.c2h
      <3>1. "sg" \in Groups
        BY DEF Groups
      <3> QED BY <2>3, <3>1
    <2>5. Nodes(13, e)'
      BY <2>2, <2>3, <2>4 DEF Nodes
    <2>6. /\ e \in {"idle", "create", "remove", "release"} /\ seen \subseteq seen'
          /\ (e \in {"idle", "create"} => c = "create")
      BY <1>6
    <2> HIDE DEF s
    <2> QED BY <1>2, <1>6, <1>7, <1>8, <2>1, <2>5, <2>6, HighAway
  <1> QED BY <1>1, <1>8

-----------------------------------------------------------------------------
(* The procedures begin *)

\* An actor that was idle begins with steps s.
LEMMA BeginStep ==
    ASSUME Typed, NEW a \in Actors, NEW s \in Seq(Steps), NEW h \in SUBSET {"remove_frozen"},
           Begin(a, s, h), aer' \in {"normal", "frozen", "disconnected"},
           probes' \in 0 .. MaxProbes, resets' \in 0 .. MaxResets
    PROVE  /\ Typed' /\ dev' = dev /\ Moves(a, s) /\ poll_mode' = poll_mode
           /\ seen \subseteq seen' /\ h \subseteq seen' /\ todo[a] = <<>>
           /\ "overlap" \notin seen' => \A b \in Actors : todo[b] = <<>>
  <1>1. todo \in [Actors -> Seq(Steps)]
    BY DEF Typed
  <1>2. todo' = [todo EXCEPT ![a] = s] /\ todo[a] = <<>>
    BY DEF Begin, Idle
  <1>3. todo' \in [Actors -> Seq(Steps)] /\ Moves(a, s)
    BY <1>1, <1>2 DEF Moves
  <1>4. /\ dev' = dev /\ poll_mode' = poll_mode /\ raised' = raised /\ reader' = reader
        /\ seen' = seen \cup h \cup (IF \E b \in Actors \ {a} : ~Idle(b) THEN {"overlap"} ELSE {})
    BY DEF Begin, user
  <1>5. seen' \subseteq Steps \cup {"overlap", "online_again", "remove_frozen",
                                   "late_work", "into_close"}
    BY <1>4 DEF Typed
  <1>6. Typed'
    BY <1>3, <1>4, <1>5 DEF Typed
  <1>7. "overlap" \notin seen' => \A b \in Actors : todo[b] = <<>>
    BY <1>2, <1>4 DEF Idle
  <1> QED BY <1>2, <1>3, <1>4, <1>6, <1>7

\* The core is idle in the phase of that name only.
LEMMA IdleAt ==
    ASSUME NEW n \in 0 .. 13, NEW c \in Phases, NEW p \in BOOLEAN, Where(<<>>, n, c, p)
    PROVE  c = "idle" /\ n \in {0, 13}
  <1>1. c # "cycle"
    <2> SUFFICES ASSUME c = "cycle" PROVE FALSE
      OBVIOUS
    <2>1. Cycle(<<>>, p) \/ Recovery(<<>>)
      BY DEF Where
    <2>2. CASE Cycle(<<>>, p)
      BY <2>2, CycleRow
    <2>3. CASE Recovery(<<>>)
      BY <2>3, RecoveryRow
    <2> QED BY <2>1, <2>2, <2>3
  <1>2. c = "idle"
    BY <1>1, Away
  <1> QED BY <1>2 DEF Where

\* At most one more.
LEMMA OneMore ==
    ASSUME NEW r \in Nat, NEW q \in Nat, q = r \/ q = r + 1
    PROVE  q - r \in {0, 1}
  OBVIOUS

\* A reset that is begun is counted when it is pending.
LEMMA OneCounted ==
    ASSUME NEW i \in Nat, NEW r \in Nat, NEW q \in Nat, NEW a \in Nat,
           NEW old \in Nat, NEW new \in Nat, NEW k \in Nat,
           new <= old + (q - r), a + old <= r, i + (a + old) <= r + k
    PROVE  a + new <= q /\ i + (a + new) <= q + k
  OBVIOUS

\* The core begins a procedure on an open device.
LEMMA BeginHigh ==
    ASSUME Typed, NEW n \in 0 .. 13, NEW c \in Phases, Inv(n, c), n # 0,
           NEW s \in Seq(Steps), s # <<>>, Head(s) \notin Downward \cup Upward,
           NEW h \in SUBSET {"remove_frozen"}, Begin("core", s, h),
           NEW e \in {"remove", "cycle"}, Where(s, 13, e, poll_mode),
           aer' = aer, probes' = probes, resets' \in {resets, resets + 1} \cap 0 .. MaxResets,
           e = "remove" /\ aer # "normal" => "remove_frozen" \in h,
           e = "cycle" => (Head(s) = "slot_reset" <=> aer # "normal"),
           Head(s) = "slot_reset" => aer = "frozen",
           Among("irq_setup_again", s) \/ Among("aer_disable", s) => resets' = resets + 1
    PROVE  IInv'
  <1>1. "core" \in Actors /\ "ioctl" \in Actors /\ poll_mode \in BOOLEAN
        /\ aer \in {"normal", "frozen", "disconnected"} /\ probes \in 0 .. MaxProbes
        /\ resets \in 0 .. MaxResets
    BY DEF Actors, Typed
  <1>2. /\ Typed' /\ dev' = dev /\ Moves("core", s) /\ poll_mode' = poll_mode
        /\ seen \subseteq seen' /\ h \subseteq seen' /\ todo["core"] = <<>>
        /\ "overlap" \notin seen' => \A b \in Actors : todo[b] = <<>>
    BY <1>1, BeginStep
  <1>3. c = "idle" /\ n = 13
    BY <1>1, <1>2, IdleAt DEF Inv
  <1>4. Inv(13, "idle") /\ Held(13, "idle") /\ Ioctls(13, "idle") /\ Enabled(13, "idle")
        /\ Nodes(13, "idle") /\ Counted(13, "idle") /\ "idle" \in Phases /\ e \in Phases \ {"open"}
    BY <1>3 DEF Inv, Phases
  <1>5. todo'["core"] = s /\ todo'["ioctl"] = todo["ioctl"]
    BY <1>2 DEF Moves, Actors
  <1>6. /\ SameIrq /\ SameEngines /\ SameCycle /\ SameNodes /\ dev'.threads = dev.threads
    BY <1>2 DEF SameIrq, SameEngines, SameCycle, SameNodes
  <1>7. Held(13, e)'
    <2>1. dev.bound
      BY <1>4 DEF Held
    <2> QED BY <1>2, <1>4, <2>1, HeldHigh
  <1>8. Ioctls(13, e)'
    BY <1>1, <1>2, <1>4, <1>5 DEF Ioctls
  <1>9. Nodes(13, e)'
    <2>1. Present(13, e) /\ dev'.h2c = dev.h2c /\ dev'.c2h = dev.c2h
      BY <1>2 DEF Present
    <2> QED BY <1>2, <1>4, <1>6, <2>1, NodesFrame
  <1>10. Enabled(13, e)'
    <2>1. Base(13)' = Base(13) /\ Base(13) \in Int /\ probes \in Nat
      BY <1>1, <1>2 DEF Base, Typed, Devices
    <2>2. /\ Base(13) > 0 => "request_regions" \in seen
          /\ Base(13) < 0 => "remove_frozen" \in seen
          /\ -(probes - 1) <= Base(13) /\ Base(13) <= probes - 1
      BY <1>4, <2>1 DEF Enabled
    <2>3. At("core", "slot_reset")' <=> Head(s) = "slot_reset"
      BY <1>5 DEF At, Idle
    <2> QED BY <1>2, <2>1, <2>2, <2>3 DEF Enabled
  <1>11. Counted(13, e)'
    <2>1. ~Among("irq_setup_again", <<>>) /\ ~Among("aer_disable", <<>>)
      BY DEF Among
    <2>2. Shared \in Lines
      BY DEF Shared, Lines
    <2>3. dev.irq[Shared] \in Nat /\ resets \in Nat /\ resets' \in Nat
      BY <1>1, <2>2 DEF Typed, Devices
    <2>4. One(aer' = "frozen" \/ Among("irq_setup_again", s) \/ Among("aer_disable", s))
            <= One(aer = "frozen") + (resets' - resets)
      <3>1. resets' - resets \in {0, 1}
        <4>1. resets' = resets \/ resets' = resets + 1
          OBVIOUS
        <4> QED BY <2>3, <4>1, OneMore
      <3>2. ASSUME Among("irq_setup_again", s) \/ Among("aer_disable", s)
            PROVE  resets' - resets = 1
        <4>1. resets' = resets + 1
          BY <3>2, Zenon
        <4> QED BY <2>3, <4>1
      <3>3. CASE aer = "frozen"
        BY <3>1, <3>3 DEF One
      <3>4. CASE aer # "frozen"
        BY <3>1, <3>2, <3>4 DEF One
      <3> QED BY <3>3, <3>4
    <2> DEFINE ours == One(Among("irq_setup_again", todo["ioctl"]))
               old == One(aer = "frozen")
               new == One(aer' = "frozen" \/ Among("irq_setup_again", s)
                                          \/ Among("aer_disable", s))
               open == One(dev.msix # "msix")
    <2>5. ours \in Nat /\ old \in Nat /\ new \in Nat /\ open \in Nat
      BY DEF One
    <2>6. ours + old <= resets /\ dev.irq[Shared] + (ours + old) <= resets + open
      BY <1>2, <1>4, <2>1 DEF Counted, One
    <2>7. /\ ours + new <= resets'
          /\ dev.irq[Shared] + (ours + new) <= resets' + open
      <3>1. new <= old + (resets' - resets)
        BY <2>4
      <3> HIDE DEF ours, old, new, open
      <3> QED BY <2>3, <2>5, <2>6, <3>1, OneCounted
    <2> QED BY <1>2, <1>5, <2>7 DEF Counted, One
  <1>12. \A b \in Actors, x \in Downward \cup Upward : At(b, x)' <=> At(b, x)
    BY <1>1, <1>2, Aside
  <1>13. \A b \in Actors, x \in Upward \cup {"irq_teardown"} : At(b, x)' => At(b, x)
    BY <1>12 DEF Downward
  <1>14. Where(todo'["core"], 13, e, poll_mode')
    BY <1>2, <1>5
  <1> QED BY <1>2, <1>4, <1>6, <1>7, <1>8, <1>9, <1>10, <1>11, <1>12, <1>13, <1>14, HighStep

\* Where the procedures begin.
LEMMA Entry ==
    ASSUME NEW P \in Seq(Steps), Len(P) >= 1
    PROVE  On(P, P, 1) /\ P # <<>> /\ Head(P) = P[1]
  <1>1. Rest(P, 1) = P /\ Len(P) \in Nat
    BY RestEnds, LenProperties
  <1>2. On(P, P, 1)
    BY <1>1 DEF On
  <1> QED BY <1>2, OnStep

\* Every procedure begins in its phase.
LEMMA Beginnings ==
    ASSUME NEW p \in BOOLEAN
    PROVE  /\ remove_one \in Seq(Steps) /\ remove_one # <<>>
           /\ Where(remove_one, 13, "remove", p) /\ Head(remove_one) = "destroy_interfaces"
           /\ Exiting \in Seq(Steps) /\ Exiting # <<>>
           /\ Where(Exiting, 13, "remove", p) /\ Head(Exiting) = "destroy_interfaces"
           /\ Frozen \in Seq(Steps) /\ Frozen # <<>>
           /\ Where(Frozen, 13, "cycle", p) /\ Head(Frozen) = "set_offline"
           /\ Reset(p) \in Seq(Steps) /\ Reset(p) # <<>>
           /\ Where(Reset(p), 13, "cycle", p) /\ Head(Reset(p)) = "set_offline"
           /\ xdma_device_offline \in Seq(Steps) /\ xdma_device_offline # <<>>
           /\ Cycle(xdma_device_offline, p) /\ Head(xdma_device_offline) = "set_offline"
           /\ OnlineSteps(p) \in Seq(Steps) /\ OnlineSteps(p) # <<>>
           /\ Cycle(OnlineSteps(p), p) /\ Head(OnlineSteps(p)) = "start_engines"
           /\ probe_one \in Seq(Steps) /\ Where(probe_one, 0, "open", p)
           /\ Loading \in Seq(Steps) /\ Where(Loading, 0, "load", p)
  <1>1. /\ remove_one \in Seq(Steps) /\ remove_one # <<>>
        /\ Where(remove_one, 13, "remove", p) /\ Head(remove_one) = "destroy_interfaces"
    <2> DEFINE x == <<"destroy_interfaces">>
    <2>1. x \in Seq(Steps) /\ Len(x) = 1
      BY StepNames
    <2>2. Abandoned = x \o xpdev_free
      BY DEF Abandoned
    <2> HIDE DEF x
    <2>3. xpdev_free \in Seq(Steps) /\ 1 \in 1 .. Len(x) + 1
      BY <2>1, FreeIs
    <2>4. Rest(x \o xpdev_free, Len(x) + 1) = xpdev_free
      BY <2>1, <2>3, ConcatSteps
    <2>5. Rest(Abandoned, 1 + 1) = xpdev_free
      BY <2>1, <2>2, <2>4
    <2>6. 1 + 1 = 2
      OBVIOUS
    <2>7. Rest(Abandoned, 2) = remove_one
      BY <2>5, <2>6 DEF remove_one
    <2>8. Abandoned \in Seq(Steps) /\ Len(Abandoned) = 12 /\ Abandoned[2] = "destroy_interfaces"
      BY AbandonedIs
    <2>9. On(remove_one, Abandoned, 2) /\ 2 \in Nat
      BY <2>7, <2>8 DEF On
    <2>10. remove_one \in Seq(Steps) /\ remove_one # <<>> /\ Head(remove_one) = Abandoned[2]
      BY <2>8, <2>9, OnStep
    <2> QED BY <2>8, <2>9, <2>10 DEF Where
  <1>2. /\ Exiting \in Seq(Steps) /\ Exiting # <<>>
        /\ Where(Exiting, 13, "remove", p) /\ Head(Exiting) = "destroy_interfaces"
    <2>1. Exiting \in Seq(Steps) /\ Len(Exiting) >= 1 /\ Exiting[1] = "destroy_interfaces"
      BY ExitingIs, AbandonedIs
    <2>2. On(Exiting, Exiting, 1) /\ Exiting # <<>> /\ Head(Exiting) = Exiting[1]
      BY <2>1, Entry
    <2> QED BY <2>1, <2>2 DEF Where
  <1>3. /\ Frozen \in Seq(Steps) /\ Frozen # <<>>
        /\ Where(Frozen, 13, "cycle", p) /\ Head(Frozen) = "set_offline"
    <2>1. Frozen \in Seq(Steps) /\ Len(Frozen) >= 1 /\ Frozen[1] = "set_offline"
      BY FrozenIs, OfflineIs
    <2>2. On(Frozen, Frozen, 1) /\ Frozen # <<>> /\ Head(Frozen) = Frozen[1]
      BY <2>1, Entry
    <2> QED BY <2>1, <2>2 DEF Where, Recovery
  <1>4. /\ Reset(p) \in Seq(Steps) /\ Reset(p) # <<>>
        /\ Where(Reset(p), 13, "cycle", p) /\ Head(Reset(p)) = "set_offline"
    <2> DEFINE R == Reset(p)
    <2>1. R \in Seq(Steps) /\ Len(R) >= 1 /\ R[1] = "set_offline"
      BY ResetItems
    <2> HIDE DEF R
    <2>2. On(R, R, 1) /\ R # <<>> /\ Head(R) = R[1]
      BY <2>1, Entry
    <2>3. Cycle(R, p)
      BY <2>2 DEF Cycle, R
    <2>4. Where(R, 13, "cycle", p)
      BY <2>3 DEF Where
    <2> QED BY <2>1, <2>2, <2>4 DEF R
  <1>5. /\ xdma_device_offline \in Seq(Steps) /\ xdma_device_offline # <<>>
        /\ Cycle(xdma_device_offline, p) /\ Head(xdma_device_offline) = "set_offline"
    <2>1. /\ xdma_device_offline \in Seq(Steps) /\ Len(xdma_device_offline) >= 1
          /\ xdma_device_offline[1] = "set_offline"
      BY OfflineIs
    <2>2. /\ On(xdma_device_offline, xdma_device_offline, 1) /\ xdma_device_offline # <<>>
          /\ Head(xdma_device_offline) = xdma_device_offline[1]
      BY <2>1, Entry
    <2> QED BY <2>1, <2>2 DEF Cycle
  <1>6. /\ OnlineSteps(p) \in Seq(Steps) /\ OnlineSteps(p) # <<>>
        /\ Cycle(OnlineSteps(p), p) /\ Head(OnlineSteps(p)) = "start_engines"
    <2> DEFINE P == xdma_device_offline
               Q == OnlineSteps(p)
               R == Reset(p)
    <2>1. P \in Seq(Steps) /\ Q \in Seq(Steps) /\ Len(P) = 4 /\ R = P \o Q
      BY OfflineIs, OnlineIs DEF Reset
    <2>2. R \in Seq(Steps) /\ Len(R) \in {6, 8} /\ R[5] = "start_engines"
      BY ResetItems
    <2> HIDE DEF P, Q, R
    <2>3. 1 \in 1 .. Len(P) + 1
      BY <2>1
    <2>4. Rest(P \o Q, Len(P) + 1) = Q
      BY <2>1, <2>3, ConcatSteps
    <2>5. 4 + 1 = 5
      OBVIOUS
    <2>6. Rest(R, 5) = Q
      BY <2>1, <2>4, <2>5
    <2>7. On(Q, R, 5) /\ 5 \in Nat /\ 5 \in 1 .. 8
      BY <2>2, <2>6 DEF On
    <2>8. Q \in Seq(Steps) /\ Q # <<>> /\ Head(Q) = R[5]
      BY <2>2, <2>7, OnStep
    <2>9. Cycle(Q, p)
      BY <2>7 DEF Cycle, R
    <2> QED BY <2>2, <2>8, <2>9 DEF Q
  <1>7. probe_one \in Seq(Steps) /\ Where(probe_one, 0, "open", p)
    <2>1. probe_one \in Seq(Steps) /\ Len(probe_one) >= 1
      BY ProbeIs
    <2>2. On(probe_one, probe_one, 1)
      BY <2>1, Entry
    <2> QED BY <2>1, <2>2 DEF Where
  <1>8. Loading \in Seq(Steps) /\ Where(Loading, 0, "load", p)
    <2>1. Loading \in Seq(Steps) /\ Len(Loading) >= 1
      BY LoadingIs
    <2>2. On(Loading, Loading, 1)
      BY <2>1, Entry
    <2> QED BY <2>1, <2>2 DEF Where
  <1> QED BY <1>1, <1>2, <1>3, <1>4, <1>5, <1>6, <1>7, <1>8

\* remove_one.
LEMMA RemoveBegins ==
    ASSUME Typed, NEW n \in 0 .. 13, NEW c \in Phases, Inv(n, c), Remove
    PROVE  IInv'
  <1> DEFINE h == IF aer = "normal" THEN {} ELSE {"remove_frozen"}
  <1>1. /\ dev.bound /\ Begin("core", remove_one, h)
        /\ aer' = aer /\ probes' = probes /\ resets' = resets
    BY DEF Remove
  <1>2. n # 0
    BY <1>1 DEF Inv, Held
  <1>3. /\ remove_one \in Seq(Steps) /\ remove_one # <<>>
        /\ Where(remove_one, 13, "remove", poll_mode) /\ Head(remove_one) = "destroy_interfaces"
    BY Beginnings DEF Typed
  <1>4. Head(remove_one) \notin Downward \cup Upward /\ Head(remove_one) # "slot_reset"
    BY <1>3 DEF Downward, Upward
  <1>5. ~Among("irq_setup_again", remove_one) /\ ~Among("aer_disable", remove_one)
    BY <1>3, RemoveRow DEF Releases
  <1>6. /\ h \in SUBSET {"remove_frozen"} /\ (aer # "normal" => "remove_frozen" \in h)
        /\ resets' \in {resets, resets + 1} \cap 0 .. MaxResets /\ "remove" \in {"remove", "cycle"}
    BY <1>1 DEF Typed
  <1> HIDE DEF h
  <1> QED BY <1>1, <1>2, <1>3, <1>4, <1>5, <1>6, BeginHigh

\* xdma_error_detected.
LEMMA ErrorBegins ==
    ASSUME Typed, NEW n \in 0 .. 13, NEW c \in Phases, Inv(n, c), xdma_error_detected
    PROVE  IInv'
  <1>1. /\ dev.bound /\ Begin("core", Frozen, {}) /\ aer = "normal" /\ resets < MaxResets
        /\ aer' = aer /\ probes' = probes /\ resets' = resets + 1
    BY DEF xdma_error_detected, Frozen
  <1>2. n # 0
    BY <1>1 DEF Inv, Held
  <1>3. /\ Frozen \in Seq(Steps) /\ Frozen # <<>>
        /\ Where(Frozen, 13, "cycle", poll_mode) /\ Head(Frozen) = "set_offline"
    BY Beginnings DEF Typed
  <1>4. Head(Frozen) \notin Downward \cup Upward /\ Head(Frozen) # "slot_reset"
    BY <1>3 DEF Downward, Upward
  <1>5. /\ {} \in SUBSET {"remove_frozen"}
        /\ resets' \in {resets, resets + 1} \cap 0 .. MaxResets /\ "cycle" \in {"remove", "cycle"}
    <2>1. resets \in 0 .. MaxResets /\ MaxResets \in Nat
      BY DeviceAssumption DEF Typed
    <2> QED BY <1>1, <2>1
  <1> QED BY <1>1, <1>2, <1>3, <1>4, <1>5, BeginHigh

\* A function reset.
LEMMA ResetBegins ==
    ASSUME Typed, NEW n \in 0 .. 13, NEW c \in Phases, Inv(n, c), xdma_reset
    PROVE  IInv'
  <1> DEFINE s == Reset(poll_mode)
  <1>1. /\ dev.bound /\ Begin("core", s, {}) /\ aer = "normal" /\ resets < MaxResets
        /\ aer' = aer /\ probes' = probes /\ resets' = resets + 1
    BY DEF xdma_reset, Reset, OnlineSteps, xdma_device_online
  <1>2. n # 0
    BY <1>1 DEF Inv, Held
  <1>3. /\ s \in Seq(Steps) /\ s # <<>>
        /\ Where(s, 13, "cycle", poll_mode) /\ Head(s) = "set_offline"
    BY Beginnings DEF Typed
  <1> HIDE DEF s
  <1>4. Head(s) \notin Downward \cup Upward /\ Head(s) # "slot_reset"
    BY <1>3 DEF Downward, Upward
  <1>5. /\ {} \in SUBSET {"remove_frozen"}
        /\ resets' \in {resets, resets + 1} \cap 0 .. MaxResets /\ "cycle" \in {"remove", "cycle"}
    <2>1. resets \in 0 .. MaxResets /\ MaxResets \in Nat
      BY DeviceAssumption DEF Typed
    <2> QED BY <1>1, <2>1
  <1> QED BY <1>1, <1>2, <1>3, <1>4, <1>5, BeginHigh

\* xdma_slot_reset.
LEMMA SlotResetBegins ==
    ASSUME Typed, NEW n \in 0 .. 13, NEW c \in Phases, Inv(n, c), xdma_slot_reset
    PROVE  IInv'
  <1> DEFINE s == <<"slot_reset">>
  <1>1. /\ dev.bound /\ Begin("core", s, {}) /\ aer = "frozen"
        /\ aer' = aer /\ probes' = probes /\ resets' = resets
    BY DEF xdma_slot_reset
  <1>2. n # 0
    BY <1>1 DEF Inv, Held
  <1>3. /\ s \in Seq(Steps) /\ s # <<>> /\ Recovery(s) /\ Head(s) = "slot_reset"
        /\ Where(s, 13, "cycle", poll_mode)
    BY StepNames DEF Where, Recovery
  <1> HIDE DEF s
  <1>4. ~Among("irq_setup_again", s) /\ ~Among("aer_disable", s)
    BY <1>3, RecoveryRow
  <1>5. Head(s) \notin Downward \cup Upward
    BY <1>3 DEF Downward, Upward
  <1>6. /\ {} \in SUBSET {"remove_frozen"}
        /\ resets' \in {resets, resets + 1} \cap 0 .. MaxResets /\ "cycle" \in {"remove", "cycle"}
    BY <1>1 DEF Typed
  <1> QED BY <1>1, <1>2, <1>3, <1>4, <1>5, <1>6, BeginHigh

\* module_exit, of a device that is bound or not.
LEMMA ExitBegins ==
    ASSUME Typed, NEW n \in 0 .. 13, NEW c \in Phases, Inv(n, c), xdma_mod_exit
    PROVE  IInv'
  <1>1. /\ aer' = aer /\ probes' = probes /\ resets' = resets
        /\ {} \in SUBSET {"remove_frozen"}
        /\ resets' \in {resets, resets + 1} \cap 0 .. MaxResets
        /\ todo["core"] = <<>>
    BY DEF Typed, xdma_mod_exit, Begin, Idle
  <1>2. c = "idle" /\ n \in {0, 13}
    BY <1>1, IdleAt DEF Inv, Typed
  <1>3. CASE dev.bound
    <2> DEFINE h == IF aer # "normal" THEN {"remove_frozen"} ELSE {}
    <2>1. Begin("core", Exiting, h)
      BY <1>3 DEF xdma_mod_exit, Exiting, remove_one
    <2>2. n # 0
      BY <1>3 DEF Inv, Held
    <2>3. /\ Exiting \in Seq(Steps) /\ Exiting # <<>>
          /\ Where(Exiting, 13, "remove", poll_mode) /\ Head(Exiting) = "destroy_interfaces"
      BY Beginnings DEF Typed
    <2>4. Head(Exiting) \notin Downward \cup Upward /\ Head(Exiting) # "slot_reset"
      BY <2>3 DEF Downward, Upward
    <2>5. ~Among("irq_setup_again", Exiting) /\ ~Among("aer_disable", Exiting)
      BY <2>3, RemoveRow DEF Releases
    <2>6. h \in SUBSET {"remove_frozen"} /\ (aer # "normal" => "remove_frozen" \in h)
          /\ "remove" \in {"remove", "cycle"}
      OBVIOUS
    <2> HIDE DEF h
    <2> QED BY <1>1, <2>1, <2>2, <2>3, <2>4, <2>5, <2>6, BeginHigh
  <1>4. CASE ~dev.bound
    <2> DEFINE s == <<"cdev_cleanup">>
    <2>1. n = 0
      BY <1>2, <1>4 DEF Inv, Held
    <2>2. s \in Seq(Steps) /\ Where(s, 0, "exit", poll_mode)
      BY StepNames DEF Where
    <2>3. Begin("core", s, {})
      <3>1. s = <<>> \o s
        BY <2>2, ConcatEmptySeq
      <3> HIDE DEF s
      <3>2. Begin("core", <<>> \o s, {})
        BY <1>4 DEF xdma_mod_exit, s
      <3> QED BY <3>1, <3>2
    <2> HIDE DEF s
    <2>4. /\ "core" \in Actors /\ aer' \in {"normal", "frozen", "disconnected"}
          /\ probes' \in 0 .. MaxProbes /\ resets' \in 0 .. MaxResets
      BY <1>1 DEF Typed, Actors
    <2>5. /\ Typed' /\ dev' = dev /\ Moves("core", s) /\ poll_mode' = poll_mode /\ seen \subseteq seen'
      BY <1>1, <2>2, <2>3, <2>4, BeginStep
    <2>6. SameCounts /\ SameIrq /\ SameCycle /\ SameNodes
      BY <2>5 DEF SameCounts, SameIrq, SameCycle, SameNodes
    <2>7. Held(0, "exit")'
      BY <1>1, <1>2, <2>1, <2>5 DEF Inv, Held
    <2>8. Nodes(0, "exit")'
      <3>1. ~Present(0, "idle") /\ Nodes(0, "idle")
        BY <1>2, <2>1 DEF Present, Inv
      <3> QED BY <2>5, <2>6, <3>1, NodesFrame
    <2>9. n \in 0 .. 1 /\ 0 \in 0 .. 1 /\ "exit" \in {"idle", "load", "release", "exit"}
      BY <2>1
    <2> QED BY <1>1, <2>2, <2>5, <2>6, <2>7, <2>8, <2>9, GroundStep
  <1> QED BY <1>3, <1>4

\* module_init.
LEMMA InitBegins ==
    ASSUME Typed, NEW n \in 0 .. 13, NEW c \in Phases, Inv(n, c), xdma_mod_init
    PROVE  IInv'
  <1>1. /\ aer' = aer /\ probes' = probes /\ resets' = resets /\ probes = 0
        /\ Begin("core", Loading, {}) /\ {} \in SUBSET {"remove_frozen"} /\ todo["core"] = <<>>
    BY DEF xdma_mod_init, Begin, Idle, Loading
  <1>2. c = "idle" /\ n \in {0, 13}
    BY <1>1, IdleAt DEF Inv, Typed
  <1>3. n = 0
    BY <1>1, <1>2 DEF Inv, Held
  <1>4. Loading \in Seq(Steps) /\ Where(Loading, 0, "load", poll_mode)
    BY Beginnings DEF Typed
  <1>5. /\ "core" \in Actors /\ aer' \in {"normal", "frozen", "disconnected"}
        /\ probes' \in 0 .. MaxProbes /\ resets' \in 0 .. MaxResets
    BY <1>1 DEF Typed, Actors
  <1>6. /\ Typed' /\ dev' = dev /\ Moves("core", Loading) /\ poll_mode' = poll_mode
        /\ seen \subseteq seen'
    BY <1>1, <1>4, <1>5, BeginStep
  <1>7. SameCounts /\ SameIrq /\ SameCycle /\ SameNodes
    BY <1>6 DEF SameCounts, SameIrq, SameCycle, SameNodes
  <1>8. Held(0, "load")'
    BY <1>1, <1>2, <1>3, <1>6 DEF Inv, Held
  <1>9. Nodes(0, "load")'
    <2>1. ~Present(0, "idle") /\ Nodes(0, "idle")
      BY <1>2, <1>3 DEF Present, Inv
    <2> QED BY <1>6, <1>7, <2>1, NodesFrame
  <1>10. n \in 0 .. 1 /\ 0 \in 0 .. 1 /\ "load" \in {"idle", "load", "release", "exit"}
    BY <1>3
  <1> QED BY <1>1, <1>4, <1>6, <1>7, <1>8, <1>9, <1>10, GroundStep

\* probe_one.
LEMMA ProbeBegins ==
    ASSUME Typed, NEW n \in 0 .. 13, NEW c \in Phases, Inv(n, c), Probe
    PROVE  IInv'
  <1>1. /\ aer' = "normal" /\ probes' = probes + 1 /\ resets' = resets /\ ~dev.xpdev
        /\ probes < MaxProbes /\ Begin("core", probe_one, {}) /\ {} \in SUBSET {"remove_frozen"}
        /\ todo["core"] = <<>> /\ probes \in Nat
    BY DEF Probe, Begin, Idle, Typed
  <1>2. c = "idle" /\ n \in {0, 13}
    BY <1>1, IdleAt DEF Inv, Typed
  <1>3. n = 0
    BY <1>1, <1>2 DEF Inv, Held
  <1>4. probe_one \in Seq(Steps) /\ Where(probe_one, 0, "open", poll_mode)
    BY Beginnings DEF Typed
  <1>5. /\ "core" \in Actors /\ aer' \in {"normal", "frozen", "disconnected"}
        /\ probes' \in 0 .. MaxProbes /\ resets' \in 0 .. MaxResets
    BY <1>1, DeviceAssumption DEF Typed, Actors
  <1>6. /\ Typed' /\ dev' = dev /\ Moves("core", probe_one) /\ poll_mode' = poll_mode
        /\ seen \subseteq seen'
    BY <1>1, <1>4, <1>5, BeginStep
  <1>7. todo'["core"] = probe_one /\ todo'["ioctl"] = <<>>
    BY <1>2, <1>3, <1>6 DEF Moves, Actors, Inv, Ioctls
  <1>8. Inv(0, "idle") /\ 0 \in 0 .. 10 /\ "idle" \in Phases /\ "open" \in Phases
    BY <1>2, <1>3 DEF Phases
  <1>9. Held(0, "open")'
    BY <1>1, <1>6, <1>8 DEF Inv, Held
  <1>10. Enabled(0, "open")'
    <2>1. Base(0) = dev.enabled /\ Base(0)' = dev.enabled /\ dev.enabled \in Int
      BY <1>6 DEF Base, Typed, Devices
    <2>2. ~At("core", "slot_reset")'
      <3>1. probe_one # <<>> => Head(probe_one) # "slot_reset"
        BY <1>4, <1>8, Away
      <3> QED BY <1>7, <3>1 DEF At, Idle
    <2>3. Enabled(0, "idle")
      BY <1>8 DEF Inv
    <2> QED BY <1>1, <1>6, <2>1, <2>2, <2>3 DEF Enabled
  <1>11. Threads(0, "open")'
    <2>1. Left(0) = dev.threads /\ Left(0)' = dev.threads /\ dev.threads \in Int
      BY <1>6 DEF Left, Typed, Devices
    <2>2. Threads(0, "idle") /\ probes' - 1 = probes
      BY <1>1, <1>8 DEF Inv
    <2> QED BY <1>6, <2>1, <2>2 DEF Threads
  <1>12. Nodes(0, "open")'
    <2>1. ~Present(0, "idle") /\ Nodes(0, "idle") /\ SameNodes
      BY <1>6, <1>8 DEF Present, Inv, SameNodes
    <2> QED BY <1>6, <2>1, NodesFrame
  <1>13. ~dev'.shutdown
    BY <1>6, <1>8 DEF Inv, Cycled
  <1>14. Where(todo'["core"], 0, "open", poll_mode') /\ dev'.irq = dev.irq
         /\ StillMasked
    BY <1>4, <1>6, <1>7 DEF StillMasked
  <1> QED BY <1>1, <1>6, <1>7, <1>8, <1>9, <1>10, <1>11, <1>12, <1>13, <1>14, LowStep

\* Where the core can be when an ioctl begins or is running.
LEMMA IoctlAt ==
    ASSUME Typed, NEW n \in 0 .. 13, NEW c \in Phases, Inv(n, c),
           todo["ioctl"] # <<>> \/ ("ctrl" \in dev.flags /\ dev.listed)
    PROVE  \/ n = 13 /\ c \in {"idle", "create", "cycle"}
           \/ n \in 2 .. 13 /\ c \in {"remove", "release"}
  <1>1. n = 13 \/ (c = "release" /\ n >= 2)
    <2>1. CASE todo["ioctl"] # <<>>
      BY <2>1 DEF Inv, Ioctls
    <2>2. CASE "ctrl" \in dev.flags /\ dev.listed
      BY <2>2 DEF Inv, Held
    <2> QED BY <2>1, <2>2
  <1>2. CASE n = 13
    <2>1. Where(todo["core"], 13, c, poll_mode)
      BY <1>2 DEF Inv
    <2> QED BY <1>2, <2>1 DEF Where
  <1> QED BY <1>1, <1>2

\* A step of an ioctl beside the close of the device.
LEMMA BesideClose ==
    ASSUME Typed, Typed', NEW n \in 2 .. 13, NEW c \in {"remove", "release"}, Inv(n, c),
           todo'["core"] = todo["core"],
           todo'["ioctl"] = <<>> \/ Cycle(todo'["ioctl"], poll_mode),
           poll_mode' = poll_mode, aer' = aer, probes' = probes,
           seen \subseteq seen', "overlap" \in seen',
           SameOwned, SameEngines, SameNodes, SameCounts, dev.lines \subseteq dev'.lines,
           \A l \in Lines \ {Shared} :
              /\ dev'.irq[l] <= 1
              /\ dev'.irq[l] > 0 /\ seen' \cap {"irq_setup", "into_close"} = {} => dev.irq[l] > 0,
           dev'.work => "channel" \in dev'.unmasked \/ "late_work" \in seen',
           Counted(n, c)'
    PROVE  IInv'
  <1>1. /\ n \in 0 .. 13 /\ c \in Phases /\ c # "cycle" /\ c # "open"
        /\ Where(todo["core"], n, c, poll_mode)
    BY DEF Phases, Inv
  <1>2. n # 12 /\ (c = "remove" => n = 13)
    <2>1. CASE c = "remove"
      BY <1>1, <2>1, RemoveRow
    <2>2. CASE c = "release"
      BY <1>1, <2>2, ReleaseRow DEF ReleaseStep
    <2> QED BY <2>1, <2>2
  <1>3. Where(todo'["core"], n, c, poll_mode')
    BY <1>1
  <1>4. Held(n, c)'
    BY <1>1 DEF Inv, Held, SameOwned, SameEngines
  <1>5. Ioctls(n, c)'
    BY <1>2 DEF Ioctls
  <1>6. Enabled(n, c)'
    <2>1. Enabled(n, c) /\ dev'.enabled = dev.enabled
      BY DEF Inv, SameCounts
    <2> QED BY <1>1, <1>3, <2>1, EnabledFrame
  <1>7. Threads(n, c)'
    <2>1. Threads(n, c) /\ dev'.threads = dev.threads
      BY DEF Inv, SameCounts
    <2> QED BY <1>1, <2>1, ThreadsFrame
  <1>8. Nodes(n, c)'
    <2>1. Nodes(n, c) /\ dev'.h2c = dev.h2c /\ dev'.c2h = dev.c2h
      BY DEF Inv, SameEngines
    <2> QED BY <2>1, NodesFrame
  <1>9. Handled(n, c)'
    <2>1. Handlers(dev') = Handlers(dev) /\ Handled(n, c) /\ dev'.msix = dev.msix
      BY SameHandlers DEF Inv, SameEngines
    <2>2. n >= 11 => Handlers(dev') \subseteq dev'.lines
      BY <2>1 DEF Handled
    <2>3. \A l \in Lines \ {Shared} :
             /\ dev'.irq[l] <= 1
             /\ dev'.irq[l] > 0 /\ seen' \cap {"irq_setup", "into_close"} = {} =>
                   n >= 11 /\ dev'.msix = "msix" /\ l \in Handlers(dev')
      <3>1. seen' \cap {"irq_setup", "into_close"} = {} => seen \cap {"irq_setup", "into_close"} = {}
        OBVIOUS
      <3> QED BY <2>1, <3>1 DEF Handled
    <2> QED BY <2>2, <2>3 DEF Handled
  <1>10. Cycled(n, c)'
    <2>1. ~Calm'
      BY DEF Calm
    <2> QED BY <1>1, <1>2, <2>1 DEF Cycled
  <1> QED BY <1>1, <1>3, <1>4, <1>5, <1>6, <1>7, <1>8, <1>9, <1>10 DEF IInv, Inv

\* An ioctl begins to take the device offline or online.
LEMMA IoctlBegins ==
    ASSUME Typed, NEW n \in 0 .. 13, NEW c \in Phases, Inv(n, c), char_ctrl_ioctl
    PROVE  IInv'
  <1>1. PICK s \in {xdma_device_offline, xdma_device_online} : Begin("ioctl", s, {})
    BY DEF char_ctrl_ioctl
  <1>2. /\ aer' = aer /\ probes' = probes /\ resets' = resets + 1 /\ resets < MaxResets
        /\ \/ n = 13 /\ c \in {"idle", "create", "cycle"}
           \/ n \in 2 .. 13 /\ c \in {"remove", "release"}
        /\ {} \in SUBSET {"remove_frozen"}
    BY IoctlAt DEF char_ctrl_ioctl
  <1>3. s \in Seq(Steps) /\ s # <<>> /\ Cycle(s, poll_mode) /\ Head(s) \notin Downward \cup Upward
    <2>1. poll_mode \in BOOLEAN
      BY DEF Typed
    <2>2. CASE s = xdma_device_offline
      BY <2>1, <2>2, Beginnings DEF Downward, Upward
    <2>3. CASE s = OnlineSteps(poll_mode)
      BY <2>1, <2>3, Beginnings DEF Downward, Upward
    <2>4. xdma_device_online = OnlineSteps(poll_mode)
      BY DEF xdma_device_online, OnlineSteps
    <2> QED BY <2>2, <2>3, <2>4
  <1>4. /\ "ioctl" \in Actors /\ aer' \in {"normal", "frozen", "disconnected"}
        /\ probes' \in 0 .. MaxProbes /\ resets' \in 0 .. MaxResets /\ resets \in Nat
    BY <1>2, DeviceAssumption DEF Typed, Actors
  <1>5. /\ Typed' /\ dev' = dev /\ Moves("ioctl", s) /\ poll_mode' = poll_mode
        /\ seen \subseteq seen' /\ todo["ioctl"] = <<>>
        /\ "overlap" \notin seen' => \A b \in Actors : todo[b] = <<>>
    BY <1>1, <1>2, <1>3, <1>4, BeginStep
  <1>6. todo'["ioctl"] = s /\ todo'["core"] = todo["core"] /\ "core" \in Actors
    BY <1>5 DEF Moves, Actors
  <1>7. /\ SameOwned /\ SameIrq /\ SameEngines /\ SameCycle /\ SameNodes /\ SameCounts
        /\ dev'.threads = dev.threads
    BY <1>5 DEF SameOwned, SameIrq, SameEngines, SameCycle, SameNodes, SameCounts
  <1>8. Counted(n, c)'
    <2>1. ~Among("irq_setup_again", <<>>)
      BY DEF Among
    <2>2. Shared \in Lines
      BY DEF Shared, Lines
    <2>3. dev.irq[Shared] \in Nat
      BY <2>2 DEF Typed, Devices
    <2>4. Counted(n, c)
      BY DEF Inv
    <2> QED BY <1>2, <1>4, <1>5, <1>6, <2>1, <2>3, <2>4 DEF Counted, One
  <1>9. CASE n = 13 /\ c \in {"idle", "create", "cycle"}
    <2>1. Inv(13, c) /\ c \in Phases \ {"open"} /\ Counted(13, c)'
      BY <1>8, <1>9
    <2>2. Held(13, c)'
      BY <1>2, <1>5, <1>9, <2>1 DEF Inv, Held
    <2>3. Ioctls(13, c)'
      BY <1>3, <1>5, <1>6 DEF Ioctls, Actors
    <2>4. Nodes(13, c)'
      BY <1>5, <1>7, <2>1, NodesFrame DEF Inv
    <2>5. Enabled(13, c)'
      <3>1. Base(13)' = Base(13) /\ (At("core", "slot_reset")' <=> At("core", "slot_reset"))
        BY <1>2, <1>5, <1>6 DEF Base, At, Idle
      <3> QED BY <1>2, <1>5, <2>1, <3>1 DEF Inv, Enabled
    <2>6. \A b \in Actors, x \in Downward \cup Upward : At(b, x)' <=> At(b, x)
      BY <1>3, <1>4, <1>5, Aside
    <2>7. \A b \in Actors, x \in Upward \cup {"irq_teardown"} : At(b, x)' => At(b, x)
      BY <2>6 DEF Downward
    <2>8. Where(todo'["core"], 13, c, poll_mode')
      BY <1>5, <1>6, <2>1 DEF Inv
    <2> QED BY <1>2, <1>5, <1>7, <1>9, <2>1, <2>2, <2>3, <2>4, <2>5, <2>6, <2>7, <2>8, HighStep
  <1>10. CASE n \in 2 .. 13 /\ c \in {"remove", "release"}
    <2>1. "overlap" \in seen'
      <3>1. todo["core"] # <<>>
        <4>1. Where(todo["core"], n, c, poll_mode)
          BY DEF Inv
        <4> QED BY <1>10, <4>1, Away
      <3> QED BY <1>5, <1>6, <3>1
    <2>2. /\ \A l \in Lines \ {Shared} : dev.irq[l] <= 1
          /\ dev.work => "channel" \in dev.unmasked \/ "late_work" \in seen
      BY DEF Inv, Handled, Cycled
    <2>3. \A l \in Lines \ {Shared} :
              /\ dev'.irq[l] <= 1
              /\ dev'.irq[l] > 0 /\ seen' \cap {"irq_setup", "into_close"} = {} => dev.irq[l] > 0
      BY <1>5, <2>2
    <2>4. dev'.work => "channel" \in dev'.unmasked \/ "late_work" \in seen'
      BY <1>5, <2>2
    <2>5. dev.lines \subseteq dev'.lines /\ Cycle(todo'["ioctl"], poll_mode)
      BY <1>3, <1>5, <1>6
    <2> QED BY <1>2, <1>5, <1>6, <1>7, <1>8, <1>10, <2>1, <2>3, <2>4, <2>5, BesideClose
  <1> QED BY <1>2, <1>9, <1>10

\* The core at a step of error recovery.
LEMMA RecoveryAt ==
    ASSUME Typed, NEW n \in 0 .. 13, NEW c \in Phases, Inv(n, c), ~Idle("core"),
           Head(todo["core"]) \in {"aer_disable", "slot_reset"}
    PROVE  /\ c = "cycle" /\ n = 13 /\ Tail(todo["core"]) = <<>>
           /\ ~Among("irq_setup_again", todo["core"])
           /\ Among("aer_disable", todo["core"]) <=> Head(todo["core"]) = "aer_disable"
  <1> DEFINE s == todo["core"]
  <1>1. Row(s, n, c, poll_mode) /\ Where(s, n, c, poll_mode) /\ poll_mode \in BOOLEAN
    BY CoreRow DEF Inv, Typed
  <1>2. c = "cycle" /\ n = 13
    BY <1>1 DEF Row, ReleaseStep, Groups
  <1>3. Cycle(s, poll_mode) \/ Recovery(s)
    BY <1>1, <1>2 DEF Where
  <1>4. ~Cycle(s, poll_mode)
    <2> SUFFICES ASSUME Cycle(s, poll_mode) PROVE FALSE
      OBVIOUS
    <2>1. CycleStep(s, First(Tail(s)), {}) \/ OnlineStep(s, First(Tail(s)), poll_mode)
      BY <1>1, CycleRow
    <2> QED BY <2>1 DEF CycleStep, OnlineStep
  <1>5. /\ ~Among("irq_setup_again", s)
        /\ \/ Head(s) = "slot_reset" /\ Tail(s) = <<>> /\ ~Among("aer_disable", s)
           \/ Head(s) = "aer_disable" /\ Tail(s) = <<>> /\ Among("aer_disable", s)
           \/ Head(s) \in {"set_offline", "stop_engines", "interrupts_disable", "irq_teardown"}
    BY <1>3, <1>4, RecoveryRow
  <1> QED BY <1>2, <1>5

\* A step of error recovery that ends it, or goes on with xdma_device_online.
LEMMA RecoveryStep ==
    ASSUME Typed, Typed', NEW n \in 0 .. 13, NEW c \in Phases, Inv(n, c), ~Idle("core"),
           Head(todo["core"]) \in {"aer_disable", "slot_reset"},
           NEW s, Moves("core", s),
           s = <<>> \/ (s = OnlineSteps(poll_mode) /\ Head(todo["core"]) = "slot_reset"
                        /\ aer' = "normal"),
           seen' = seen, poll_mode' = poll_mode, probes' = probes, resets' = resets,
           SameOwned, SameEngines, SameIrq, SameCycle, SameNodes, dev'.threads = dev.threads,
           Base(13)' = Base(13), aer' = "frozen" => Head(todo["core"]) = "aer_disable"
    PROVE  IInv'
  <1> DEFINE e == IF s = <<>> THEN "idle" ELSE "cycle"
  <1>1. /\ c = "cycle" /\ n = 13 /\ ~Among("irq_setup_again", todo["core"])
        /\ Among("aer_disable", todo["core"]) <=> Head(todo["core"]) = "aer_disable"
    BY RecoveryAt
  <1>2. Inv(13, c) /\ poll_mode \in BOOLEAN /\ todo["core"] # <<>> /\ "core" \in Actors
        /\ c \in {"idle", "create", "cycle"}
    BY <1>1 DEF Typed, Idle, Actors
  <1>3. todo'["core"] = s /\ todo'["ioctl"] = todo["ioctl"]
    BY DEF Moves, Actors
  <1>4. /\ s # <<>> => /\ Head(s) = "start_engines" /\ Cycle(s, poll_mode)
                       /\ aer' = "normal" /\ Head(todo["core"]) = "slot_reset"
        /\ Where(s, 13, e, poll_mode)
    <2>1. CASE s = <<>>
      BY <2>1 DEF Where
    <2>2. CASE s # <<>>
      <3>1. s = OnlineSteps(poll_mode)
        BY <2>2
      <3>2. Head(s) = "start_engines" /\ Cycle(s, poll_mode)
        BY <1>2, <3>1, Beginnings
      <3> QED BY <2>2, <3>2 DEF Where
    <2> QED BY <2>1, <2>2
  <1>5. e \in Phases \ {"open"} /\ e \in {"idle", "cycle"} /\ (e = "cycle" <=> s # <<>>)
    BY DEF Phases
  <1> HIDE DEF e
  <1>6. Held(13, e)'
    BY <1>1, <1>2, HeldHigh DEF SameOwned, Inv, Held
  <1>7. Ioctls(13, e)'
    BY <1>2, <1>3 DEF Inv, Ioctls
  <1>8. Nodes(13, e)'
    <2>1. Present(13, e) /\ dev'.h2c = dev.h2c /\ dev'.c2h = dev.c2h
      BY <1>5 DEF Present, SameEngines
    <2> QED BY <1>2, <2>1, NodesFrame DEF Inv
  <1>9. Enabled(13, e)'
    <2>1. ~At("core", "slot_reset")'
      BY <1>3, <1>4 DEF At, Idle
    <2>2. Enabled(13, c) /\ (e = "cycle" => aer' = "normal")
      BY <1>2, <1>4, <1>5 DEF Inv
    <2> QED BY <1>5, <2>1, <2>2 DEF Enabled
  <1>10. Counted(13, e)'
    <2>1. ~Among("irq_setup_again", <<>>) /\ ~Among("aer_disable", <<>>)
      BY DEF Among
    <2>2. ~Among("aer_disable", s)
      <3>1. CASE s = <<>>
        BY <2>1, <3>1
      <3>2. CASE s # <<>>
        BY <1>2, <1>4, <3>2, CycleRow
      <3> QED BY <3>1, <3>2
    <2>3. Counted(13, c) /\ Enabled(13, c)
      BY <1>2 DEF Inv
    <2>4. Head(todo["core"]) = "slot_reset" => aer = "frozen"
      BY <1>2, <2>3 DEF Enabled, At, Idle
    <2>5. One(aer' = "frozen" \/ Among("irq_setup_again", s) \/ Among("aer_disable", s)) <=
          One(aer = "frozen" \/ Among("irq_setup_again", todo["core"])
                             \/ Among("aer_disable", todo["core"]))
      <3>1. CASE Head(todo["core"]) = "aer_disable"
        BY <1>1, <1>4, <2>1, <3>1 DEF One
      <3>2. CASE Head(todo["core"]) = "slot_reset"
        BY <2>4, <3>2 DEF One
      <3> QED BY <3>1, <3>2
    <2>6. Shared \in Lines
      BY DEF Shared, Lines
    <2>7. dev.irq[Shared] \in Nat /\ resets \in Nat
      BY <2>6 DEF Typed, Devices
    <2> QED BY <1>3, <2>3, <2>5, <2>7 DEF Counted, One, SameIrq, SameEngines
  <1>11. \A b \in Actors, x \in Downward \cup Upward : At(b, x)' <=> At(b, x)
    <2>1. /\ Head(todo["core"]) \notin Downward \cup Upward
          /\ s # <<>> => Head(s) \notin Downward \cup Upward
      BY <1>4 DEF Downward, Upward
    <2> QED BY <1>2, <2>1, Aside
  <1>12. \A b \in Actors, x \in Upward \cup {"irq_teardown"} : At(b, x)' => At(b, x)
    BY <1>11 DEF Downward
  <1>13. Where(todo'["core"], 13, e, poll_mode') /\ seen \subseteq seen'
    BY <1>3, <1>4
  <1> QED BY <1>2, <1>5, <1>6, <1>7, <1>8, <1>9, <1>10, <1>11, <1>12, <1>13, HighStep

\* pci_disable_device, and pci_enable_device or giving up.
LEMMA RecoverStep ==
    ASSUME Typed, NEW n \in 0 .. 13, NEW c \in Phases, Inv(n, c), Recover("core")
    PROVE  IInv'
  <1>1. /\ dev \in Devices /\ todo \in [Actors -> Seq(Steps)] /\ "core" \in Actors
        /\ poll_mode \in BOOLEAN /\ dev.enabled \in Int
    BY DEF Typed, Actors, Devices
  <1>2. ~Idle("core") /\ Head(todo["core"]) \in {"aer_disable", "slot_reset"}
    BY DEF Recover, aer_disable, slot_reset, At
  <1>3. c = "cycle" /\ n = 13 /\ Tail(todo["core"]) = <<>>
    BY <1>2, RecoveryAt
  <1>4. Head(todo["core"]) = "slot_reset" <=> aer # "normal"
    BY <1>2, <1>3 DEF Inv, Enabled, At
  <1>5. ASSUME NEW v \in Int, dev' = [dev EXCEPT !.enabled = v]
        PROVE  /\ dev' \in Devices /\ SameOwned /\ SameEngines /\ SameIrq /\ SameCycle
               /\ SameNodes /\ dev'.threads = dev.threads /\ dev'.enabled = v
    BY <1>1, <1>5 DEF Devices, SameOwned, SameEngines, SameIrq, SameCycle, SameNodes
  <1>6. ASSUME NEW v \in Int, dev' = [dev EXCEPT !.enabled = v],
               NEW s \in Seq(Steps), todo' = [todo EXCEPT !["core"] = s],
               aer' \in {"normal", "frozen", "disconnected"},
               s = <<>> \/ (s = OnlineSteps(poll_mode) /\ Head(todo["core"]) = "slot_reset"
                            /\ aer' = "normal"),
               seen' = seen, poll_mode' = poll_mode, probes' = probes, resets' = resets,
               raised' = raised, reader' = reader,
               v - One(aer' = "normal") = dev.enabled - One(aer = "normal"),
               aer' = "frozen" => Head(todo["core"]) = "aer_disable"
        PROVE  IInv'
    <2>1. /\ dev' \in Devices /\ SameOwned /\ SameEngines /\ SameIrq /\ SameCycle
          /\ SameNodes /\ dev'.threads = dev.threads /\ dev'.enabled = v
      BY <1>5, <1>6
    <2>2. todo' \in [Actors -> Seq(Steps)] /\ Moves("core", s)
      BY <1>1, <1>6 DEF Moves
    <2>3. Typed'
      BY <1>6, <2>1, <2>2 DEF Typed
    <2>4. Base(13)' = Base(13)
      BY <1>6, <2>1 DEF Base, One
    <2> QED BY <1>2, <1>6, <2>1, <2>2, <2>3, <2>4, RecoveryStep
  <1>7. <<>> \in Seq(Steps)
    OBVIOUS
  <1>8. CASE aer_disable("core")
    <2>4. dev' = [dev EXCEPT !.enabled = dev.enabled - 1] /\ aer' = "frozen"
      BY <1>8 DEF aer_disable
    <2>5. todo' = [todo EXCEPT !["core"] = <<>>]
      BY <1>3, <1>8, Zenon DEF aer_disable
    <2>6. dev.enabled - 1 \in Int
      BY <1>1
    <2>7. /\ seen' = seen /\ poll_mode' = poll_mode /\ probes' = probes /\ resets' = resets
          /\ raised' = raised /\ reader' = reader
      BY <1>8 DEF aer_disable, user
    <2>1. /\ dev' = [dev EXCEPT !.enabled = dev.enabled - 1] /\ aer' = "frozen"
          /\ todo' = [todo EXCEPT !["core"] = <<>>] /\ dev.enabled - 1 \in Int
          /\ seen' = seen /\ poll_mode' = poll_mode /\ probes' = probes /\ resets' = resets
          /\ raised' = raised /\ reader' = reader
      BY <2>4, <2>5, <2>6, <2>7
    <2>2. Head(todo["core"]) = "aer_disable" /\ aer = "normal"
      BY <1>4, <1>8 DEF aer_disable, At
    <2>3. (dev.enabled - 1) - One(aer' = "normal") = dev.enabled - One(aer = "normal")
      BY <1>1, <2>1, <2>2 DEF One
    <2> QED BY <1>6, <1>7, <2>1, <2>2, <2>3
  <1>9. CASE slot_reset("core")
    <2>1. Head(todo["core"]) = "slot_reset" /\ aer # "normal"
      BY <1>4, <1>9 DEF slot_reset, At
    <2>2. /\ seen' = seen /\ poll_mode' = poll_mode /\ probes' = probes /\ resets' = resets
          /\ raised' = raised /\ reader' = reader
      BY <1>9 DEF slot_reset, user
    <2>3. CASE /\ dev' = [dev EXCEPT !.enabled = @ + 1] /\ aer' = "normal"
               /\ todo' = [todo EXCEPT !["core"] = Tail(@) \o xdma_device_online]
      <3> DEFINE s == OnlineSteps(poll_mode)
      <3>1. s \in Seq(Steps)
        BY <1>1, Beginnings
      <3>2. xdma_device_online = s
        BY DEF xdma_device_online, OnlineSteps
      <3> HIDE DEF s
      <3>3. Tail(todo["core"]) \o xdma_device_online = s
        BY <1>3, <3>1, <3>2, ConcatEmptySeq
      <3>6. todo' = [todo EXCEPT !["core"] = s]
        BY <2>3, <3>3, Zenon
      <3>7. dev' = [dev EXCEPT !.enabled = dev.enabled + 1]
        BY <2>3, Zenon
      <3>8. dev.enabled + 1 \in Int
        BY <1>1
      <3>9. (dev.enabled + 1) - One(aer' = "normal") = dev.enabled - One(aer = "normal")
        BY <1>1, <2>1, <2>3 DEF One
      <3>4. /\ todo' = [todo EXCEPT !["core"] = s] /\ dev.enabled + 1 \in Int
            /\ dev' = [dev EXCEPT !.enabled = dev.enabled + 1]
            /\ (dev.enabled + 1) - One(aer' = "normal") = dev.enabled - One(aer = "normal")
        BY <3>6, <3>7, <3>8, <3>9
      <3>5. s = OnlineSteps(poll_mode)
        BY DEF s
      <3> QED BY <1>6, <2>1, <2>2, <2>3, <3>1, <3>4, <3>5
    <2>4. CASE /\ dev' = dev /\ aer' = "disconnected"
               /\ todo' = [todo EXCEPT !["core"] = Tail(@)]
      <3>1. dev' = [dev EXCEPT !.enabled = dev.enabled]
        BY <1>1, <2>4 DEF Devices
      <3>2. dev.enabled - One(aer' = "normal") = dev.enabled - One(aer = "normal")
        BY <2>1, <2>4 DEF One
      <3>3. todo' = [todo EXCEPT !["core"] = <<>>]
        BY <1>3, <2>4
      <3> QED BY <1>1, <1>6, <1>7, <2>2, <2>4, <3>1, <3>2, <3>3
    <2> QED BY <1>9, <2>3, <2>4 DEF slot_reset
  <1> QED BY <1>8, <1>9 DEF Recover


-----------------------------------------------------------------------------
(* Closing the device: its interrupts and their handlers *)

\* What the first two steps of xdma_device_close have to show.
LEMMA CloseStep ==
    ASSUME Typed, Typed', NEW n \in {11, 13}, NEW m \in {10, 11}, Inv(n, "release"),
           Moves("core", Tail(todo["core"])),
           Where(Tail(todo["core"]), m, "release", poll_mode),
           seen \subseteq seen', poll_mode' = poll_mode, aer' = aer, probes' = probes,
           SameOwned, SameEngines, SameNodes, SameCounts,
           Handled(m, "release")', Counted(m, "release")', Cycled(m, "release")'
    PROVE  IInv'
  <1>1. /\ n \in 0 .. 13 /\ m \in 0 .. 13 /\ "release" \in Phases
        /\ (n >= 4 <=> m >= 4) /\ (n >= 3 <=> m >= 3) /\ "release" # "cycle" /\ m >= 2
    BY DEF Phases
  <1>2. todo'["core"] = Tail(todo["core"]) /\ todo'["ioctl"] = todo["ioctl"]
    BY DEF Moves, Actors
  <1>3. Where(todo'["core"], m, "release", poll_mode')
    BY <1>2
  <1>4. Held(m, "release")'
    <2>1. Held(n, "release")
      BY DEF Inv
    <2> QED BY <2>1 DEF Held, SameOwned, SameEngines
  <1>5. Ioctls(m, "release")'
    <2>1. Ioctls(n, "release") /\ todo["core"] # <<>>
      <3>1. Where(todo["core"], n, "release", poll_mode) /\ "release" # "idle"
        BY DEF Inv
      <3>2. todo["core"] # <<>>
        BY <1>1, <3>1, Away
      <3> QED BY <3>2 DEF Inv
    <2> QED BY <1>1, <1>2, <2>1 DEF Ioctls
  <1>6. Enabled(m, "release")'
    <2>1. Enabled(n, "release") /\ dev'.enabled = dev.enabled
      BY DEF Inv, SameCounts
    <2> QED BY <1>1, <1>3, <2>1, EnabledFrame
  <1>7. Threads(m, "release")'
    <2>1. Threads(n, "release") /\ dev'.threads = dev.threads
      BY DEF Inv, SameCounts
    <2> QED BY <1>1, <2>1, ThreadsFrame
  <1>8. Nodes(m, "release")'
    <2>1. Nodes(n, "release") /\ ~Present(n, "release")
      BY DEF Inv, Present
    <2> QED BY <2>1, NodesFrame
  <1> QED BY <1>1, <1>3, <1>4, <1>5, <1>6, <1>7, <1>8 DEF IInv, Inv

\* Where the core is when it closes the device, and an ioctl that did not run
\* into it.
LEMMA CloseAt ==
    ASSUME Typed, NEW n \in 0 .. 13, NEW c \in Phases, Inv(n, c), ~Idle("core"),
           c \notin {"open", "cycle"},
           Head(todo["core"]) \in {"interrupts_disable", "irq_teardown"}
    PROVE  /\ c = "release"
           /\ Head(todo["core"]) = "interrupts_disable" =>
                 n = 13 /\ Where(Tail(todo["core"]), 11, "release", poll_mode)
           /\ Head(todo["core"]) = "irq_teardown" =>
                 n = 11 /\ Where(Tail(todo["core"]), 10, "release", poll_mode)
           /\ ~Among("irq_setup_again", todo["core"]) /\ ~Among("aer_disable", todo["core"])
           /\ "overlap" \notin seen => todo["ioctl"] = <<>>
  <1>1. /\ Row(todo["core"], n, c, poll_mode) /\ Where(todo["core"], n, c, poll_mode)
        /\ todo["core"] # <<>>
    BY CoreRow DEF Inv, Idle
  <1>2. c = "release"
    BY <1>1 DEF Row, Groups
  <1>3. ReleaseStep(todo["core"], n, poll_mode)
    BY <1>1, <1>2 DEF Row
  <1>4. ~Among("irq_setup_again", todo["core"]) /\ ~Among("aer_disable", todo["core"])
    BY <1>1, Away
  <1>5. "overlap" \notin seen => todo["ioctl"] = <<>>
    BY <1>1 DEF Inv, Ioctls
  <1>6. /\ Head(todo["core"]) = "interrupts_disable" =>
                 n = 13 /\ Where(Tail(todo["core"]), 11, "release", poll_mode)
        /\ Head(todo["core"]) = "irq_teardown" =>
                 n = 11 /\ Where(Tail(todo["core"]), 10, "release", poll_mode)
    BY <1>3 DEF ReleaseStep
  <1> QED BY <1>2, <1>4, <1>5, <1>6

\* What disabling the interrupts changes.
LEMMA DisableStep ==
    ASSUME Typed, NEW a \in Actors, interrupts_disable(a)
    PROVE  /\ Typed' /\ Moves(a, Tail(todo[a])) /\ todo[a] # <<>>
           /\ seen \subseteq seen' /\ seen' \subseteq seen \cup {"late_work"}
           /\ dev.work => "late_work" \in seen'
           /\ poll_mode' = poll_mode /\ aer' = aer /\ probes' = probes /\ resets' = resets
           /\ SameNodes /\ SameOwned /\ SameEngines /\ SameIrq /\ SameCounts
           /\ dev'.unmasked = {} /\ dev'.shutdown = dev.shutdown /\ dev'.offline = dev.offline
  <1>1. /\ todo \in [Actors -> Seq(Steps)] /\ todo[a] \in Seq(Steps) /\ todo[a] # <<>>
        /\ todo' = [todo EXCEPT ![a] = Tail(@)]
    BY DEF Typed, Idle, At, interrupts_disable
  <1>2. Tail(todo[a]) \in Seq(Steps)
    BY <1>1, HeadTailProperties
  <1>3. todo' \in [Actors -> Seq(Steps)] /\ Moves(a, Tail(todo[a]))
    BY <1>1, <1>2 DEF Moves
  <1>4. dev \in Devices /\ dev' = [dev EXCEPT !.unmasked = {}]
    BY DEF Typed, interrupts_disable
  <1>5. /\ dev' \in Devices /\ SameNodes /\ SameOwned /\ SameEngines /\ SameIrq /\ SameCounts
        /\ dev'.unmasked = {} /\ dev'.shutdown = dev.shutdown /\ dev'.offline = dev.offline
    BY <1>4 DEF Devices, SameNodes, SameOwned, SameEngines, SameIrq, SameCounts
  <1>6. /\ seen \subseteq seen' /\ seen' \subseteq seen \cup {"late_work"}
        /\ dev.work => "late_work" \in seen'
        /\ poll_mode' = poll_mode /\ aer' = aer /\ probes' = probes /\ resets' = resets
        /\ raised' = raised /\ reader' = reader
    BY DEF interrupts_disable, rest, user
  <1>7. Typed'
    BY <1>3, <1>5, <1>6 DEF Typed
  <1> QED BY <1>1, <1>3, <1>5, <1>6, <1>7

\* channel_interrupts_disable and user_interrupts_disable
LEMMA InterruptsClose ==
    ASSUME Typed, NEW n \in 0 .. 13, NEW c \in Phases, Inv(n, c), c \notin {"open", "cycle"},
           interrupts_disable("core")
    PROVE  IInv'
  <1>1. ~Idle("core") /\ Head(todo["core"]) = "interrupts_disable" /\ "core" \in Actors
    BY DEF interrupts_disable, At, Actors
  <1>2. /\ c = "release" /\ n = 13 /\ Where(Tail(todo["core"]), 11, "release", poll_mode)
        /\ ~Among("irq_setup_again", todo["core"]) /\ ~Among("aer_disable", todo["core"])
        /\ "overlap" \notin seen => todo["ioctl"] = <<>>
    BY <1>1, CloseAt
  <1>5. /\ Typed' /\ Moves("core", Tail(todo["core"]))
        /\ seen \subseteq seen' /\ seen' \subseteq seen \cup {"late_work"}
        /\ dev.work => "late_work" \in seen'
        /\ poll_mode' = poll_mode /\ aer' = aer /\ probes' = probes /\ resets' = resets
    BY <1>1, DisableStep
  <1>6. /\ SameNodes /\ SameOwned /\ SameEngines /\ SameIrq /\ SameCounts
        /\ dev'.unmasked = {} /\ dev'.shutdown = dev.shutdown /\ dev'.offline = dev.offline
    BY <1>1, DisableStep
  <1>7. todo'["core"] = Tail(todo["core"]) /\ todo'["ioctl"] = todo["ioctl"]
    BY <1>5 DEF Moves, Actors
  <1>8. /\ ~Among("irq_setup_again", todo'["core"]) /\ ~Among("aer_disable", todo'["core"])
        /\ \A x \in Upward : ~At("core", x)'
    <2>1. "release" \in Phases
      BY DEF Phases
    <2>2. /\ ~Among("irq_setup_again", Tail(todo["core"]))
          /\ ~Among("aer_disable", Tail(todo["core"]))
          /\ Tail(todo["core"]) # <<>> => Head(Tail(todo["core"])) \notin Upward
      BY <1>2, <2>1, Away
    <2> QED BY <1>7, <2>2 DEF At, Idle
  <1>9. Handlers(dev') = Handlers(dev) /\ Inv(13, "release")
    BY <1>2, <1>6, SameHandlers
  <1>10. Handled(11, "release")'
    <2>1. Handled(13, "release") /\ 13 >= 11 /\ 11 >= 11
      BY <1>9 DEF Inv
    <2>2. \A a \in Actors : AtAny(a, Upward)' => AtAny(a, Upward)
      <3>1. ~AtAny("core", Upward)'
        BY <1>8 DEF AtAny, At
      <3>2. AtAny("ioctl", Upward)' <=> AtAny("ioctl", Upward)
        BY <1>7 DEF AtAny, Idle
      <3> QED BY <3>1, <3>2 DEF Actors
    <2>3. /\ seen' \cap {"irq_setup", "into_close"} = seen \cap {"irq_setup", "into_close"}
          /\ seen' \cap {"online_again", "overlap"} = seen \cap {"online_again", "overlap"}
      BY <1>5
    <2> QED BY <1>6, <1>9, <2>1, <2>2, <2>3 DEF Handled, SameIrq, SameEngines
  <1>11. Counted(11, "release")'
    <2>1. Counted(13, "release")
      BY <1>9 DEF Inv
    <2> QED BY <1>2, <1>5, <1>6, <1>7, <1>8, <2>1 DEF Counted, One, SameIrq, SameEngines
  <1>12. Cycled(11, "release")'
    <2> SUFFICES ASSUME Calm'
                 PROVE  \A a \in Actors :
                           /\ ~At(a, "interrupts_enable")' /\ ~AtAny(a, Upward)'
                           /\ ~At(a, "clear_offline")'
      <3>1. Unmasked' = {} /\ (dev'.work => "late_work" \in seen')
        BY <1>5, <1>6 DEF Unmasked, SameEngines
      <3> QED BY <1>6, <3>1 DEF Cycled
    <2>1. todo'["ioctl"] = <<>>
      BY <1>2, <1>5, <1>7 DEF Calm
    <2> QED BY <1>8, <2>1 DEF Actors, At, AtAny, Idle, Upward
  <1> QED BY <1>2, <1>5, <1>6, <1>9, <1>10, <1>11, <1>12, CloseStep

\* irq_teardown
LEMMA TeardownClose ==
    ASSUME Typed, NEW n \in 0 .. 13, NEW c \in Phases, Inv(n, c), c \notin {"open", "cycle"},
           TeardownIrq("core")
    PROVE  IInv'
  <1>1. ~Idle("core") /\ Head(todo["core"]) = "irq_teardown" /\ "core" \in Actors
    BY DEF TeardownIrq, At, Actors
  <1>2. /\ c = "release" /\ n = 11 /\ Where(Tail(todo["core"]), 10, "release", poll_mode)
        /\ ~Among("irq_setup_again", todo["core"]) /\ ~Among("aer_disable", todo["core"])
        /\ "overlap" \notin seen => todo["ioctl"] = <<>>
    BY <1>1, CloseAt
  <1>3. /\ dev \in Devices /\ Inv(11, "release")
        /\ Handled(11, "release") /\ Counted(11, "release") /\ Cycled(11, "release")
    BY <1>2 DEF Typed, Inv
  <1>4. Handlers(dev) \subseteq dev.lines
    <2>1. 11 >= 11
      OBVIOUS
    <2> QED BY <1>3, <2>1 DEF Handled
  <1> DEFINE d == irq_teardown(dev)
  <1>5. /\ d \in Devices /\ Rewired(dev, d)
        /\ \A l \in Lines : d.irq[l] = IF l \in Handlers(dev) /\ dev.irq[l] > 0
                                       THEN dev.irq[l] - 1 ELSE dev.irq[l]
    BY <1>3, <1>4, TornDown
  <1>6. Succeed("core", d)
    BY DEF TeardownIrq
  <1> HIDE DEF d
  <1>7. /\ Typed' /\ dev' = d /\ Moves("core", Tail(todo["core"])) /\ seen' = seen
        /\ poll_mode' = poll_mode /\ aer' = aer /\ probes' = probes /\ resets' = resets
    BY <1>1, <1>5, <1>6, SucceedStep
  <1>8. /\ SameOwned /\ SameEngines /\ SameCycle /\ SameNodes /\ SameCounts
        /\ Handlers(dev') = Handlers(dev)
    BY <1>5, <1>7, RewiredSame
  <1>9. todo'["core"] = Tail(todo["core"]) /\ todo'["ioctl"] = todo["ioctl"]
    BY <1>7 DEF Moves, Actors
  <1>10. /\ ~Among("irq_setup_again", todo'["core"]) /\ ~Among("aer_disable", todo'["core"])
         /\ \A x \in Upward \cup {"irq_teardown"} : ~At("core", x)'
    <2>1. "release" \in Phases /\ 10 # 11
      BY DEF Phases
    <2>2. /\ ~Among("irq_setup_again", Tail(todo["core"]))
          /\ ~Among("aer_disable", Tail(todo["core"]))
          /\ Tail(todo["core"]) # <<>> =>
                Head(Tail(todo["core"])) \notin Upward \cup {"irq_teardown"}
      BY <1>2, <2>1, Away
    <2> QED BY <1>9, <2>2 DEF At, Idle
  <1>11. dev.irq \in [Lines -> Nat] /\ resets \in Nat /\ Shared \in Lines
    BY <1>3, HandlerLines, DeviceAssumption DEF Typed, Devices
  <1>12. Shared \in Handlers(dev) <=> dev.msix # "msix"
    BY <1>3, HandlerLines
  <1>13. Handled(10, "release")'
    <2>1. \A l \in Lines \ {Shared} : /\ dev'.irq[l] <= 1
                                      /\ dev'.irq[l] > 0 => seen' \cap {"irq_setup", "into_close"} # {}
      <3> SUFFICES ASSUME NEW l \in Lines \ {Shared}
                   PROVE  dev'.irq[l] <= 1 /\ (dev'.irq[l] > 0 => seen' \cap {"irq_setup", "into_close"} # {})
        OBVIOUS
      <3>1. /\ dev.irq[l] <= 1 /\ dev.irq[l] \in Nat
            /\ dev.irq[l] > 0 /\ seen \cap {"irq_setup", "into_close"} = {} => l \in Handlers(dev)
        BY <1>3, <1>11 DEF Handled
      <3>2. dev'.irq[l] = IF l \in Handlers(dev) /\ dev.irq[l] > 0
                          THEN dev.irq[l] - 1 ELSE dev.irq[l]
        BY <1>5, <1>7
      <3> QED BY <1>7, <3>1, <3>2
    <2>2. ASSUME seen' \cap {"online_again", "overlap"} = {}
          PROVE  /\ dev'.irq[Shared] = 0
                 /\ \A a \in Actors : AtAny(a, Upward)' => dev'.offline
      <3>1. /\ dev.irq[Shared] <= 1 /\ (dev.irq[Shared] > 0 => dev.msix # "msix")
            /\ \A a \in Actors : AtAny(a, Upward) => dev.offline
        BY <1>3, <1>7, <2>2 DEF Handled
      <3>2. dev'.irq[Shared] = 0
        BY <1>5, <1>7, <1>11, <1>12, <3>1
      <3>3. ~AtAny("core", Upward)'
        BY <1>10 DEF AtAny, At
      <3>4. AtAny("ioctl", Upward)' <=> AtAny("ioctl", Upward)
        BY <1>9 DEF AtAny, Idle
      <3> QED BY <1>8, <3>1, <3>2, <3>3, <3>4 DEF Actors, SameCycle
    <2>3. ~(10 >= 11) /\ 0 <= 1 /\ ~(0 > 0)
      OBVIOUS
    <2> QED BY <2>1, <2>2, <2>3 DEF Handled
  <1>14. Counted(10, "release")'
    <2> DEFINE pending == One(Among("irq_setup_again", todo["ioctl"])) + One(aer = "frozen")
    <2>1. /\ pending \in Nat /\ pending <= resets
          /\ dev.irq[Shared] + pending <= resets + One(dev.msix # "msix")
      BY <1>2, <1>3 DEF Counted, One
    <2>2. dev'.irq[Shared] + pending <= resets
      <3> HIDE DEF pending
      <3> QED BY <1>5, <1>7, <1>11, <1>12, <2>1 DEF One
    <2>3. pending = One(Among("irq_setup_again", todo'["ioctl"]))
                    + One(aer' = "frozen" \/ Among("irq_setup_again", todo'["core"])
                                          \/ Among("aer_disable", todo'["core"]))
      BY <1>7, <1>9, <1>10 DEF One
    <2>4. One(10 >= 11 /\ dev'.msix # "msix") = 0 /\ resets' + 0 = resets /\ resets' = resets
      BY <1>7, <1>11 DEF One
    <2> HIDE DEF pending
    <2>5. /\ pending <= resets'
          /\ dev'.irq[Shared] + pending <= resets' + One(10 >= 11 /\ dev'.msix # "msix")
      BY <2>1, <2>2, <2>4
    <2> QED BY <2>3, <2>5 DEF Counted
  <1>15. Cycled(10, "release")'
    <2>1. /\ "overlap" \notin seen' => Unmasked' = {}
          /\ dev'.work => "channel" \in dev'.unmasked \/ "late_work" \in seen'
      BY <1>3, <1>7, <1>8 DEF Cycled, SameCycle, Unmasked
    <2> SUFFICES ASSUME Calm'
                 PROVE  \A a \in Actors :
                           /\ ~At(a, "interrupts_enable")' /\ ~AtAny(a, Upward)'
                           /\ ~At(a, "clear_offline")'
      <3>1. Calm' => Unmasked' = {}
        BY <2>1 DEF Calm
      <3> QED BY <2>1, <3>1 DEF Cycled
    <2>2. todo'["ioctl"] = <<>>
      BY <1>2, <1>7, <1>9 DEF Calm
    <2> QED BY <1>10, <2>2 DEF Actors, At, AtAny, Idle, Upward
  <1> QED BY <1>2, <1>3, <1>7, <1>8, <1>13, <1>14, <1>15, CloseStep

-----------------------------------------------------------------------------
(* Taking the device offline and online *)

CycleSteps == {"set_offline", "start_engines"} \cup Downward \cup Upward

\* The parts of Handled and Cycled for an open device whose one busy actor is
\* at step x, "" for none.
LinesUsed(d, S) ==
    /\ Handlers(d) \subseteq d.lines
    /\ \A l \in Lines \ {Shared} :
          /\ d.irq[l] <= 1
          /\ d.irq[l] > 0 /\ S \cap {"irq_setup", "into_close"} = {} => d.msix = "msix" /\ l \in Handlers(d)

SharedAt(d, x) ==
    /\ d.irq[Shared] <= 1
    /\ d.irq[Shared] > 0 => d.msix # "msix"
    /\ x \in Upward => d.offline
    /\ d.offline /\ x \notin Downward \cup {"interrupts_enable", "clear_offline"} =>
          d.irq[Shared] = 0

Wired(d) == \A l \in Handlers(d) : d.irq[l] > 0

\* Unmasked, of device d and history S.
StillOn(d, S) == d.unmasked \ (IF "late_work" \in S THEN {"channel"} ELSE {})

WorkingAt(d, S, x, p) ==
    /\ StillOn(d, S) # {} => Wired(d)
    /\ ~d.offline => ~d.shutdown /\ (~p => d.unmasked = {"channel", "user"})
    /\ x = "irq_teardown" => StillOn(d, S) = {}
    /\ x = "interrupts_enable" => Wired(d)
    /\ x \in Downward => d.offline
    /\ x \in Upward => ~d.shutdown
    /\ x = "clear_offline" /\ ~p => d.unmasked = {"channel", "user"}

\* Actor a takes an open device offline or online.
Cycling(a, c) ==
    /\ c \in {"idle", "create", "cycle"} /\ (a = "core" => c = "cycle")
    /\ ~Idle(a) /\ Head(todo[a]) \in CycleSteps

\* The phase after a step that leaves the steps t.
After(a, t, c) == IF a = "core" /\ t = <<>> THEN "idle" ELSE c

\* Which step follows.
LEMMA CycleNext ==
    ASSUME Typed, NEW a \in Actors, NEW c \in Phases, Inv(13, c), Cycling(a, c),
           NEW s, s = todo[a]
    PROVE  /\ s \in Seq(Steps) /\ s # <<>> /\ poll_mode \in BOOLEAN
           /\ \/ CycleStep(s, First(Tail(s)), {"aer_disable"})
              \/ OnlineStep(s, First(Tail(s)), poll_mode)
           /\ Head(s) # "aer_disable" /\ Head(s) # "slot_reset" /\ First(Tail(s)) # "slot_reset"
           /\ a = "ioctl" => Tail(s) = <<>> \/ Cycle(Tail(s), poll_mode)
           /\ a = "core" => Where(Tail(s), 13, After(a, Tail(s), c), poll_mode)
  <1>1. s # <<>> /\ Head(s) \in CycleSteps /\ poll_mode \in BOOLEAN
    BY DEF Cycling, Idle, Typed
  <1>2. Head(s) # "aer_disable" /\ Head(s) # "slot_reset"
    BY <1>1 DEF CycleSteps, Downward, Upward
  <1>3. Cycle(s, poll_mode) \/ (a = "core" /\ Recovery(s))
    <2>1. CASE a = "ioctl"
      BY <1>1, <2>1 DEF Inv, Ioctls
    <2>2. CASE a = "core"
      <3>1. Where(s, 13, "cycle", poll_mode)
        BY <2>2 DEF Inv, Cycling
      <3> QED BY <2>2, <3>1 DEF Where
    <2> QED BY <2>1, <2>2 DEF Actors
  <1>4. CASE Cycle(s, poll_mode)
    <2>1. /\ s \in Seq(Steps)
          /\ CycleStep(s, First(Tail(s)), {}) \/ OnlineStep(s, First(Tail(s)), poll_mode)
          /\ Tail(s) = <<>> \/ Cycle(Tail(s), poll_mode)
      BY <1>1, <1>4, CycleRow
    <2>2. /\ \/ CycleStep(s, First(Tail(s)), {"aer_disable"})
             \/ OnlineStep(s, First(Tail(s)), poll_mode)
          /\ First(Tail(s)) # "slot_reset"
      BY <1>1, <2>1 DEF CycleStep, OnlineStep
    <2>3. a = "core" => Where(Tail(s), 13, After(a, Tail(s), c), poll_mode)
      BY <2>1 DEF Where, After, Cycling
    <2> QED BY <1>1, <1>2, <2>1, <2>2, <2>3
  <1>5. CASE a = "core" /\ Recovery(s)
    <2>1. /\ s \in Seq(Steps) /\ CycleStep(s, First(Tail(s)), {"aer_disable"})
          /\ Recovery(Tail(s))
      BY <1>2, <1>5, RecoveryRow
    <2>2. First(Tail(s)) # "slot_reset"
      BY <2>1 DEF CycleStep
    <2>3. Tail(s) # <<>>
      BY <2>1, RecoveryRow
    <2>4. Where(Tail(s), 13, After(a, Tail(s), c), poll_mode)
      BY <1>5, <2>1, <2>3 DEF Where, After, Cycling
    <2> QED BY <1>1, <1>2, <1>5, <2>1, <2>2, <2>4
  <1> QED BY <1>3, <1>4, <1>5

\* What the invariant says of such an actor.
LEMMA CycleRead ==
    ASSUME Typed, NEW a \in Actors, NEW c \in Phases, Inv(13, c), Cycling(a, c)
    PROVE  /\ LinesUsed(dev, seen)
           /\ "overlap" \notin seen =>
                 c # "create" /\ \A b \in Actors \ {a} : todo[b] = <<>>
           /\ seen \cap {"online_again", "overlap"} = {} => SharedAt(dev, Head(todo[a]))
           /\ Calm => WorkingAt(dev, seen, Head(todo[a]), poll_mode)
  <1>1. Handled(13, c) /\ Cycled(13, c) /\ Ioctls(13, c) /\ 13 >= 11 /\ 13 = 13
    BY DEF Inv
  <1>2. todo[a] # <<>> /\ ~Idle(a) /\ c \in {"idle", "create", "cycle"}
    BY DEF Cycling, Idle
  <1>3. LinesUsed(dev, seen)
    BY <1>1, Zenon DEF Handled, LinesUsed
  <1>4. ASSUME "overlap" \notin seen
        PROVE  c # "create" /\ \A b \in Actors \ {a} : todo[b] = <<>>
    <2>1. \A b \in Actors \ {a} : todo[b] = <<>>
      BY <1>1, <1>2, <1>4 DEF Ioctls, Actors
    <2>2. c # "create"
      <3>1. CASE a = "core"
        BY <3>1 DEF Cycling
      <3>2. CASE a = "ioctl"
        <4>1. todo["core"] = <<>> /\ Where(todo["core"], 13, c, poll_mode)
          BY <2>1, <3>2 DEF Actors, Inv
        <4>2. c # "cycle" => c = "idle"
          BY <4>1, Away
        <4> QED BY <4>2
      <3> QED BY <3>1, <3>2 DEF Actors
    <2> QED BY <2>1, <2>2
  <1>5. ASSUME seen \cap {"online_again", "overlap"} = {}
        PROVE  SharedAt(dev, Head(todo[a]))
    <2>1. /\ dev.irq[Shared] <= 1 /\ (dev.irq[Shared] > 0 => dev.msix # "msix")
          /\ \A b \in Actors : AtAny(b, Upward) => dev.offline
          /\ /\ dev.offline
             /\ \A b \in Actors :
                   ~AtAny(b, Downward \cup {"interrupts_enable", "clear_offline"})
             => dev.irq[Shared] = 0
      BY <1>1, <1>2, <1>5 DEF Handled
    <2>2. \A b \in Actors \ {a} : \A U : ~AtAny(b, U)
      BY <1>4, <1>5 DEF AtAny, Idle
    <2>3. \A U : AtAny(a, U) <=> Head(todo[a]) \in U
      BY <1>2 DEF AtAny
    <2> QED BY <2>1, <2>2, <2>3 DEF SharedAt
  <1>6. ASSUME Calm PROVE WorkingAt(dev, seen, Head(todo[a]), poll_mode)
    <2>1. c \in {"idle", "cycle"}
      BY <1>2, <1>4, <1>6 DEF Calm
    <2>2. /\ Unmasked # {} => Up
          /\ ~dev.offline =>
                ~dev.shutdown /\ (~poll_mode => dev.unmasked = {"channel", "user"})
          /\ At(a, "irq_teardown") => Unmasked = {}
          /\ At(a, "interrupts_enable") => Up
          /\ AtAny(a, Downward) => dev.offline
          /\ AtAny(a, Upward) => ~dev.shutdown
          /\ At(a, "clear_offline") /\ ~poll_mode => dev.unmasked = {"channel", "user"}
      BY <1>1, <1>6, <2>1 DEF Cycled
    <2>3. Unmasked = StillOn(dev, seen)
      BY DEF Unmasked, StillOn
    <2> QED BY <1>2, <2>2, <2>3 DEF WorkingAt, Wired, Up, At, AtAny
  <1> QED BY <1>3, <1>4, <1>5, <1>6

\* The handlers that are registered and those that may still be, after a step
\* of taking the device offline or online at whatever level.
LEMMA CountStep ==
    ASSUME Typed, Typed', NEW a \in Actors, NEW n \in 0 .. 13, NEW c, Counted(n, c),
           todo[a] \in Seq(Steps), todo[a] # <<>>,
           \/ CycleStep(todo[a], First(Tail(todo[a])), {"aer_disable"})
           \/ OnlineStep(todo[a], First(Tail(todo[a])), poll_mode),
           a = "core" /\ Head(todo[a]) = "irq_setup_again" => aer = "normal",
           Moves(a, Tail(todo[a])), aer' = aer, resets' = resets, SameEngines,
           \/ dev'.irq[Shared] <= dev.irq[Shared]
           \/ /\ dev'.irq[Shared] = dev.irq[Shared] + 1
              /\ Head(todo[a]) = "irq_setup_again",
           NEW e
    PROVE  Counted(n, e)'
  <1> DEFINE s == todo[a]
             t == Tail(s)
             i == One(Among("irq_setup_again", todo["ioctl"]))
             k == One(aer = "frozen" \/ Among("irq_setup_again", todo["core"])
                                     \/ Among("aer_disable", todo["core"]))
             i1 == One(Among("irq_setup_again", todo'["ioctl"]))
             k1 == One(aer' = "frozen" \/ Among("irq_setup_again", todo'["core"])
                                       \/ Among("aer_disable", todo'["core"]))
             m == One(n >= 11 /\ dev.msix # "msix")
  <1>1. /\ s \in Seq(Steps) /\ s # <<>>
        /\ CycleStep(s, First(t), {"aer_disable"}) \/ OnlineStep(s, First(t), poll_mode)
    OBVIOUS
  <1>2. \A x : Among(x, s) <=> Head(s) = x \/ Among(x, t)
    BY <1>1, AmongTail
  <1>3. i1 <= i /\ k1 <= k
    <2>1. CASE a = "core"
      <3>1. todo'["core"] = t /\ todo'["ioctl"] = todo["ioctl"]
        BY <2>1 DEF Moves, Actors
      <3> QED BY <1>2, <2>1, <3>1 DEF One
    <2>2. CASE a = "ioctl"
      <3>1. todo'["ioctl"] = t /\ todo'["core"] = todo["core"]
        BY <2>2 DEF Moves, Actors
      <3> QED BY <1>2, <2>2, <3>1 DEF One
    <2> QED BY <2>1, <2>2 DEF Actors
  <1>4. Head(s) = "irq_setup_again" => (i1 = 0 /\ i = 1) \/ (k1 = 0 /\ k = 1)
    <2> SUFFICES ASSUME Head(s) = "irq_setup_again"
                 PROVE  (i1 = 0 /\ i = 1) \/ (k1 = 0 /\ k = 1)
      OBVIOUS
    <2>1. ~Among("irq_setup_again", t) /\ ~Among("aer_disable", t) /\ Among("irq_setup_again", s)
      BY <1>1, <1>2 DEF CycleStep, OnlineStep
    <2>2. CASE a = "core"
      <3>1. aer = "normal"
        BY <2>2
      <3>2. todo'["core"] = t
        BY <2>2 DEF Moves
      <3> QED BY <2>1, <2>2, <3>1, <3>2 DEF One
    <2>3. CASE a = "ioctl"
      <3>1. todo'["ioctl"] = t
        BY <2>3 DEF Moves
      <3> QED BY <2>1, <2>3, <3>1 DEF One
    <2> QED BY <2>2, <2>3 DEF Actors
  <1>5. i + k <= resets /\ dev.irq[Shared] + (i + k) <= resets + m
    BY DEF Counted
  <1>6. i \in Nat /\ k \in Nat /\ i1 \in Nat /\ k1 \in Nat /\ m \in Nat
    BY DEF One
  <1>7. dev.irq[Shared] \in Nat /\ dev'.irq[Shared] \in Nat /\ resets \in Nat
    <2>1. Shared \in Lines
      BY DEF Shared, Lines
    <2>2. dev.irq \in [Lines -> Nat] /\ dev'.irq \in [Lines -> Nat] /\ resets \in Nat
      BY DeviceAssumption DEF Typed, Devices
    <2> QED BY <2>1, <2>2
  <1>8. m = One(n >= 11 /\ dev'.msix # "msix")
    BY DEF SameEngines
  <1> HIDE DEF s, t, i, k, i1, k1, m
  <1>9. i1 + k1 <= resets' /\ dev'.irq[Shared] + (i1 + k1) <= resets' + m
    BY <1>3, <1>4, <1>5, <1>6, <1>7 DEF s
  <1> QED BY <1>8, <1>9 DEF Counted, i1, k1

\* The same for an open device.
LEMMA CycleCount ==
    ASSUME Typed, Typed', NEW a \in Actors, NEW c \in Phases, Inv(13, c), Cycling(a, c),
           Moves(a, Tail(todo[a])), aer' = aer, resets' = resets, SameEngines,
           \/ dev'.irq[Shared] <= dev.irq[Shared]
           \/ /\ dev'.irq[Shared] = dev.irq[Shared] + 1
              /\ Head(todo[a]) = "irq_setup_again",
           NEW e
    PROVE  Counted(13, e)'
  <1>1. /\ todo[a] \in Seq(Steps) /\ todo[a] # <<>>
        /\ \/ CycleStep(todo[a], First(Tail(todo[a])), {"aer_disable"})
           \/ OnlineStep(todo[a], First(Tail(todo[a])), poll_mode)
        /\ Head(todo[a]) # "slot_reset"
    BY CycleNext
  <1>2. a = "core" => aer = "normal"
    BY <1>1 DEF Cycling, Inv, Enabled, At
  <1>3. Counted(13, c) /\ 13 \in 0 .. 13
    BY DEF Inv
  <1> QED BY <1>1, <1>2, <1>3, CountStep

\* What such a step has to show.
LEMMA CycleMove ==
    ASSUME Typed, Typed', NEW a \in Actors, NEW c \in Phases, Inv(13, c), Cycling(a, c),
           Moves(a, Tail(todo[a])),
           seen \subseteq seen', "overlap" \in seen' => "overlap" \in seen,
           poll_mode' = poll_mode, aer' = aer, probes' = probes, resets' = resets,
           SameOwned, SameEngines, SameNodes, SameCounts,
           \/ dev'.irq[Shared] <= dev.irq[Shared]
           \/ /\ dev'.irq[Shared] = dev.irq[Shared] + 1
              /\ Head(todo[a]) = "irq_setup_again",
           LinesUsed(dev', seen'),
           seen' \cap {"online_again", "overlap"} = {} => SharedAt(dev', First(Tail(todo[a]))),
           Calm' => WorkingAt(dev', seen', First(Tail(todo[a])), poll_mode),
           dev'.work => "channel" \in dev'.unmasked \/ "late_work" \in seen'
    PROVE  IInv'
  <1>0. PICK e, t, y : t = Tail(todo[a]) /\ y = First(t) /\ e = After(a, t, c)
    OBVIOUS
  <1>1. /\ todo[a] # <<>> /\ Head(todo[a]) # "slot_reset" /\ y # "slot_reset"
        /\ a = "ioctl" => t = <<>> \/ Cycle(t, poll_mode)
        /\ a = "core" => Where(t, 13, e, poll_mode)
    BY <1>0, CycleNext
  <1>2. /\ c \in {"idle", "create", "cycle"} /\ (a = "core" => c = "cycle")
        /\ "overlap" \notin seen => c # "create" /\ \A b \in Actors \ {a} : todo[b] = <<>>
    BY CycleRead DEF Cycling
  <1>3. /\ e \in {"idle", "create", "cycle"} /\ e \in Phases
        /\ e = c \/ (e = "idle" /\ c = "cycle")
        /\ a = "ioctl" => e = c
    BY <1>0, <1>2 DEF After, Phases
  <1>4. todo'[a] = t /\ \A b \in Actors \ {a} : todo'[b] = todo[b]
    BY <1>0 DEF Moves
  <1>5. /\ a = "core" => todo'["core"] = t /\ todo'["ioctl"] = todo["ioctl"]
        /\ a = "ioctl" => todo'["ioctl"] = t /\ todo'["core"] = todo["core"]
        /\ a = "core" \/ a = "ioctl"
    BY <1>4 DEF Actors
  <1>6. Where(todo'["core"], 13, e, poll_mode')
    BY <1>1, <1>3, <1>5 DEF Inv
  <1>7. Held(13, e)'
    <2>1. Held(13, c) /\ (e \in {"idle", "cycle"} => dev.bound)
      BY <1>2, <1>3 DEF Inv, Held
    <2> QED BY <2>1, HeldHigh DEF SameOwned
  <1>8. Ioctls(13, e)'
    <2>1. Ioctls(13, c)
      BY DEF Inv
    <2>2. todo'["ioctl"] = <<>> \/ Cycle(todo'["ioctl"], poll_mode')
      BY <1>1, <1>5, <2>1 DEF Ioctls
    <2>3. "overlap" \notin seen' => todo'["core"] = <<>> \/ todo'["ioctl"] = <<>>
      BY <1>1, <1>5, <2>1 DEF Ioctls
    <2> QED BY <2>2, <2>3 DEF Ioctls
  <1>9. Enabled(13, e)'
    <2>1. Enabled(13, c) /\ Base(13)' = Base(13)
      BY DEF Inv, Base, SameCounts
    <2>2. a = "core" => aer = "normal" /\ ~At("core", "slot_reset")'
      BY <1>0, <1>1, <1>2, <1>5, <2>1 DEF Enabled, At, Idle, First
    <2>3. a = "ioctl" => (At("core", "slot_reset")' <=> At("core", "slot_reset"))
      BY <1>5 DEF At, Idle
    <2>4. 13 >= 4
      OBVIOUS
    <2>5. /\ Base(13)' > 0 => "request_regions" \in seen'
          /\ Base(13)' < 0 => "remove_frozen" \in seen'
          /\ -(probes' - 1) <= Base(13)' /\ Base(13)' <= probes' - 1
      BY <2>1, <2>4 DEF Enabled
    <2>6. /\ e = "create" => aer' = "normal"
          /\ e = "cycle" => (At("core", "slot_reset")' <=> aer' # "normal")
          /\ At("core", "slot_reset")' => aer' = "frozen"
      BY <1>2, <1>3, <1>5, <2>1, <2>2, <2>3 DEF Enabled
    <2> QED BY <1>3, <2>4, <2>5, <2>6 DEF Enabled
  <1>10. Threads(13, e)'
    <2>1. Threads(13, c) /\ 13 \in 0 .. 13 /\ 13 >= 3 /\ dev'.threads = dev.threads /\ e # "open"
      BY <1>3 DEF Inv, SameCounts
    <2> QED BY <2>1, ThreadsFrame
  <1>11. Nodes(13, e)'
    <2>1. Present(13, e) /\ dev'.h2c = dev.h2c /\ dev'.c2h = dev.c2h /\ Nodes(13, c)
      BY <1>3 DEF Present, SameEngines, Inv
    <2> QED BY <2>1, NodesFrame
  <1>12. Counted(13, e)'
    BY CycleCount
  <1>13. "overlap" \notin seen' => \A b \in Actors \ {a} : todo'[b] = <<>>
    BY <1>2, <1>4
  <1>14. /\ \A U \in SUBSET (Downward \cup Upward) : AtAny(a, U)' <=> y \in U
         /\ \A x \in Downward \cup Upward : At(a, x)' <=> y = x
    BY <1>0, <1>4 DEF AtAny, At, Idle, First, Downward, Upward
  <1>15. "overlap" \notin seen' =>
            \A b \in Actors \ {a} : \A U : ~AtAny(b, U)' /\ ~At(b, U)'
    BY <1>13 DEF AtAny, At, Idle
  <1>16. Handled(13, e)'
    <2>1. /\ Handlers(dev') \subseteq dev'.lines
          /\ \A l \in Lines \ {Shared} :
                /\ dev'.irq[l] <= 1
                /\ dev'.irq[l] > 0 /\ seen' \cap {"irq_setup", "into_close"} = {} =>
                      dev'.msix = "msix" /\ l \in Handlers(dev')
      BY DEF LinesUsed
    <2>2. ASSUME seen' \cap {"online_again", "overlap"} = {}
          PROVE  /\ dev'.irq[Shared] <= 1 /\ (dev'.irq[Shared] > 0 => dev'.msix # "msix")
                 /\ \A b \in Actors : AtAny(b, Upward)' => dev'.offline
                 /\ /\ dev'.offline
                    /\ \A b \in Actors :
                          ~AtAny(b, Downward \cup {"interrupts_enable", "clear_offline"})'
                    => dev'.irq[Shared] = 0
      <3>1. SharedAt(dev', y)
        BY <1>0, <2>2
      <3>2. /\ Upward \in SUBSET (Downward \cup Upward)
            /\ Downward \cup {"interrupts_enable", "clear_offline"} \in
                  SUBSET (Downward \cup Upward)
        BY DEF Upward, Downward
      <3>3. /\ AtAny(a, Upward)' <=> y \in Upward
            /\ AtAny(a, Downward \cup {"interrupts_enable", "clear_offline"})' <=>
                  y \in Downward \cup {"interrupts_enable", "clear_offline"}
        BY <1>14, <3>2
      <3>4. \A b \in Actors \ {a} : ~AtAny(b, Upward)'
        BY <1>15, <2>2
      <3> QED BY <3>1, <3>3, <3>4 DEF SharedAt
    <2>3. 13 >= 11 /\ 13 = 13
      OBVIOUS
    <2> QED BY <2>1, <2>2, <2>3, Zenon DEF Handled
  <1>17. Cycled(13, e)'
    <2>1. ASSUME Calm'
          PROVE  /\ Unmasked' # {} => Up'
                 /\ ~dev'.offline =>
                       ~dev'.shutdown /\ (~poll_mode' => dev'.unmasked = {"channel", "user"})
                 /\ \A b \in Actors :
                       /\ At(b, "irq_teardown")' => Unmasked' = {}
                       /\ At(b, "interrupts_enable")' => Up'
                       /\ AtAny(b, Downward)' => dev'.offline
                       /\ AtAny(b, Upward)' => ~dev'.shutdown
                       /\ At(b, "clear_offline")' /\ ~poll_mode'
                          => dev'.unmasked = {"channel", "user"}
      <3>1. WorkingAt(dev', seen', y, poll_mode)
        BY <1>0, <2>1
      <3>2. "overlap" \notin seen'
        BY <2>1 DEF Calm
      <3>3. /\ AtAny(a, Upward)' <=> y \in Upward
            /\ AtAny(a, Downward)' <=> y \in Downward
            /\ At(a, "irq_teardown")' <=> y = "irq_teardown"
            /\ At(a, "interrupts_enable")' <=> y = "interrupts_enable"
            /\ At(a, "clear_offline")' <=> y = "clear_offline"
        BY <1>14 DEF Upward, Downward
      <3>4. \A b \in Actors \ {a} :
               /\ ~AtAny(b, Upward)' /\ ~AtAny(b, Downward)' /\ ~At(b, "irq_teardown")'
               /\ ~At(b, "interrupts_enable")' /\ ~At(b, "clear_offline")'
        BY <1>15, <3>2
      <3>5. (Up' <=> Wired(dev')) /\ Unmasked' = StillOn(dev', seen')
        BY DEF Up, Wired, Unmasked, StillOn
      <3> QED BY <3>1, <3>3, <3>4, <3>5 DEF WorkingAt
    <2> QED BY <1>3, <2>1 DEF Cycled
  <1> QED BY <1>3, <1>6, <1>7, <1>8, <1>9, <1>10, <1>11, <1>12, <1>16, <1>17 DEF IInv, Inv

\* The premises that the steps share: d is the device after the step, which
\* succeeds.
LEMMA CycleDone ==
    ASSUME Typed, NEW a \in Actors, NEW c \in Phases, Inv(13, c), Cycling(a, c),
           NEW d \in Devices, Succeed(a, d),
           SameOwned /\ SameEngines /\ SameNodes /\ SameCounts,
           \/ d.irq[Shared] <= dev.irq[Shared]
           \/ /\ d.irq[Shared] = dev.irq[Shared] + 1
              /\ Head(todo[a]) = "irq_setup_again",
           LinesUsed(d, seen),
           seen \cap {"online_again", "overlap"} = {} => SharedAt(d, First(Tail(todo[a]))),
           Calm => WorkingAt(d, seen, First(Tail(todo[a])), poll_mode),
           dev.unmasked \subseteq d.unmasked
    PROVE  IInv'
  <1>1. /\ Typed' /\ dev' = d /\ Moves(a, Tail(todo[a])) /\ seen' = seen
        /\ poll_mode' = poll_mode /\ aer' = aer /\ probes' = probes /\ resets' = resets
    BY SucceedStep DEF Cycling
  <1>2. seen \subseteq seen' /\ ("overlap" \in seen' => "overlap" \in seen) /\ (Calm' <=> Calm)
    BY <1>1 DEF Calm
  <1>3. dev'.work => "channel" \in dev'.unmasked \/ "late_work" \in seen'
    BY <1>1 DEF Inv, Cycled, SameEngines
  <1> QED BY <1>1, <1>2, <1>3, CycleMove

\* The device as it is but for offline, shutdown and unmasked.
Switch(d, o, h, u) == [d EXCEPT !.offline = o, !.shutdown = h, !.unmasked = u]

\* What such a device keeps.
LEMMA Switched ==
    ASSUME NEW d \in Devices, NEW o \in BOOLEAN, NEW h \in BOOLEAN,
           NEW u \in SUBSET {"channel", "user"}
    PROVE  /\ Switch(d, o, h, u) \in Devices /\ Handlers(Switch(d, o, h, u)) = Handlers(d)
           /\ Switch(d, o, h, u).offline = o /\ Switch(d, o, h, u).shutdown = h
           /\ Switch(d, o, h, u).unmasked = u /\ Switch(d, o, h, u).irq = d.irq
           /\ Switch(d, o, h, u).lines = d.lines /\ Switch(d, o, h, u).msix = d.msix
           /\ \A S : LinesUsed(d, S) => LinesUsed(Switch(d, o, h, u), S)
           /\ Wired(Switch(d, o, h, u)) <=> Wired(d)
  <1> DEFINE e == Switch(d, o, h, u)
  <1>1. /\ e \in Devices /\ e.offline = o /\ e.shutdown = h /\ e.unmasked = u
        /\ e.irq = d.irq /\ e.lines = d.lines /\ e.msix = d.msix
        /\ e.h2c = d.h2c /\ e.c2h = d.c2h
    BY ZenonT(60) DEF Switch, Devices
  <1> HIDE DEF e
  <1>2. Handlers(e) = Handlers(d)
    BY <1>1 DEF Handlers, Channels, ChannelLines
  <1>3. \A S : LinesUsed(d, S) => LinesUsed(e, S)
    BY <1>1, <1>2 DEF LinesUsed
  <1>4. Wired(e) <=> Wired(d)
    BY <1>1, <1>2 DEF Wired
  <1> QED BY <1>1, <1>2, <1>3, <1>4 DEF e

\* A step that changes no more than offline, shutdown and unmasked.
LEMMA SwitchStep ==
    ASSUME Typed, NEW a \in Actors, NEW c \in Phases, Inv(13, c), Cycling(a, c),
           NEW o \in BOOLEAN, NEW h \in BOOLEAN, NEW u \in SUBSET {"channel", "user"},
           Succeed(a, Switch(dev, o, h, u)),
           seen \cap {"online_again", "overlap"} = {} =>
              SharedAt(Switch(dev, o, h, u), First(Tail(todo[a]))),
           Calm => WorkingAt(Switch(dev, o, h, u), seen, First(Tail(todo[a])), poll_mode),
           dev.unmasked \subseteq u
    PROVE  IInv'
  <1> DEFINE d == Switch(dev, o, h, u)
  <1>1. dev \in Devices /\ dev' = d
    BY DEF Typed, Succeed
  <1>2. SameOwned /\ SameEngines /\ SameNodes /\ SameCounts
    BY <1>1 DEF Switch, Devices, SameOwned, SameEngines, SameNodes, SameCounts
  <1>3. d \in Devices /\ LinesUsed(d, seen) /\ d.irq = dev.irq /\ d.unmasked = u
    BY <1>1, CycleRead, Switched
  <1>4. dev.irq[Shared] <= dev.irq[Shared]
    <2>1. Shared \in Lines
      BY DEF Shared, Lines
    <2>2. dev.irq[Shared] \in Nat
      BY <1>1, <2>1 DEF Devices
    <2> QED BY <2>2
  <1> HIDE DEF d
  <1> QED BY <1>2, <1>3, <1>4, CycleDone DEF d

\* The step that follows each step.
LEMMA CycleFollows ==
    ASSUME Typed, NEW a \in Actors, NEW c \in Phases, Inv(13, c), Cycling(a, c),
           NEW x, x = Head(todo[a]), NEW y, y = First(Tail(todo[a]))
    PROVE  /\ x = "set_offline" => y = "stop_engines"
           /\ x = "stop_engines" => y = "interrupts_disable"
           /\ x = "interrupts_disable" => y = "irq_teardown"
           /\ x = "irq_teardown" => y \in {"", "start_engines", "aer_disable"}
           /\ x = "start_engines" => y = IF poll_mode THEN "clear_offline" ELSE "irq_setup_again"
           /\ x = "irq_setup_again" => y = "interrupts_enable"
           /\ x = "interrupts_enable" => y = "clear_offline"
           /\ x = "clear_offline" => y = ""
  <1>1. \/ CycleStep(todo[a], y, {"aer_disable"})
        \/ OnlineStep(todo[a], y, poll_mode)
    BY CycleNext
  <1> QED BY <1>1 DEF CycleStep, OnlineStep

\* xdma_device_offline: the device is marked offline, its engines are stopped,
\* its interrupts disabled.
LEMMA DownStep ==
    ASSUME Typed, NEW a \in Actors, NEW c \in Phases, Inv(13, c), Cycling(a, c),
           set_offline(a) \/ stop_engines(a) \/ interrupts_disable(a)
    PROVE  IInv'
  <1> DEFINE x == Head(todo[a])
             y == First(Tail(todo[a]))
  <1>1. /\ dev \in Devices /\ dev.offline \in BOOLEAN /\ dev.shutdown \in BOOLEAN
        /\ dev.unmasked \in SUBSET {"channel", "user"}
    BY DEF Typed, Devices
  <1>2. /\ x = "set_offline" => y = "stop_engines"
        /\ x = "stop_engines" => y = "interrupts_disable"
        /\ x = "interrupts_disable" => y = "irq_teardown"
    BY CycleFollows
  <1>3. /\ seen \cap {"online_again", "overlap"} = {} => SharedAt(dev, x)
        /\ Calm => WorkingAt(dev, seen, x, poll_mode)
    BY CycleRead
  <1> HIDE DEF x, y
  <1>4. CASE set_offline(a)
    <2>0. PICK v \in BOOLEAN : v = TRUE
      OBVIOUS
    <2>9. v \in BOOLEAN
      BY <2>0
    <2> DEFINE d == Switch(dev, v, dev.shutdown, dev.unmasked)
    <2>1. [dev EXCEPT !.offline = TRUE] = d
      BY <1>1, <2>0 DEF Switch, Devices
    <2>2. Succeed(a, d) /\ x = "set_offline"
      BY <1>4, <2>1 DEF set_offline, At, x
    <2>3. /\ d.offline = v /\ d.shutdown = dev.shutdown /\ d.unmasked = dev.unmasked
          /\ d.irq = dev.irq /\ d.msix = dev.msix /\ (Wired(d) <=> Wired(dev))
      BY <1>1, <2>9, Switched
    <2> HIDE DEF d
    <2>4. seen \cap {"online_again", "overlap"} = {} => SharedAt(d, y)
      BY <1>2, <1>3, <2>0, <2>2, <2>3 DEF SharedAt, Downward, Upward
    <2>5. Calm => WorkingAt(d, seen, y, poll_mode)
      BY <1>2, <1>3, <2>0, <2>2, <2>3 DEF WorkingAt, StillOn, Downward, Upward
    <2> QED BY <1>1, <2>2, <2>4, <2>5, SwitchStep DEF d, y
  <1>5. CASE stop_engines(a)
    <2>0. PICK v \in BOOLEAN : v = TRUE
      OBVIOUS
    <2>9. v \in BOOLEAN
      BY <2>0
    <2> DEFINE d == Switch(dev, dev.offline, v, dev.unmasked)
    <2>1. [dev EXCEPT !.shutdown = TRUE] = d
      BY <1>1, <2>0 DEF Switch, Devices
    <2>2. Succeed(a, d) /\ x = "stop_engines"
      BY <1>5, <2>1 DEF stop_engines, At, x
    <2>3. /\ d.offline = dev.offline /\ d.shutdown = v /\ d.unmasked = dev.unmasked
          /\ d.irq = dev.irq /\ d.msix = dev.msix /\ (Wired(d) <=> Wired(dev))
      BY <1>1, <2>9, Switched
    <2> HIDE DEF d
    <2>4. seen \cap {"online_again", "overlap"} = {} => SharedAt(d, y)
      BY <1>2, <1>3, <2>0, <2>2, <2>3 DEF SharedAt, Downward, Upward
    <2>5. Calm => WorkingAt(d, seen, y, poll_mode)
      BY <1>2, <1>3, <2>0, <2>2, <2>3 DEF WorkingAt, StillOn, Downward, Upward
    <2> QED BY <1>1, <2>2, <2>4, <2>5, SwitchStep DEF d, y
  <1>6. CASE interrupts_disable(a)
    <2>1. /\ Typed' /\ Moves(a, Tail(todo[a]))
          /\ seen \subseteq seen' /\ seen' \subseteq seen \cup {"late_work"}
          /\ dev.work => "late_work" \in seen'
          /\ poll_mode' = poll_mode /\ aer' = aer /\ probes' = probes /\ resets' = resets
          /\ SameNodes /\ SameOwned /\ SameEngines /\ SameIrq /\ SameCounts
          /\ dev'.unmasked = {} /\ dev'.shutdown = dev.shutdown /\ dev'.offline = dev.offline
      BY <1>6, DisableStep
    <2>2. /\ x = "interrupts_disable" /\ Handlers(dev') = Handlers(dev)
          /\ dev'.irq = dev.irq /\ dev'.lines = dev.lines /\ dev'.msix = dev.msix
      BY <1>6, <2>1, SameHandlers DEF interrupts_disable, At, x, SameIrq, SameEngines
    <2>3. LinesUsed(dev', seen')
      <3>1. LinesUsed(dev, seen)
        BY CycleRead
      <3>2. seen' \cap {"irq_setup", "into_close"} = seen \cap {"irq_setup", "into_close"}
        BY <2>1
      <3> QED BY <2>2, <3>1, <3>2 DEF LinesUsed
    <2>4. seen' \cap {"online_again", "overlap"} = {} => SharedAt(dev', y)
      <3>1. seen' \cap {"online_again", "overlap"} = seen \cap {"online_again", "overlap"}
        BY <2>1
      <3> QED BY <1>2, <1>3, <2>1, <2>2, <3>1 DEF SharedAt, Downward, Upward
    <2>5. Calm' => WorkingAt(dev', seen', y, poll_mode)
      <3>1. Calm' => Calm
        BY <2>1 DEF Calm
      <3>2. StillOn(dev', seen') = {} /\ (Wired(dev') <=> Wired(dev))
        BY <2>1, <2>2 DEF StillOn, Wired
      <3> QED BY <1>2, <1>3, <2>1, <2>2, <3>1, <3>2 DEF WorkingAt, Downward, Upward
    <2>6. dev'.irq[Shared] <= dev.irq[Shared]
      <3>1. Shared \in Lines
        BY DEF Shared, Lines
      <3>2. dev.irq[Shared] \in Nat
        BY <1>1, <3>1 DEF Devices
      <3> QED BY <2>2, <3>2
    <2>7. /\ "overlap" \in seen' => "overlap" \in seen
          /\ dev'.work => "late_work" \in seen'
      BY <2>1 DEF SameEngines
    <2> QED BY <2>1, <2>3, <2>4, <2>5, <2>6, <2>7, CycleMove DEF y
  <1> QED BY <1>4, <1>5, <1>6

\* The end of xdma_device_online: the interrupts are enabled and the device is
\* marked online.
LEMMA UpStep ==
    ASSUME Typed, NEW a \in Actors, NEW c \in Phases, Inv(13, c), Cycling(a, c),
           interrupts_enable(a) \/ clear_offline(a)
    PROVE  IInv'
  <1> DEFINE x == Head(todo[a])
             y == First(Tail(todo[a]))
  <1>1. /\ dev \in Devices /\ dev.offline \in BOOLEAN /\ dev.shutdown \in BOOLEAN
        /\ dev.unmasked \in SUBSET {"channel", "user"}
    BY DEF Typed, Devices
  <1>2. /\ x = "interrupts_enable" => y = "clear_offline"
        /\ x = "clear_offline" => y = ""
    BY CycleFollows
  <1>3. /\ seen \cap {"online_again", "overlap"} = {} => SharedAt(dev, x)
        /\ Calm => WorkingAt(dev, seen, x, poll_mode)
    BY CycleRead
  <1> HIDE DEF x, y
  <1>4. CASE interrupts_enable(a)
    <2> DEFINE u == {"channel", "user"}
               d == Switch(dev, dev.offline, dev.shutdown, u)
    <2>1. [dev EXCEPT !.unmasked = u] = d
      BY <1>1 DEF Switch, Devices
    <2>2. Succeed(a, d) /\ x = "interrupts_enable"
      BY <1>4, <2>1 DEF interrupts_enable, At, x
    <2>3. /\ d.offline = dev.offline /\ d.shutdown = dev.shutdown /\ d.unmasked = u
          /\ d.irq = dev.irq /\ d.msix = dev.msix /\ (Wired(d) <=> Wired(dev))
      BY <1>1, Switched
    <2> HIDE DEF d
    <2>4. seen \cap {"online_again", "overlap"} = {} => SharedAt(d, y)
      BY <1>2, <1>3, <2>2, <2>3 DEF SharedAt, Downward, Upward
    <2>5. Calm => WorkingAt(d, seen, y, poll_mode)
      BY <1>2, <1>3, <2>2, <2>3 DEF WorkingAt, StillOn, Downward, Upward
    <2>6. u \in SUBSET {"channel", "user"} /\ dev.unmasked \subseteq u
      BY <1>1
    <2> HIDE DEF u
    <2> QED BY <1>1, <2>2, <2>4, <2>5, <2>6, SwitchStep DEF d, y
  <1>5. CASE clear_offline(a)
    <2>0. PICK v \in BOOLEAN : v = FALSE
      OBVIOUS
    <2> DEFINE d == Switch(dev, v, dev.shutdown, dev.unmasked)
    <2>1. [dev EXCEPT !.offline = FALSE] = d
      BY <1>1, <2>0 DEF Switch, Devices
    <2>2. Succeed(a, d) /\ x = "clear_offline"
      BY <1>5, <2>1 DEF clear_offline, At, x
    <2>3. /\ d.offline = v /\ d.shutdown = dev.shutdown /\ d.unmasked = dev.unmasked
          /\ d.irq = dev.irq /\ d.msix = dev.msix /\ (Wired(d) <=> Wired(dev))
      BY <1>1, <2>0, Switched
    <2> HIDE DEF d
    <2>4. seen \cap {"online_again", "overlap"} = {} => SharedAt(d, y)
      BY <1>2, <1>3, <2>0, <2>2, <2>3 DEF SharedAt, Downward, Upward
    <2>5. Calm => WorkingAt(d, seen, y, poll_mode)
      BY <1>2, <1>3, <2>0, <2>2, <2>3 DEF WorkingAt, StillOn, Downward, Upward
    <2> QED BY <1>1, <2>2, <2>4, <2>5, SwitchStep DEF d, y
  <1> QED BY <1>4, <1>5

\* irq_teardown: every handler is freed once.
LEMMA TeardownStep ==
    ASSUME Typed, NEW a \in Actors, NEW c \in Phases, Inv(13, c), Cycling(a, c), TeardownIrq(a)
    PROVE  IInv'
  <1> DEFINE x == Head(todo[a])
             y == First(Tail(todo[a]))
             d == irq_teardown(dev)
  <1>1. dev \in Devices /\ x = "irq_teardown" /\ Succeed(a, d) /\ dev' = d
    BY DEF Typed, TeardownIrq, At, Succeed
  <1>2. y \in {"", "start_engines", "aer_disable"}
    BY <1>1, CycleFollows
  <1>3. /\ LinesUsed(dev, seen)
        /\ seen \cap {"online_again", "overlap"} = {} => SharedAt(dev, x)
        /\ Calm => WorkingAt(dev, seen, x, poll_mode)
    BY CycleRead
  <1>4. /\ d \in Devices /\ Rewired(dev, d) /\ d.lines = dev.lines
        /\ \A l \in Lines : d.irq[l] = IF l \in Handlers(dev) /\ dev.irq[l] > 0
                                       THEN dev.irq[l] - 1 ELSE dev.irq[l]
    BY <1>1, <1>3, TornDown DEF LinesUsed
  <1> HIDE DEF x, y, d
  <1>5. /\ SameOwned /\ SameEngines /\ SameCycle /\ SameNodes /\ SameCounts
        /\ Handlers(d) = Handlers(dev)
    BY <1>1, <1>4, RewiredSame
  <1>6. dev.irq \in [Lines -> Nat] /\ Shared \in Lines /\ (Shared \in Handlers(dev) <=> dev.msix # "msix")
    BY <1>1, HandlerLines DEF Devices
  <1>7. \A l \in Lines : d.irq[l] <= dev.irq[l] /\ (dev.irq[l] <= 1 /\ l \in Handlers(dev) => d.irq[l] = 0)
    BY <1>4, <1>6
  <1>8. LinesUsed(d, seen)
    <2>1. Handlers(d) \subseteq d.lines
      BY <1>3, <1>4, <1>5 DEF LinesUsed
    <2>2. ASSUME NEW l \in Lines \ {Shared}
          PROVE  /\ d.irq[l] <= 1
                 /\ d.irq[l] > 0 /\ seen \cap {"irq_setup", "into_close"} = {} => d.msix = "msix" /\ l \in Handlers(d)
      <3>1. /\ dev.irq[l] <= 1 /\ dev.irq[l] \in Nat
            /\ dev.irq[l] > 0 /\ seen \cap {"irq_setup", "into_close"} = {} => dev.msix = "msix" /\ l \in Handlers(dev)
        BY <1>3, <1>6 DEF LinesUsed
      <3>2. d.irq[l] = IF l \in Handlers(dev) /\ dev.irq[l] > 0
                       THEN dev.irq[l] - 1 ELSE dev.irq[l]
        BY <1>4
      <3>3. d.msix = dev.msix
        BY <1>4 DEF Rewired
      <3> QED BY <1>5, <3>1, <3>2, <3>3
    <2> QED BY <2>1, <2>2 DEF LinesUsed
  <1>9. seen \cap {"online_again", "overlap"} = {} => SharedAt(d, y)
    <2> SUFFICES ASSUME SharedAt(dev, x) PROVE SharedAt(d, y)
      BY <1>3
    <2>1. d.irq[Shared] = 0
      BY <1>4, <1>6 DEF SharedAt
    <2>2. y \notin Upward
      BY <1>2 DEF Upward
    <2> QED BY <2>1, <2>2 DEF SharedAt
  <1>10. Calm => WorkingAt(d, seen, y, poll_mode)
    <2> SUFFICES ASSUME WorkingAt(dev, seen, x, poll_mode) PROVE WorkingAt(d, seen, y, poll_mode)
      BY <1>3
    <2>1. StillOn(d, seen) = {} /\ d.offline
      BY <1>1, <1>4 DEF WorkingAt, StillOn, Rewired, Downward
    <2>2. y \notin Upward \cup Downward
      BY <1>2 DEF Upward, Downward
    <2> QED BY <2>1, <2>2 DEF WorkingAt, Upward, Downward
  <1>11. dev.unmasked \subseteq d.unmasked
    BY <1>4 DEF Rewired
  <1> QED BY <1>11, <1>1, <1>4, <1>5, <1>6, <1>7, <1>8, <1>9, <1>10, CycleDone DEF y

\* xdma_device_online starts the engines.  Taken online while it is online, the
\* device may register its shared handler twice.
LEMMA StartStep ==
    ASSUME Typed, NEW a \in Actors, NEW c \in Phases, Inv(13, c), Cycling(a, c), start_engines(a)
    PROVE  IInv'
  <1>0. PICK x, y : x = Head(todo[a]) /\ y = First(Tail(todo[a]))
    OBVIOUS
  <1>1. /\ dev \in Devices /\ dev.offline \in BOOLEAN /\ dev.shutdown \in BOOLEAN
        /\ dev.unmasked \in SUBSET {"channel", "user"} /\ ~Idle(a) /\ x = "start_engines"
    BY <1>0 DEF Typed, Devices, start_engines, At
  <1>2. y = IF poll_mode THEN "clear_offline" ELSE "irq_setup_again"
    BY <1>0, <1>1, CycleFollows
  <1>3. /\ LinesUsed(dev, seen)
        /\ seen \cap {"online_again", "overlap"} = {} => SharedAt(dev, x)
        /\ Calm => WorkingAt(dev, seen, x, poll_mode)
    BY <1>0, CycleRead
  <1>4. PICK v \in BOOLEAN : v = FALSE
    OBVIOUS
  <1> DEFINE d == Switch(dev, dev.offline, v, dev.unmasked)
  <1>5. dev' = d
    BY <1>1, <1>4 DEF start_engines, Switch, Devices
  <1>6. /\ d \in Devices
        /\ d.offline = dev.offline /\ d.shutdown = v /\ d.unmasked = dev.unmasked
        /\ d.irq = dev.irq /\ d.msix = dev.msix /\ (Wired(d) <=> Wired(dev))
        /\ \A S : LinesUsed(dev, S) => LinesUsed(d, S)
    BY <1>1, <1>4, Switched
  <1>7. SameOwned /\ SameEngines /\ SameNodes /\ SameCounts
    BY <1>1, <1>5 DEF Switch, Devices, SameOwned, SameEngines, SameNodes, SameCounts
  <1> HIDE DEF d
  <1>8. /\ seen \subseteq seen' /\ seen' \subseteq seen \cup {"online_again"}
        /\ dev.offline \/ "online_again" \in seen'
        /\ poll_mode' = poll_mode /\ aer' = aer /\ probes' = probes /\ resets' = resets
        /\ raised' = raised /\ reader' = reader
    BY DEF start_engines, rest, user
  <1>9. Moves(a, Tail(todo[a])) /\ todo' \in [Actors -> Seq(Steps)]
    <2>1. todo \in [Actors -> Seq(Steps)] /\ todo[a] \in Seq(Steps) /\ todo[a] # <<>>
      BY <1>1 DEF Typed, Idle
    <2>2. Tail(todo[a]) \in Seq(Steps)
      BY <2>1, HeadTailProperties
    <2>3. todo' = [todo EXCEPT ![a] = Tail(@)]
      BY DEF start_engines
    <2> QED BY <2>1, <2>2, <2>3 DEF Moves
  <1>10. Typed'
    BY <1>5, <1>6, <1>8, <1>9 DEF Typed
  <1>11. LinesUsed(dev', seen')
    <2>1. LinesUsed(d, seen)
      BY <1>3, <1>6
    <2> QED BY <1>5, <1>8, <2>1 DEF LinesUsed
  <1>12. seen' \cap {"online_again", "overlap"} = {} => SharedAt(dev', y)
    <2> SUFFICES ASSUME SharedAt(dev, x), dev.offline PROVE SharedAt(d, y)
      BY <1>3, <1>5, <1>8
    <2>1. dev.irq[Shared] = 0
      BY <1>1 DEF SharedAt, Downward
    <2> QED BY <1>6, <2>1 DEF SharedAt
  <1>13. Calm' => WorkingAt(dev', seen', y, poll_mode)
    <2> SUFFICES ASSUME WorkingAt(dev, seen, x, poll_mode) PROVE WorkingAt(d, seen', y, poll_mode)
      BY <1>3, <1>5, <1>8 DEF Calm
    <2>3. StillOn(d, seen') = StillOn(dev, seen)
      BY <1>6, <1>8 DEF StillOn
    <2>1. y = "clear_offline" => poll_mode
      BY <1>2
    <2>2. y \notin Downward /\ y # "irq_teardown" /\ y # "interrupts_enable"
      BY <1>2 DEF Downward
    <2> QED BY <1>4, <1>6, <2>1, <2>2, <2>3 DEF WorkingAt
  <1>14. dev'.irq[Shared] <= dev.irq[Shared] /\ ("overlap" \in seen' => "overlap" \in seen)
    <2>1. Shared \in Lines
      BY DEF Shared, Lines
    <2>2. dev.irq[Shared] \in Nat
      BY <1>1, <2>1 DEF Devices
    <2> QED BY <1>5, <1>6, <1>8, <2>2
  <1>15. dev'.work => "channel" \in dev'.unmasked \/ "late_work" \in seen'
    BY <1>5, <1>6, <1>7, <1>8 DEF Inv, Cycled, SameEngines
  <1> QED BY <1>0, <1>7, <1>8, <1>9, <1>10, <1>11, <1>12, <1>13, <1>14, <1>15, CycleMove

\* irq_setup within xdma_device_online, which goes on when it fails.
LEMMA SetupAgainStep ==
    ASSUME Typed, NEW a \in Actors, NEW c \in Phases, Inv(13, c), Cycling(a, c), SetupIrqAgain(a)
    PROVE  IInv'
  <1>0. PICK x, y : x = Head(todo[a]) /\ y = First(Tail(todo[a]))
    OBVIOUS
  <1>1. dev \in Devices /\ ~Idle(a) /\ x = "irq_setup_again"
    BY <1>0 DEF Typed, SetupIrqAgain, At
  <1>2. y = "interrupts_enable"
    BY <1>0, <1>1, CycleFollows
  <1>3. /\ LinesUsed(dev, seen)
        /\ seen \cap {"online_again", "overlap"} = {} => SharedAt(dev, x)
        /\ Calm => WorkingAt(dev, seen, x, poll_mode)
    BY <1>0, CycleRead
  <1>4. /\ dev.irq \in [Lines -> Nat] /\ Shared \in Lines
        /\ Handlers(dev) \subseteq Lines
        /\ (Shared \in Handlers(dev) <=> dev.msix # "msix")
        /\ dev.msix # "msix" => Handlers(dev) = {Shared}
    BY <1>1, HandlerLines DEF Devices
  <1>5. CASE Requestable(dev, Handlers(dev)) /\ Succeed(a, irq_setup(dev))
    <2> DEFINE d == irq_setup(dev)
    <2>1. /\ d \in Devices /\ Rewired(dev, d) /\ d.lines = dev.lines \cup Handlers(dev)
          /\ \A l \in Lines : d.irq[l] = IF l \in Handlers(dev) THEN dev.irq[l] + 1
                                         ELSE dev.irq[l]
      BY <1>1, SetupDone
    <2>2. Succeed(a, d) /\ dev' = d
      BY <1>5 DEF Succeed
    <2> HIDE DEF d
    <2>3. /\ SameOwned /\ SameEngines /\ SameCycle /\ SameNodes /\ SameCounts
          /\ Handlers(d) = Handlers(dev)
      BY <2>1, <2>2, RewiredSame
    <2>4. LinesUsed(d, seen)
      <3>1. Handlers(d) \subseteq d.lines
        BY <2>1, <2>3
      <3>2. ASSUME NEW l \in Lines \ {Shared}
            PROVE  /\ d.irq[l] <= 1
                   /\ d.irq[l] > 0 /\ seen \cap {"irq_setup", "into_close"} = {} => d.msix = "msix" /\ l \in Handlers(d)
        <4>1. /\ dev.irq[l] <= 1 /\ dev.irq[l] \in Nat
              /\ dev.irq[l] > 0 /\ seen \cap {"irq_setup", "into_close"} = {} => dev.msix = "msix" /\ l \in Handlers(dev)
          BY <1>3, <1>4 DEF LinesUsed
        <4>2. d.irq[l] = IF l \in Handlers(dev) THEN dev.irq[l] + 1 ELSE dev.irq[l]
          BY <2>1
        <4>3. l \in Handlers(dev) => dev.msix = "msix"
          BY <1>4
        <4>4. l \in Handlers(dev) => dev.irq[l] = 0
          BY <1>5, <4>3 DEF Requestable
        <4>5. d.msix = dev.msix
          BY <2>1 DEF Rewired
        <4> QED BY <2>3, <4>1, <4>2, <4>3, <4>4, <4>5
      <3> QED BY <3>1, <3>2 DEF LinesUsed
    <2>5. seen \cap {"online_again", "overlap"} = {} => SharedAt(d, y)
      <3> SUFFICES ASSUME SharedAt(dev, x) PROVE SharedAt(d, y)
        BY <1>3
      <3>1. dev.offline /\ dev.irq[Shared] = 0
        BY <1>1 DEF SharedAt, Upward, Downward
      <3>2. d.irq[Shared] = IF dev.msix # "msix" THEN 1 ELSE 0
        BY <1>4, <2>1, <3>1
      <3>3. d.offline /\ d.msix = dev.msix
        BY <2>1, <3>1 DEF Rewired
      <3> QED BY <1>2, <3>2, <3>3 DEF SharedAt
    <2>6. Calm => WorkingAt(d, seen, y, poll_mode)
      <3> SUFFICES ASSUME WorkingAt(dev, seen, x, poll_mode) PROVE WorkingAt(d, seen, y, poll_mode)
        BY <1>3
      <3>1. Wired(d)
        <4> SUFFICES ASSUME NEW l \in Handlers(dev) PROVE d.irq[l] > 0
          BY <2>3 DEF Wired
        <4>1. l \in Lines /\ dev.irq[l] \in Nat
          BY <1>4
        <4> QED BY <2>1, <4>1
      <3>2. /\ d.offline = dev.offline /\ d.shutdown = dev.shutdown /\ d.unmasked = dev.unmasked
            /\ StillOn(d, seen) = StillOn(dev, seen)
        BY <2>1 DEF Rewired, StillOn
      <3>3. x \in Upward /\ y \notin Downward
        BY <1>1, <1>2 DEF Upward, Downward
      <3> QED BY <1>2, <3>1, <3>2, <3>3 DEF WorkingAt
    <2>7. d.irq[Shared] <= dev.irq[Shared] \/ d.irq[Shared] = dev.irq[Shared] + 1
      BY <1>4, <2>1
    <2>8. dev.unmasked \subseteq d.unmasked
      BY <2>1 DEF Rewired
    <2> QED BY <1>0, <1>1, <2>1, <2>2, <2>3, <2>4, <2>5, <2>6, <2>7, <2>8, CycleDone
  <1>6. ASSUME NEW d \in irq_setup_failed(dev), Fail(a, d, Tail(todo[a]))
        PROVE  IInv'
    <2>1. /\ d \in Devices /\ Rewired(dev, d) /\ dev.lines \subseteq d.lines
          /\ d.irq[Shared] = dev.irq[Shared]
          /\ \A l \in Lines : \/ d.irq[l] = dev.irq[l]
                              \/ /\ dev.irq[l] = 0 /\ d.irq[l] = 1
                                 /\ dev.msix = "msix" /\ l \in Handlers(dev)
      BY <1>1, SetupFailed
    <2>2. Tail(todo[a]) \in Seq(Steps)
      <3>1. todo[a] \in Seq(Steps) /\ todo[a] # <<>>
        BY <1>1 DEF Typed, Idle
      <3> QED BY <3>1, HeadTailProperties
    <2>3. /\ Typed' /\ dev' = d /\ Moves(a, Tail(todo[a])) /\ seen' = seen \cup {x}
          /\ poll_mode' = poll_mode /\ aer' = aer /\ probes' = probes /\ resets' = resets
      BY <1>0, <1>1, <1>6, <2>1, <2>2, FailStep
    <2>4. /\ SameOwned /\ SameEngines /\ SameCycle /\ SameNodes /\ SameCounts
          /\ Handlers(d) = Handlers(dev)
      BY <2>1, <2>3, RewiredSame
    <2>5. /\ seen \subseteq seen' /\ ("overlap" \in seen' => "overlap" \in seen)
          /\ ~Calm' /\ seen' \cap {"online_again", "overlap"} = seen \cap {"online_again", "overlap"}
      BY <1>1, <2>3 DEF Calm
    <2>6. LinesUsed(d, seen')
      <3>1. Handlers(d) \subseteq d.lines
        BY <1>3, <2>1, <2>4 DEF LinesUsed
      <3>2. ASSUME NEW l \in Lines \ {Shared}
            PROVE  /\ d.irq[l] <= 1
                   /\ d.irq[l] > 0 /\ seen' \cap {"irq_setup", "into_close"} = {} => d.msix = "msix" /\ l \in Handlers(d)
        <4>1. /\ dev.irq[l] <= 1
              /\ dev.irq[l] > 0 /\ seen \cap {"irq_setup", "into_close"} = {} => dev.msix = "msix" /\ l \in Handlers(dev)
          BY <1>3 DEF LinesUsed
        <4>2. \/ d.irq[l] = dev.irq[l]
              \/ d.irq[l] = 1 /\ dev.msix = "msix" /\ l \in Handlers(dev)
          BY <2>1
        <4>3. d.msix = dev.msix /\ Handlers(d) = Handlers(dev)
          BY <2>1, <2>4 DEF Rewired
        <4>4. 1 <= 1 /\ (seen' \cap {"irq_setup", "into_close"} = {} =>
                             seen \cap {"irq_setup", "into_close"} = {})
          BY <2>5
        <4> QED BY <4>1, <4>2, <4>3, <4>4
      <3> QED BY <3>1, <3>2 DEF LinesUsed
    <2>7. seen' \cap {"online_again", "overlap"} = {} => SharedAt(d, y)
      <3> SUFFICES ASSUME SharedAt(dev, x) PROVE SharedAt(d, y)
        BY <1>3, <2>5
      <3>1. dev.offline
        BY <1>1 DEF SharedAt, Upward
      <3>2. d.offline = dev.offline /\ d.msix = dev.msix
        BY <2>1 DEF Rewired
      <3> QED BY <1>2, <2>1, <3>1, <3>2 DEF SharedAt
    <2>8. dev'.irq[Shared] <= dev.irq[Shared]
      BY <1>4, <2>1, <2>3
    <2>9. dev'.work => "channel" \in dev'.unmasked \/ "late_work" \in seen'
      BY <2>3, <2>4, <2>5 DEF Inv, Cycled, SameEngines, SameCycle
    <2> QED BY <1>0, <2>3, <2>4, <2>5, <2>6, <2>7, <2>8, <2>9, CycleMove
  <1>7. ~Closing
    <2>1. Where(todo["core"], 13, c, poll_mode) /\ poll_mode \in BOOLEAN
      BY DEF Inv, Typed
    <2>2. ~Among("free_xdev", todo["core"])
      <3>1. CASE c = "cycle"
        <4>1. Cycle(todo["core"], poll_mode) \/ Recovery(todo["core"])
          BY <2>1, <3>1 DEF Where
        <4> QED BY <2>1, <4>1, CycleRow, RecoveryRow
      <3>2. CASE c # "cycle"
        BY <2>1, <3>2, Away DEF Cycling
      <3> QED BY <3>1, <3>2
    <2> QED BY <2>2 DEF Closing, Among
  <1>8. /\ todo' = [todo EXCEPT ![a] = Tail(@)] /\ UNCHANGED rest
        /\ \/ /\ Requestable(dev, Handlers(dev)) /\ dev' = irq_setup(dev) /\ seen' = seen
           \/ /\ dev' \in irq_setup_failed(dev) /\ seen' = seen \cup {Head(todo[a])}
    BY <1>0, <1>1, <1>7 DEF SetupIrqAgain
  <1>9. CASE Requestable(dev, Handlers(dev)) /\ dev' = irq_setup(dev) /\ seen' = seen
    BY <1>5, <1>8, <1>9, Zenon DEF Succeed
  <1>10. CASE dev' \in irq_setup_failed(dev) /\ seen' = seen \cup {Head(todo[a])}
    <2>1. todo' = [todo EXCEPT ![a] = Tail(todo[a])]
      BY <1>8, Zenon
    <2>2. Fail(a, dev', Tail(todo[a]))
      BY <1>8, <1>10, <2>1 DEF Fail
    <2> QED BY <1>6, <1>10, <2>2
  <1> QED BY <1>8, <1>9, <1>10

\* A step of taking the device offline or online.
LEMMA CycleActs ==
    ASSUME Typed, NEW a \in Actors, NEW c \in Phases, Inv(13, c), Cycling(a, c), OfflineOnline(a)
    PROVE  IInv'
  BY DownStep, UpStep, TeardownStep, StartStep, SetupAgainStep DEF OfflineOnline

\* Whatever of it the PCI core does.
LEMMA OfflineCore ==
    ASSUME Typed, NEW n \in 0 .. 13, NEW c \in Phases, Inv(n, c), OfflineOnline("core")
    PROVE  IInv'
  <1>1. ~Idle("core") /\ Head(todo["core"]) \in CycleSteps /\ "core" \in Actors
    BY DEF OfflineOnline, set_offline, stop_engines, interrupts_disable, TeardownIrq,
           start_engines, SetupIrqAgain, interrupts_enable, clear_offline, At, CycleSteps,
           Downward, Upward, Actors
  <1>2. Where(todo["core"], n, c, poll_mode)
    BY DEF Inv
  <1>3. CASE c = "cycle"
    <2>1. n = 13 /\ Cycling("core", c)
      BY <1>1, <1>2, <1>3 DEF Where, Cycling
    <2> QED BY <1>1, <2>1, CycleActs
  <1>4. CASE c # "cycle"
    <2>1. /\ Head(todo["core"]) \notin Upward \cup {"set_offline", "stop_engines", "start_engines"}
          /\ Head(todo["core"]) = "irq_teardown" => c = "release"
          /\ Head(todo["core"]) = "interrupts_disable" => c \in {"open", "release"}
      BY <1>1, <1>2, <1>4, Away DEF Idle
    <2>2. interrupts_disable("core") \/ TeardownIrq("core")
      BY <2>1 DEF OfflineOnline, set_offline, stop_engines, start_engines, SetupIrqAgain,
                  interrupts_enable, clear_offline, At, Upward
    <2>3. CASE interrupts_disable("core")
      BY <1>4, <2>1, <2>3, InterruptsOpen, InterruptsClose DEF interrupts_disable, At
    <2>4. CASE TeardownIrq("core")
      BY <1>4, <2>1, <2>4, TeardownClose DEF TeardownIrq, At
    <2> QED BY <2>2, <2>3, <2>4
  <1> QED BY <1>3, <1>4

\* irq_teardown of any device registers no handler.
LEMMA TornLess ==
    ASSUME NEW d \in Devices
    PROVE  /\ irq_teardown(d) \in Devices /\ Rewired(d, irq_teardown(d))
           /\ irq_teardown(d).lines = d.lines
           /\ \A l \in Lines : irq_teardown(d).irq[l] <= d.irq[l]
  <1>1. PICK S : S = IF d.msix = "msix"
                     THEN Leading(d, "h2c", d.h2c) \cup Leading(d, "c2h", d.c2h) \cup UserLines
                     ELSE {<<"dev", 0>>} \cap d.lines
    OBVIOUS
  <1> DEFINE q == [l \in Lines |-> IF l \in S /\ d.irq[l] > 0 THEN d.irq[l] - 1 ELSE d.irq[l]]
             L == d.lines
             V == IF d.msix = "msix" THEN {} ELSE d.vectors
             e == Rewire(d, q, L, V)
  <1>2. L \in SUBSET Lines /\ V \in SUBSET Lines /\ d.irq \in [Lines -> Nat]
    BY DEF Devices
  <1>3. q \in [Lines -> Nat] /\ \A l \in Lines : q[l] <= d.irq[l]
    BY <1>2
  <1>4. Free(d, S) = [d EXCEPT !.irq = q]
    BY DEF Free
  <1>5. irq_teardown(d) = e
    <2> HIDE DEF q
    <2>1. CASE d.msix = "msix"
      <3>1. irq_teardown(d) = prog_irq_msix(Free(d, S), {})
        BY <1>1, <2>1 DEF irq_teardown
      <3>2. prog_irq_msix(Free(d, S), {}) = e
        BY <1>4, <2>1 DEF prog_irq_msix, Rewire, Devices
      <3> QED BY <3>1, <3>2
    <2>2. CASE d.msix # "msix"
      <3>1. irq_teardown(d) = Free(d, S)
        BY <1>1, <2>2 DEF irq_teardown
      <3>2. Free(d, S) = e
        BY <1>4, <2>2 DEF Rewire, Devices
      <3> QED BY <3>1, <3>2
    <2> QED BY <2>1, <2>2
  <1>6. e \in Devices /\ Rewired(d, e) /\ e.irq = q /\ e.lines = L
    <2> HIDE DEF q, L, V
    <2> QED BY <1>2, <1>3, Rewiring
  <1> HIDE DEF e
  <1> QED BY <1>3, <1>5, <1>6

\* Every step of an ioctl beside the close of the device.
LEMMA IoctlBeside ==
    ASSUME Typed, NEW n \in 2 .. 13, NEW c \in {"remove", "release"}, Inv(n, c),
           OfflineOnline("ioctl")
    PROVE  IInv'
  <1>1. /\ dev \in Devices /\ dev.offline \in BOOLEAN /\ dev.shutdown \in BOOLEAN
        /\ dev.unmasked \in SUBSET {"channel", "user"} /\ poll_mode \in BOOLEAN
        /\ todo \in [Actors -> Seq(Steps)] /\ "ioctl" \in Actors /\ n \in 0 .. 13
        /\ dev.irq \in [Lines -> Nat] /\ Shared \in Lines
    <2>1. dev \in Devices /\ poll_mode \in BOOLEAN /\ todo \in [Actors -> Seq(Steps)]
      BY DEF Typed
    <2>2. Shared \in Lines
      BY <2>1, HandlerLines
    <2>3. n \in 0 .. 13 /\ "ioctl" \in Actors
      BY DEF Actors
    <2>4. /\ dev.offline \in BOOLEAN /\ dev.shutdown \in BOOLEAN
          /\ dev.unmasked \in SUBSET {"channel", "user"} /\ dev.irq \in [Lines -> Nat]
      BY <2>1 DEF Devices
    <2> QED BY <2>1, <2>2, <2>3, <2>4
  <1>2. /\ todo["ioctl"] # <<>> /\ todo' = [todo EXCEPT !["ioctl"] = Tail(@)]
        /\ UNCHANGED rest
    BY DEF OfflineOnline, set_offline, stop_engines, interrupts_disable, TeardownIrq,
           start_engines, SetupIrqAgain, interrupts_enable, clear_offline, At, Idle, Succeed
  <1>3. /\ Cycle(todo["ioctl"], poll_mode) /\ Counted(n, c) /\ Handled(n, c) /\ Cycled(n, c)
        /\ "overlap" \in seen /\ Closing
    <2>1. Ioctls(n, c) /\ Where(todo["core"], n, c, poll_mode) /\ c \in Phases /\ c # "cycle"
      BY DEF Inv, Phases
    <2>2. todo["core"] # <<>> /\ Among("free_xdev", todo["core"])
      <3>1. /\ todo["core"] = <<>> <=> c = "idle"
            /\ Among("free_xdev", todo["core"]) <=> (c = "remove" \/ (c = "release" /\ n >= 2))
        BY <2>1, Away
      <3> QED BY <3>1
    <2> QED BY <1>2, <2>1, <2>2 DEF Ioctls, Inv, Closing, Among
  <1>4. /\ todo["ioctl"] \in Seq(Steps) /\ Tail(todo["ioctl"]) \in Seq(Steps)
        /\ \/ CycleStep(todo["ioctl"], First(Tail(todo["ioctl"])), {"aer_disable"})
           \/ OnlineStep(todo["ioctl"], First(Tail(todo["ioctl"])), poll_mode)
        /\ Tail(todo["ioctl"]) = <<>> \/ Cycle(Tail(todo["ioctl"]), poll_mode)
    <2>1. /\ todo["ioctl"] \in Seq(Steps)
          /\ \/ CycleStep(todo["ioctl"], First(Tail(todo["ioctl"])), {})
             \/ OnlineStep(todo["ioctl"], First(Tail(todo["ioctl"])), poll_mode)
          /\ Tail(todo["ioctl"]) = <<>> \/ Cycle(Tail(todo["ioctl"]), poll_mode)
      BY <1>1, <1>3, CycleRow
    <2>2. Tail(todo["ioctl"]) \in Seq(Steps)
      BY <1>2, <2>1, HeadTailProperties
    <2> QED BY <2>1, <2>2 DEF CycleStep
  <1>5. /\ Moves("ioctl", Tail(todo["ioctl"])) /\ todo' \in [Actors -> Seq(Steps)]
        /\ todo'["core"] = todo["core"] /\ todo'["ioctl"] = Tail(todo["ioctl"])
        /\ poll_mode' = poll_mode /\ aer' = aer /\ probes' = probes /\ resets' = resets
        /\ raised' = raised /\ reader' = reader
    BY <1>1, <1>2, <1>4 DEF Moves, Actors, rest, user
  <1>6. ASSUME dev' \in Devices, SameOwned, SameEngines, SameNodes, SameCounts,
               dev.lines \subseteq dev'.lines, seen \subseteq seen',
               seen' \subseteq Steps \cup {"overlap", "online_again", "remove_frozen",
                                           "late_work", "into_close"},
               \A l \in Lines \ {Shared} :
                  /\ dev'.irq[l] <= 1
                  /\ dev'.irq[l] > 0 /\ seen' \cap {"irq_setup", "into_close"} = {} =>
                        dev.irq[l] > 0,
               \/ dev'.irq[Shared] <= dev.irq[Shared]
               \/ /\ dev'.irq[Shared] = dev.irq[Shared] + 1
                  /\ Head(todo["ioctl"]) = "irq_setup_again",
               dev.unmasked \subseteq dev'.unmasked \/ (dev.work => "late_work" \in seen')
        PROVE  IInv'
    <2>1. Typed'
      BY <1>5, <1>6 DEF Typed
    <2>2. Counted(n, c)'
      BY <1>1, <1>2, <1>3, <1>4, <1>5, <1>6, <2>1, CountStep
    <2>3. dev'.work => "channel" \in dev'.unmasked \/ "late_work" \in seen'
      BY <1>3, <1>6 DEF Cycled, SameEngines
    <2>4. "overlap" \in seen'
      BY <1>3, <1>6
    <2> QED BY <1>3, <1>4, <1>5, <1>6, <2>1, <2>2, <2>3, <2>4, BesideClose
  <1>7. ASSUME NEW o \in BOOLEAN, NEW h \in BOOLEAN, NEW u \in SUBSET {"channel", "user"},
               dev' = Switch(dev, o, h, u),
               seen \subseteq seen', seen' \subseteq seen \cup {"late_work", "online_again"},
               dev.unmasked \subseteq u \/ (dev.work => "late_work" \in seen')
        PROVE  IInv'
    <2>1. SameOwned /\ SameEngines /\ SameNodes /\ SameCounts
      BY <1>1, <1>7 DEF Switch, Devices, SameOwned, SameEngines, SameNodes, SameCounts
    <2>2. dev' \in Devices /\ dev'.irq = dev.irq /\ dev'.lines = dev.lines /\ dev'.unmasked = u
      BY <1>1, <1>7, Switched
    <2>3. \A l \in Lines \ {Shared} : dev.irq[l] <= 1
      BY <1>3 DEF Handled
    <2>4. dev'.irq[Shared] <= dev.irq[Shared]
      BY <1>1, <2>2
    <2>5. seen' \subseteq Steps \cup {"overlap", "online_again", "remove_frozen",
                                     "late_work", "into_close"}
      BY <1>7 DEF Typed
    <2> QED BY <1>6, <1>7, <2>1, <2>2, <2>3, <2>4, <2>5
  <1>8. CASE set_offline("ioctl") \/ clear_offline("ioctl")
    <2>1. PICK v \in BOOLEAN : dev' = [dev EXCEPT !.offline = v]
      BY <1>8 DEF set_offline, clear_offline, Succeed
    <2>2. dev' = Switch(dev, v, dev.shutdown, dev.unmasked)
      BY <1>1, <2>1 DEF Switch, Devices
    <2>3. seen' = seen
      BY <1>8 DEF set_offline, clear_offline, Succeed
    <2> QED BY <1>1, <1>7, <2>1, <2>2, <2>3
  <1>9. CASE stop_engines("ioctl") \/ start_engines("ioctl")
    <2>1. PICK v \in BOOLEAN : dev' = [dev EXCEPT !.shutdown = v]
      BY <1>9 DEF stop_engines, start_engines, Succeed
    <2>2. dev' = Switch(dev, dev.offline, v, dev.unmasked)
      BY <1>1, <2>1 DEF Switch, Devices
    <2>3. seen \subseteq seen' /\ seen' \subseteq seen \cup {"online_again"}
      BY <1>9 DEF stop_engines, start_engines, Succeed
    <2> QED BY <1>1, <1>7, <2>1, <2>2, <2>3
  <1>10. CASE interrupts_disable("ioctl") \/ interrupts_enable("ioctl")
    <2>1. PICK u \in SUBSET {"channel", "user"} :
             /\ dev' = [dev EXCEPT !.unmasked = u]
             /\ dev.unmasked \subseteq u \/ (dev.work => "late_work" \in seen')
      <3>1. CASE interrupts_disable("ioctl")
        <4>1. /\ dev' = [dev EXCEPT !.unmasked = {}] /\ {} \in SUBSET {"channel", "user"}
              /\ dev.work => "late_work" \in seen'
          BY <3>1 DEF interrupts_disable
        <4> QED BY <4>1
      <3>2. CASE interrupts_enable("ioctl")
        <4>1. PICK u \in SUBSET {"channel", "user"} : u = {"channel", "user"}
          OBVIOUS
        <4>2. dev' = [dev EXCEPT !.unmasked = u] /\ dev.unmasked \subseteq u
          BY <1>1, <3>2, <4>1 DEF interrupts_enable, Succeed
        <4> QED BY <4>2
      <3> QED BY <1>10, <3>1, <3>2
    <2>2. dev' = Switch(dev, dev.offline, dev.shutdown, u)
      BY <1>1, <2>1 DEF Switch, Devices
    <2>3. seen \subseteq seen' /\ seen' \subseteq seen \cup {"late_work"}
      BY <1>10 DEF interrupts_disable, interrupts_enable, Succeed
    <2> QED BY <1>1, <1>7, <2>1, <2>2, <2>3
  <1>11. CASE TeardownIrq("ioctl")
    <2>1. dev' = irq_teardown(dev) /\ seen' = seen
      BY <1>11 DEF TeardownIrq, Succeed
    <2>2. /\ dev' \in Devices /\ Rewired(dev, dev') /\ dev'.lines = dev.lines
          /\ \A l \in Lines : dev'.irq[l] <= dev.irq[l]
      BY <1>1, <2>1, TornLess
    <2>3. SameOwned /\ SameEngines /\ SameCycle /\ SameNodes /\ SameCounts
      BY <2>2, RewiredSame
    <2>4. dev'.irq \in [Lines -> Nat]
      BY <2>2 DEF Devices
    <2>5. \A l \in Lines \ {Shared} : dev'.irq[l] <= 1 /\ (dev'.irq[l] > 0 => dev.irq[l] > 0)
      <3> SUFFICES ASSUME NEW l \in Lines \ {Shared}
                   PROVE  dev'.irq[l] <= 1 /\ (dev'.irq[l] > 0 => dev.irq[l] > 0)
        OBVIOUS
      <3>1. dev.irq[l] <= 1 /\ dev.irq[l] \in Nat /\ dev'.irq[l] \in Nat /\ dev'.irq[l] <= dev.irq[l]
        BY <1>1, <1>3, <2>2, <2>4 DEF Handled
      <3> QED BY <3>1
    <2>6. seen' \subseteq Steps \cup {"overlap", "online_again", "remove_frozen",
                                     "late_work", "into_close"}
      BY <2>1 DEF Typed
    <2> QED BY <1>1, <1>6, <2>1, <2>2, <2>3, <2>5, <2>6 DEF SameCycle
  <1>12. CASE SetupIrqAgain("ioctl")
    <2>1. /\ "into_close" \in seen' /\ seen \subseteq seen'
          /\ seen' \subseteq seen \cup {"irq_setup_again", "into_close"}
          /\ \/ Requestable(dev, Handlers(dev)) /\ dev' = irq_setup(dev)
             \/ dev' \in irq_setup_failed(dev)
          /\ Head(todo["ioctl"]) = "irq_setup_again"
      BY <1>3, <1>12 DEF SetupIrqAgain, At
    <2>2. seen' \subseteq Steps \cup {"overlap", "online_again", "remove_frozen",
                                     "late_work", "into_close"}
      BY <2>1, StepNames DEF Typed
    <2>3. \A l \in Lines \ {Shared} : dev.irq[l] <= 1
      BY <1>3 DEF Handled
    <2>4. CASE Requestable(dev, Handlers(dev)) /\ dev' = irq_setup(dev)
      <3>1. /\ dev' \in Devices /\ Rewired(dev, dev') /\ dev'.lines = dev.lines \cup Handlers(dev)
            /\ \A l \in Lines : dev'.irq[l] = IF l \in Handlers(dev) THEN dev.irq[l] + 1
                                              ELSE dev.irq[l]
        BY <1>1, <2>4, SetupDone
      <3>2. SameOwned /\ SameEngines /\ SameCycle /\ SameNodes /\ SameCounts
        BY <3>1, RewiredSame
      <3>3. \A l \in Lines \ {Shared} : dev'.irq[l] <= 1
        <4> SUFFICES ASSUME NEW l \in Lines \ {Shared} PROVE dev'.irq[l] <= 1
          OBVIOUS
        <4>1. l \in Handlers(dev) => dev.msix = "msix"
          BY <1>1, HandlerLines
        <4>2. l \in Handlers(dev) => dev.irq[l] = 0
          BY <2>4, <4>1 DEF Requestable
        <4> QED BY <2>3, <3>1, <4>2
      <3>4. dev'.irq[Shared] <= dev.irq[Shared] \/ dev'.irq[Shared] = dev.irq[Shared] + 1
        BY <1>1, <3>1
      <3>5. seen' \cap {"irq_setup", "into_close"} # {}
        BY <2>1
      <3> QED BY <1>6, <2>1, <2>2, <3>1, <3>2, <3>3, <3>4, <3>5 DEF SameCycle
    <2>5. CASE dev' \in irq_setup_failed(dev)
      <3>1. /\ dev' \in Devices /\ Rewired(dev, dev') /\ dev.lines \subseteq dev'.lines
            /\ dev'.irq[Shared] = dev.irq[Shared]
            /\ \A l \in Lines : dev'.irq[l] = dev.irq[l] \/ dev'.irq[l] = 1
        BY <1>1, <2>5, SetupFailed
      <3>2. SameOwned /\ SameEngines /\ SameCycle /\ SameNodes /\ SameCounts
        BY <3>1, RewiredSame
      <3>3. \A l \in Lines \ {Shared} : dev'.irq[l] <= 1
        BY <2>3, <3>1
      <3>4. dev'.irq[Shared] <= dev.irq[Shared]
        BY <1>1, <3>1
      <3>5. seen' \cap {"irq_setup", "into_close"} # {}
        BY <2>1
      <3> QED BY <1>6, <2>1, <2>2, <3>1, <3>2, <3>3, <3>4, <3>5 DEF SameCycle
    <2> QED BY <2>1, <2>4, <2>5
  <1> QED BY <1>8, <1>9, <1>10, <1>11, <1>12 DEF OfflineOnline

\* An ioctl on an open device, or into its close.
LEMMA OfflineIoctl ==
    ASSUME Typed, NEW n \in 0 .. 13, NEW c \in Phases, Inv(n, c), Ioctl
    PROVE  IInv'
  <1>1. OfflineOnline("ioctl")
    BY DEF Ioctl
  <1>2. ~Idle("ioctl") /\ Head(todo["ioctl"]) \in CycleSteps /\ "ioctl" \in Actors
    BY <1>1 DEF OfflineOnline, set_offline, stop_engines, interrupts_disable, TeardownIrq,
           start_engines, SetupIrqAgain, interrupts_enable, clear_offline, At, CycleSteps,
           Downward, Upward, Actors
  <1>3. \/ n = 13 /\ c \in {"idle", "create", "cycle"}
        \/ n \in 2 .. 13 /\ c \in {"remove", "release"}
    BY <1>2, IoctlAt DEF Idle
  <1>4. CASE n = 13 /\ c \in {"idle", "create", "cycle"}
    <2>1. Cycling("ioctl", c)
      BY <1>2, <1>4 DEF Cycling
    <2> QED BY <1>1, <1>2, <1>4, <2>1, CycleActs
  <1>5. CASE n \in 2 .. 13 /\ c \in {"remove", "release"}
    BY <1>1, <1>5, IoctlBeside
  <1> QED BY <1>3, <1>4, <1>5

-----------------------------------------------------------------------------
(* The invariant *)

\* Events and bottom halves leave all but the interrupt registers as they were.
LEMMA StillStep ==
    ASSUME Typed, Typed', NEW n \in 0 .. 13, NEW c \in Phases, Inv(n, c),
           todo' = todo, poll_mode' = poll_mode, aer' = aer, probes' = probes,
           resets' = resets, seen' = seen,
           SameOwned, SameIrq, SameNodes, SameCounts, dev'.offline = dev.offline,
           dev'.h2c = dev.h2c, dev'.c2h = dev.c2h, dev'.msix = dev.msix,
           n < 9 => ~dev'.work, Handlers(dev') = Handlers(dev) => Cycled(n, c)'
    PROVE  IInv'
  <1>1. Where(todo["core"], n, c, poll_mode)'
    BY DEF Inv
  <1>2. Held(n, c)'
    BY DEF Inv, Held, SameOwned
  <1>3. Ioctls(n, c)'
    BY DEF Inv, Ioctls
  <1>4. Enabled(n, c)'
    BY DEF Inv, Enabled, Base, SameCounts, At, Idle
  <1>5. Threads(n, c)'
    BY DEF Inv, Threads, Left, SameCounts
  <1>6. Nodes(n, c)'
    BY DEF Inv, Nodes, SameNodes
  <1>7. Handlers(dev') = Handlers(dev)
    <2>1. ChannelLines(dev') = ChannelLines(dev)
      BY DEF ChannelLines
    <2>2. Channels(dev') = Channels(dev)
      BY <2>1 DEF Channels
    <2> QED BY <2>2 DEF Handlers
  <1>8. \A b, U : AtAny(b, U)' <=> AtAny(b, U)
    BY DEF AtAny, Idle
  <1>9. Handled(n, c)'
    BY <1>7, <1>8 DEF Inv, Handled, SameIrq
  <1>10. Counted(n, c)'
    BY DEF Inv, Counted, SameIrq
  <1>11. Cycled(n, c)'
    BY <1>7
  <1> QED BY <1>1, <1>2, <1>3, <1>4, <1>5, <1>6, <1>9, <1>10, <1>11 DEF IInv, Inv

\* The user interrupt and its reader.
LEMMA EventStep ==
    ASSUME Typed, NEW n \in 0 .. 13, NEW c \in Phases, Inv(n, c),
           RaiseUserIrq \/ user_irq_service \/ EventsRead \/ EventsSignal \/ EventsTake
           \/ UNCHANGED vars
    PROVE  IInv'
  <1>1. /\ todo' = todo /\ poll_mode' = poll_mode /\ aer' = aer /\ probes' = probes
        /\ resets' = resets /\ seen' = seen
    BY DEF RaiseUserIrq, user_irq_service, EventsRead, EventsSignal, EventsTake, vars
  <1>2. raised' \in BOOLEAN /\ reader' \in {"out", "wait"}
    BY DEF Typed, RaiseUserIrq, user_irq_service, EventsRead, EventsSignal, EventsTake, vars, user
  <1>3. dev \in Devices
    BY DEF Typed
  <1>4. \/ dev' = dev \/ dev' = [dev EXCEPT !.event = 0] \/ dev' = [dev EXCEPT !.event = 1]
    BY DEF RaiseUserIrq, user_irq_service, EventsRead, EventsSignal, EventsTake, vars
  <1>5. /\ dev' \in Devices /\ SameOwned /\ SameEngines /\ SameIrq /\ SameCycle /\ SameNodes
        /\ SameCounts
    BY <1>3, <1>4 DEF Devices, SameOwned, SameEngines, SameIrq, SameCycle, SameNodes, SameCounts
  <1>6. Typed'
    BY <1>1, <1>2, <1>5 DEF Typed
  <1>7. ASSUME Handlers(dev') = Handlers(dev) PROVE Cycled(n, c)'
    <2>1. Up' <=> Up
      BY <1>5, <1>7 DEF Up, SameIrq
    <2>2. (\A b, x : At(b, x)' <=> At(b, x)) /\ (\A b, U : AtAny(b, U)' <=> AtAny(b, U))
      BY <1>1 DEF At, AtAny, Idle
    <2>3. Unmasked' = Unmasked /\ (Calm' <=> Calm)
      BY <1>1, <1>5 DEF Unmasked, Calm, SameCycle
    <2> QED BY <1>1, <1>5, <2>1, <2>2, <2>3 DEF Inv, Cycled, SameCycle
  <1>8. n < 9 => ~dev'.work
    BY <1>5 DEF Inv, Held, SameEngines
  <1> QED BY <1>1, <1>5, <1>6, <1>7, <1>8, StillStep DEF SameEngines, SameCycle

\* A bottom half is scheduled by an interrupt that is enabled, and enables it
\* again; when it was disabled meanwhile, that is remembered.
LEMMA WorkStep ==
    ASSUME Typed, NEW n \in 0 .. 13, NEW c \in Phases, Inv(n, c),
           channel_isr \/ engine_service_work
    PROVE  IInv'
  <1>1. /\ todo' = todo /\ poll_mode' = poll_mode /\ aer' = aer /\ probes' = probes
        /\ resets' = resets /\ seen' = seen /\ raised' = raised /\ reader' = reader
    BY DEF channel_isr, engine_service_work, rest, user
  <1>2. PICK w \in BOOLEAN, u \in SUBSET {"channel", "user"} :
            /\ dev' = [dev EXCEPT !.work = w, !.unmasked = u]
            /\ \/ w = TRUE /\ u = dev.unmasked /\ "channel" \in u /\ Channels(dev) # {}
               \/ /\ w = FALSE /\ dev.work
                  /\ u = dev.unmasked \/ u = dev.unmasked \cup {"channel"}
    <2>1. dev \in Devices /\ dev.unmasked \in SUBSET {"channel", "user"}
      BY DEF Typed, Devices
    <2>2. CASE channel_isr
      <3>1. /\ dev' = [dev EXCEPT !.work = TRUE] /\ "channel" \in dev.unmasked
            /\ Channels(dev) # {}
        BY <2>2 DEF channel_isr
      <3>2. dev' = [dev EXCEPT !.work = TRUE, !.unmasked = dev.unmasked]
        BY <2>1, <3>1 DEF Devices
      <3> QED BY <2>1, <3>1, <3>2
    <2>3. CASE engine_service_work
      <3> DEFINE v == IF dev.msix = "msix" THEN dev.unmasked ELSE dev.unmasked \cup {"channel"}
      <3>1. /\ dev' = [dev EXCEPT !.work = FALSE, !.unmasked = v] /\ dev.work
        BY <2>3 DEF engine_service_work
      <3>2. /\ v \in SUBSET {"channel", "user"}
            /\ v = dev.unmasked \/ v = dev.unmasked \cup {"channel"}
        BY <2>1
      <3> HIDE DEF v
      <3> QED BY <3>1, <3>2
    <2> QED BY <2>2, <2>3
  <1>3. /\ dev' \in Devices /\ SameOwned /\ SameIrq /\ SameNodes /\ SameCounts
        /\ dev'.offline = dev.offline /\ dev'.shutdown = dev.shutdown
        /\ dev'.h2c = dev.h2c /\ dev'.c2h = dev.c2h /\ dev'.msix = dev.msix
        /\ dev'.work = w /\ dev'.unmasked = u
    <2>1. dev \in Devices
      BY DEF Typed
    <2> QED BY <1>2, <2>1 DEF Devices, SameOwned, SameIrq, SameNodes, SameCounts
  <1>4. Typed'
    BY <1>1, <1>3 DEF Typed
  <1>5. Cycled(n, c) /\ Held(n, c) /\ Where(todo["core"], n, c, poll_mode)
    BY DEF Inv
  <1>6. n < 9 => ~dev'.work
    <2> SUFFICES ASSUME n < 9 PROVE w = FALSE
      BY <1>3
    <2>1. dev.h2c = 0 /\ dev.c2h = 0
      BY <1>5 DEF Held
    <2>2. Channels(dev) = {}
      BY <2>1 DEF Channels, ChannelLines
    <2> QED BY <1>2, <2>2
  <1>7. /\ dev.unmasked \subseteq u /\ u \subseteq dev.unmasked \cup {"channel"}
        /\ "channel" \notin dev.unmasked => w = FALSE
        /\ u # dev.unmasked => dev.work /\ "channel" \notin dev.unmasked
    BY <1>2
  <1>8. u # dev.unmasked => c # "open" /\ "late_work" \in seen
    BY <1>5, <1>7 DEF Cycled
  <1>9. Unmasked' = Unmasked
    BY <1>1, <1>3, <1>7, <1>8 DEF Unmasked
  <1>10. n = 12 => c = "open"
    BY <1>5 DEF Where, UnopenedLevel, AbandonedLevel
  <1>11. dev.unmasked = {"channel", "user"} => u = {"channel", "user"}
    BY <1>7
  <1>12. ASSUME Handlers(dev') = Handlers(dev) PROVE Cycled(n, c)'
    <2>1. Up' <=> Up
      BY <1>3, <1>12 DEF Up, SameIrq
    <2>2. (\A b, x : At(b, x)' <=> At(b, x)) /\ (\A b, U : AtAny(b, U)' <=> AtAny(b, U))
      BY <1>1 DEF At, AtAny, Idle
    <2>3. Calm' <=> Calm
      BY <1>1 DEF Calm
    <2>4. dev'.work => "channel" \in dev'.unmasked
      BY <1>3, <1>7
    <2>5. c = "open" => dev'.unmasked = dev.unmasked
      BY <1>3, <1>8
    <2> QED BY <1>1, <1>3, <1>5, <1>9, <1>10, <1>11, <2>1, <2>2, <2>3, <2>4, <2>5 DEF Cycled
  <1> QED BY <1>1, <1>3, <1>4, <1>6, <1>12, StillStep

\* No module, no device.
LEMMA InvInit == Init => IInv
  <1> SUFFICES ASSUME Init PROVE IInv
    OBVIOUS
  <1>1. /\ dev = NoDevice /\ todo = [a \in Actors |-> <<>>] /\ aer = "normal"
        /\ probes = 0 /\ resets = 0 /\ seen = {} /\ poll_mode \in BOOLEAN
    BY DEF Init
  <1>2. NoDevice \in Devices
    <2>1. [l \in Lines |-> 0] \in [Lines -> Nat]
      OBVIOUS
    <2>2. [g \in Groups |-> 0] \in [Groups -> 0 .. UserMax + 2 * ChannelMax + 1]
      <3>1. 0 \in 0 .. UserMax + 2 * ChannelMax + 1
        BY DeviceAssumption
      <3> QED BY <3>1
    <2>3. 0 \in 0 .. ChannelMax
      BY DeviceAssumption
    <2> QED BY <2>1, <2>2, <2>3 DEF NoDevice, Devices
  <1>3. todo["core"] = <<>> /\ todo["ioctl"] = <<>> /\ todo \in [Actors -> Seq(Steps)]
    <2>1. <<>> \in Seq(Steps)
      OBVIOUS
    <2> QED BY <1>1, <2>1 DEF Actors
  <1>4. Typed
    <2>1. 0 \in 0 .. MaxProbes /\ 0 \in 0 .. MaxResets
      BY DeviceAssumption
    <2>2. raised \in BOOLEAN /\ reader \in {"out", "wait"}
      BY DEF Init
    <2>3. seen \subseteq Steps \cup {"overlap", "online_again", "remove_frozen",
                                     "late_work", "into_close"}
      BY <1>1
    <2> QED BY <1>1, <1>2, <1>3, <2>1, <2>2, <2>3 DEF Typed
  <1>5. \A b \in Actors : \A x : ~At(b, x) /\ ~AtAny(b, x)
    BY <1>1 DEF At, AtAny, Idle
  <1>6. Where(todo["core"], 0, "idle", poll_mode) /\ Ioctls(0, "idle")
    BY <1>3 DEF Where, Ioctls
  <1>7. Held(0, "idle")
    BY <1>1 DEF Held, NoDevice
  <1>8. Enabled(0, "idle")
    BY <1>1, <1>5 DEF Enabled, Base, NoDevice, Actors
  <1>9. Threads(0, "idle")
    <2>1. 0 * NumThreads \in Nat
      <3>1. 0 \in Nat /\ 0 <= 0
        OBVIOUS
      <3> QED BY <3>1, Product
    <2> QED BY <1>1, <2>1 DEF Threads, Left, NoDevice
  <1>10. Nodes(0, "idle")
    BY <1>1 DEF Nodes, NoDevice, Groups
  <1>11. \A l \in Lines : dev.irq[l] = 0
    BY <1>1 DEF NoDevice
  <1>12. Shared \in Lines
    BY DEF Shared, Lines
  <1>13. Handled(0, "idle")
    BY <1>5, <1>11, <1>12 DEF Handled
  <1>14. Counted(0, "idle")
    BY <1>1, <1>3, <1>11, <1>12 DEF Counted, One, Among
  <1>15. Cycled(0, "idle")
    BY <1>1, <1>5 DEF Cycled, Unmasked, NoDevice
  <1>16. 0 \in 0 .. 13 /\ "idle" \in Phases
    BY DEF Phases
  <1> QED BY <1>4, <1>6, <1>7, <1>8, <1>9, <1>10, <1>13, <1>14, <1>15, <1>16 DEF IInv, Inv

\* Every step keeps it.
LEMMA InvNext == IInv /\ [Next]_vars => IInv'
  <1> SUFFICES ASSUME IInv, [Next]_vars PROVE IInv'
    OBVIOUS
  <1>1. PICK n \in 0 .. 13, c \in Phases : Inv(n, c)
    BY DEF IInv
  <1>2. Typed
    BY DEF IInv
  <1>3. CASE Open("core")
    BY <1>1, <1>2, <1>3, XpdevAlloc, AllocDevInstance, XdevListAdd, PciEnable, RequestRegions,
       MapBars, SetDmaMask, ProbeEngines, EnableMsi, SetupStep, OpenDone, UserEnable,
       CreateStep, SetDrvdata DEF Open
  <1>4. CASE Release("core")
    BY <1>1, <1>2, <1>4, DestroyOpen, DestroyUnopened, DisableMsi, RemoveEngines, UnmapBars,
       ReleaseRegions, DisableDevice, XdevListRemove, FreeXdev, FreeXpdev DEF Release
  <1>5. CASE Module("core")
    BY <1>1, <1>2, <1>5, ModuleStep
  <1>6. CASE Recover("core")
    BY <1>1, <1>2, <1>6, RecoverStep
  <1>7. CASE OfflineOnline("core")
    BY <1>1, <1>2, <1>7, OfflineCore
  <1>8. CASE Ioctl
    BY <1>1, <1>2, <1>8, OfflineIoctl
  <1>9. CASE xdma_mod_init \/ Probe \/ Remove \/ xdma_mod_exit
    BY <1>1, <1>2, <1>9, InitBegins, ProbeBegins, RemoveBegins, ExitBegins
  <1>10. CASE xdma_error_detected \/ xdma_slot_reset \/ xdma_reset \/ char_ctrl_ioctl
    BY <1>1, <1>2, <1>10, ErrorBegins, SlotResetBegins, ResetBegins, IoctlBegins
  <1>11. CASE RaiseUserIrq \/ user_irq_service \/ EventsRead \/ EventsSignal \/ EventsTake
              \/ UNCHANGED vars
    BY <1>1, <1>2, <1>11, EventStep
  <1>12. CASE channel_isr \/ engine_service_work
    BY <1>1, <1>2, <1>12, WorkStep
  <1> QED BY <1>3, <1>4, <1>5, <1>6, <1>7, <1>8, <1>9, <1>10, <1>11, <1>12 DEF Next, Core

\* So it holds of the driver.
LEMMA InvHolds == Spec => []IInv
  BY InvInit, InvNext, PTL DEF Spec

-----------------------------------------------------------------------------
(* What the invariant implies *)

\* The counters of the kernel stay within what the probes and resets so far
\* can have added to them.
LEMMA Bounds ==
    ASSUME IInv
    PROVE  /\ dev.enabled \in -MaxProbes .. MaxProbes
           /\ dev.threads \in 0 .. MaxProbes * NumThreads
           /\ dev.irq \in [Lines -> 0 .. MaxResets + 1]
  <1>1. PICK n \in 0 .. 13, c \in Phases : Inv(n, c)
    BY DEF IInv
  <1>2. /\ dev \in Devices /\ dev.enabled \in Int /\ dev.threads \in Int
        /\ dev.irq \in [Lines -> Nat] /\ Shared \in Lines
    BY HandlerLines DEF IInv, Typed, Devices
  <1>3. /\ probes \in Nat /\ MaxProbes \in Nat /\ probes <= MaxProbes
        /\ resets \in Nat /\ MaxResets \in Nat /\ resets <= MaxResets
    BY DeviceAssumption DEF IInv, Typed
  <1>4. dev.enabled \in -MaxProbes .. MaxProbes
    <2> DEFINE b == Base(n)
    <2>1. b \in Int /\ b <= dev.enabled /\ dev.enabled <= b + One(n >= 4)
      BY <1>2 DEF Base, One
    <2>2. IF n >= 4 \/ c = "open" THEN -(probes - 1) <= b /\ b <= probes - 1
                                  ELSE -probes <= b /\ b <= probes
      BY <1>1 DEF Inv, Enabled
    <2> HIDE DEF b
    <2> QED BY <1>2, <1>3, <2>1, <2>2 DEF One
  <1>5. dev.threads \in 0 .. MaxProbes * NumThreads
    <2>1. /\ NumThreads \in Nat /\ (probes - 1) * NumThreads + NumThreads = probes * NumThreads
          /\ probes * NumThreads <= MaxProbes * NumThreads /\ probes * NumThreads \in Nat
          /\ MaxProbes * NumThreads \in Nat /\ (probes - 1) * NumThreads \in Int
      BY <1>3, Product
    <2> DEFINE b == Left(n)
               k == probes * NumThreads
               j == (probes - 1) * NumThreads
               m == MaxProbes * NumThreads
    <2>2. Threads(n, c)
      BY <1>1 DEF Inv
    <2>3. b \in Int /\ b >= 0 /\ dev.threads = b + (IF n >= 3 /\ poll_mode THEN NumThreads ELSE 0)
      BY <1>2, <2>1, <2>2 DEF Left, Threads
    <2>4. IF n >= 3 \/ c = "open" THEN b <= j ELSE b <= k
      BY <2>2 DEF Threads
    <2>5. j + NumThreads = k /\ k <= m /\ k \in Nat /\ m \in Nat /\ j \in Int /\ NumThreads \in Nat
      BY <2>1
    <2> HIDE DEF b, k, j, m
    <2>6. dev.threads >= 0 /\ dev.threads <= m
      BY <2>3, <2>4, <2>5
    <2> QED BY <1>2, <2>5, <2>6 DEF m
  <1>6. ASSUME NEW l \in Lines PROVE dev.irq[l] \in 0 .. MaxResets + 1
    <2>1. CASE l # Shared
      <3>1. dev.irq[l] <= 1 /\ dev.irq[l] \in Nat
        BY <1>1, <1>2, <2>1 DEF Inv, Handled
      <3> QED BY <1>3, <3>1
    <2>2. CASE l = Shared
      <3> DEFINE i == One(Among("irq_setup_again", todo["ioctl"]))
                 k == One(aer = "frozen" \/ Among("irq_setup_again", todo["core"])
                                         \/ Among("aer_disable", todo["core"]))
                 m == One(n >= 11 /\ dev.msix # "msix")
      <3>1. i \in Nat /\ k \in Nat /\ m \in 0 .. 1
        BY DEF One
      <3>2. dev.irq[Shared] + (i + k) <= resets + m
        BY <1>1 DEF Inv, Counted
      <3>3. dev.irq[Shared] \in Nat
        BY <1>2
      <3> HIDE DEF i, k, m
      <3> QED BY <1>3, <2>2, <3>1, <3>2, <3>3
    <2> QED BY <2>1, <2>2
  <1>7. dev.irq \in [Lines -> 0 .. MaxResets + 1]
    BY <1>2, <1>6
  <1> QED BY <1>4, <1>5, <1>7

\* The driver's structures, and what the kernel and the hardware hold for it,
\* are of their types; n probes leave the enable count off by n at most.
THEOREM TypeCorrect == Spec => []TypeOK
  <1>1. ASSUME IInv PROVE TypeOK
    <2>1. /\ dev.enabled \in -MaxProbes .. MaxProbes
          /\ dev.threads \in 0 .. MaxProbes * NumThreads
          /\ dev.irq \in [Lines -> 0 .. MaxResets + 1]
      BY <1>1, Bounds
    <2>2. Typed
      BY <1>1 DEF IInv
    <2>3. dev \in
         [xpdev : BOOLEAN, bound : BOOLEAN, xdev : BOOLEAN, listed : BOOLEAN,
          offline : BOOLEAN, shutdown : BOOLEAN,
          enabled : -MaxProbes .. MaxProbes, regions : {"none", "got", "in_use"}, bars : BOOLEAN,
          h2c : 0 .. ChannelMax, c2h : 0 .. ChannelMax,
          threads : 0 .. MaxProbes * NumThreads,
          msix : {"msix", "msi", "legacy"}, irq : [Lines -> 0 .. MaxResets + 1],
          lines : SUBSET Lines, vectors : SUBSET Lines,
          unmasked : SUBSET {"channel", "user"}, work : BOOLEAN,
          nodes : [Groups -> 0 .. UserMax + 2 * ChannelMax + 1],
          flags : SUBSET Groups, major : BOOLEAN, chrdev : BOOLEAN, event : 0 .. 1,
          class : BOOLEAN, cache : BOOLEAN, driver : BOOLEAN]
      <3> DEFINE A == -MaxProbes .. MaxProbes
                 B == 0 .. MaxProbes * NumThreads
                 C == [Lines -> 0 .. MaxResets + 1]
      <3>1. dev.enabled \in A /\ dev.threads \in B /\ dev.irq \in C
        BY <2>1
      <3>2. dev \in Devices
        BY <2>2 DEF Typed
      <3> HIDE DEF A, B, C
      <3>3. dev \in
           [xpdev : BOOLEAN, bound : BOOLEAN, xdev : BOOLEAN, listed : BOOLEAN,
            offline : BOOLEAN, shutdown : BOOLEAN,
            enabled : A, regions : {"none", "got", "in_use"}, bars : BOOLEAN,
            h2c : 0 .. ChannelMax, c2h : 0 .. ChannelMax, threads : B,
            msix : {"msix", "msi", "legacy"}, irq : C,
            lines : SUBSET Lines, vectors : SUBSET Lines,
            unmasked : SUBSET {"channel", "user"}, work : BOOLEAN,
            nodes : [Groups -> 0 .. UserMax + 2 * ChannelMax + 1],
            flags : SUBSET Groups, major : BOOLEAN, chrdev : BOOLEAN, event : 0 .. 1,
            class : BOOLEAN, cache : BOOLEAN, driver : BOOLEAN]
        BY <3>1, <3>2 DEF Devices
      <3> QED BY <3>3 DEF A, B, C
    <2> QED BY <2>2, <2>3 DEF Typed, TypeOK
  <1> QED BY <1>1, InvHolds, PTL

\* When no procedure runs and there is no struct xdma_pci_dev, everything that
\* any probe acquired has been released, but for the leaks of the source: those
\* of a failed step, a bottom half on its way, or an ioctl beside the close.
THEOREM NothingStaysBehind == Spec => []NothingLeftBehind
  <1>1. ASSUME IInv PROVE NothingLeftBehind
    <2> SUFFICES ASSUME Quiet, ~dev.xpdev
                 PROVE  /\ ~dev.xdev /\ ~dev.listed /\ ~dev.bars /\ dev.regions = "none"
                        /\ dev.h2c + dev.c2h = 0 /\ ~dev.chrdev
                        /\ Unmasked # {} => "overlap" \in seen
                        /\ dev.enabled > 0 => "request_regions" \in seen
                        /\ dev.enabled < 0 => "remove_frozen" \in seen
                        /\ dev.threads > 0 => "xdev_list_add" \in seen
                        /\ \A l \in Lines : dev.irq[l] > 0 => HandlerLeaked(l)
                        /\ \A g \in Groups : dev.nodes[g] > 0 =>
                              g \in {"events", "sg", "bypass"} \cap seen
      BY DEF NothingLeftBehind
    <2>1. PICK n \in 0 .. 13, c \in Phases : Inv(n, c)
      BY <1>1 DEF IInv
    <2>2. n = 0 /\ todo["core"] = <<>>
      BY <2>1 DEF Inv, Held, Quiet, Idle, Actors
    <2>3. c # "release"
      <3>1. Where(todo["core"], n, c, poll_mode)
        BY <2>1 DEF Inv
      <3>2. c = "cycle" \/ c = "idle"
        BY <2>2, <3>1, Away
      <3> QED BY <3>2
    <2>4. /\ ~dev.xdev /\ ~dev.listed /\ ~dev.bars /\ dev.regions = "none"
          /\ dev.h2c = 0 /\ dev.c2h = 0
      BY <2>1, <2>2, <2>3 DEF Inv, Held
    <2>5. /\ ~dev.chrdev
          /\ \A g \in Groups : dev.nodes[g] > 0 => g \in {"events", "sg", "bypass"} \cap seen
      BY <2>1, <2>2 DEF Inv, Nodes, Present
    <2>6. Unmasked # {} => "overlap" \in seen
      BY <2>1, <2>2 DEF Inv, Cycled
    <2>7. /\ dev.enabled > 0 => "request_regions" \in seen
          /\ dev.enabled < 0 => "remove_frozen" \in seen
      <3>1. dev.enabled \in Int
        BY <1>1 DEF IInv, Typed, Devices
      <3>2. Base(n) = dev.enabled
        BY <2>2, <3>1 DEF Base
      <3> QED BY <2>1, <3>2 DEF Inv, Enabled
    <2>8. dev.threads > 0 => "xdev_list_add" \in seen
      <3>1. dev.threads \in Int
        BY <1>1 DEF IInv, Typed, Devices
      <3>2. Left(n) = dev.threads
        BY <2>2, <3>1 DEF Left
      <3> QED BY <2>1, <3>2 DEF Inv, Threads
    <2>9. ASSUME NEW l \in Lines, dev.irq[l] > 0 PROVE HandlerLeaked(l)
      <3>1. CASE l # Shared
        BY <2>1, <2>2, <2>9, <3>1 DEF Inv, Handled, HandlerLeaked
      <3>2. CASE l = Shared
        BY <2>1, <2>2, <2>9, <3>2 DEF Inv, Handled, HandlerLeaked, Shared
      <3> QED BY <3>1, <3>2
    <2> QED BY <2>4, <2>5, <2>6, <2>7, <2>8, <2>9
  <1> QED BY <1>1, InvHolds, PTL

\* A registered interrupt handler finds struct xdma_dev, the registers and its
\* engine, unless it was registered once too often, or while the device was
\* being closed.
THEOREM HandlersAlwaysHaveDevice == Spec => []HandlersHaveDevice
  <1>1. ASSUME IInv PROVE HandlersHaveDevice
    <2> SUFFICES ASSUME NEW l \in Lines, dev.irq[l] > 0, ~HandlerLeaked(l)
                 PROVE  /\ dev.xdev /\ dev.bars
                        /\ l[1] \in {"h2c", "c2h"} => l \in Channels(dev)
      BY DEF HandlersHaveDevice
    <2>1. PICK n \in 0 .. 13, c \in Phases : Inv(n, c)
      BY <1>1 DEF IInv
    <2>2. /\ n >= 11
          /\ l # Shared => l \in Handlers(dev) /\ dev.msix = "msix"
      <3>1. CASE l # Shared
        BY <2>1, <3>1 DEF Inv, Handled, HandlerLeaked
      <3>2. CASE l = Shared
        BY <2>1, <3>2 DEF Inv, Handled, HandlerLeaked, Shared
      <3> QED BY <3>1, <3>2
    <2>3. dev.xdev /\ dev.bars
      BY <2>1, <2>2 DEF Inv, Held
    <2>4. l[1] \in {"h2c", "c2h"} => l \in Channels(dev)
      <3>1. CASE l = Shared
        BY <3>1 DEF Shared
      <3>2. CASE l # Shared
        <4>1. l \in Channels(dev) \cup UserLines
          BY <2>2, <3>2 DEF Handlers
        <4>2. \A u \in UserLines : u[1] = "user"
          BY DEF UserLines
        <4> QED BY <4>1, <4>2
      <3> QED BY <3>1, <3>2
    <2> QED BY <2>3, <2>4
  <1> QED BY <1>1, InvHolds, PTL

\* A node that can be opened belongs to an open device, and a node of a channel
\* to an engine that exists, unless its group could not be completed.
THEOREM NodesAlwaysHaveDevice == Spec => []NodesHaveDevice
  <1>1. ASSUME IInv PROVE NodesHaveDevice
    <2> SUFFICES ASSUME NEW g \in Groups, dev.nodes[g] > 0, g \notin seen
                 PROVE  dev.xdev /\ dev.bars /\ (g = "sg" => dev.nodes[g] <= dev.h2c + dev.c2h)
      BY DEF NodesHaveDevice
    <2>1. PICK n \in 0 .. 13, c \in Phases : Inv(n, c)
      BY <1>1 DEF IInv
    <2>2. n = 13 /\ (g = "sg" => dev.nodes[g] <= dev.h2c + dev.c2h)
      BY <2>1 DEF Inv, Nodes, Present
    <2> QED BY <2>1, <2>2 DEF Inv, Held
  <1> QED BY <1>1, InvHolds, PTL

\* No interrupt is enabled in the device without its handlers, as long as
\* irq_setup has not failed in xdma_device_online and no ioctl ran into the core;
\* that of a channel as long as it was never disabled under a bottom half.
THEOREM UnmaskedAlwaysHasHandler == Spec => []UnmaskedHasHandler
  <1>1. ASSUME IInv PROVE UnmaskedHasHandler
    <2>1. PICK n \in 0 .. 13, c \in Phases : Inv(n, c)
      BY <1>1 DEF IInv
    <2>2. Calm /\ Unmasked # {} => Up
      BY <2>1 DEF Inv, Cycled
    <2> QED BY <2>2 DEF UnmaskedHasHandler, Calm, Up
  <1> QED BY <1>1, InvHolds, PTL

\* After any resets, recoveries and ioctls that did not run into each other, a
\* device that is online again is as probe left it.
THEOREM AlwaysRecovered == Spec => []Recovered
  <1>1. ASSUME IInv PROVE Recovered
    <2> SUFFICES ASSUME dev.bound, Quiet, ~dev.offline, aer = "normal", Calm
                 PROVE  /\ ~dev.shutdown
                        /\ seen \cap {"request_regions", "remove_frozen"} = {} =>
                              dev.enabled = 1
                        /\ ~poll_mode => /\ dev.unmasked = {"channel", "user"}
                                         /\ \A l \in Handlers(dev) : dev.irq[l] > 0
      BY DEF Recovered, Calm
    <2>1. PICK n \in 0 .. 13, c \in Phases : Inv(n, c)
      BY <1>1 DEF IInv
    <2>2. Where(todo["core"], n, c, poll_mode) /\ todo["core"] = <<>> /\ n >= 1
          /\ poll_mode \in BOOLEAN
      BY <1>1, <2>1 DEF Inv, Held, Quiet, Idle, Actors, IInv, Typed
    <2>3. c \in {"idle", "cycle"}
      BY <2>2, Away
    <2>4. n = 13
      BY <2>2, <2>3 DEF Where
    <2>5. ~dev.shutdown /\ (~poll_mode => dev.unmasked = {"channel", "user"})
      BY <2>1, <2>3, <2>4 DEF Inv, Cycled
    <2>6. ~poll_mode => \A l \in Handlers(dev) : dev.irq[l] > 0
      <3>1. ~poll_mode => "user" \in Unmasked
        BY <2>5 DEF Unmasked
      <3> QED BY <2>1, <3>1 DEF Inv, Cycled, Up
    <2>7. seen \cap {"request_regions", "remove_frozen"} = {} => dev.enabled = 1
      <3>1. dev.enabled \in Int
        BY <1>1 DEF IInv, Typed, Devices
      <3>2. Base(n) = dev.enabled - 1
        BY <2>4 DEF Base
      <3>3. /\ Base(n) > 0 => "request_regions" \in seen
            /\ Base(n) < 0 => "remove_frozen" \in seen
        BY <2>1 DEF Inv, Enabled
      <3> QED BY <3>1, <3>2, <3>3
    <2> QED BY <2>5, <2>6, <2>7
  <1> QED BY <1>1, InvHolds, PTL
=============================================================================
