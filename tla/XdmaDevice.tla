----------------------------- MODULE XdmaDevice -----------------------------
(***************************************************************************)
(* The life of one PCI device in the XDMA driver: loading of the module,   *)
(* probe and remove (xdma_mod.c), opening and closing the device           *)
(* (libxdma.c), its character devices (xdma_cdev.c), taking it offline and *)
(* online from PCI error recovery, a function reset or an ioctl            *)
(* (cdev_ctrl.c), and the user interrupts (cdev_events.c).                 *)
(*                                                                         *)
(* Every step of probe that acquires something may fail, and the goto      *)
(* labels of the source decide what is released then.  A procedure is the  *)
(* sequence of steps it has still to take, todo[a], of one of two actors:  *)
(* the PCI core, which holds the lock of the device through a procedure,   *)
(* and a process with the control node open, whose ioctls take no lock.    *)
(* A step is named after the function, or the label, of the source.        *)
(*                                                                         *)
(* dev is what is held for the device: struct xdma_dev and struct          *)
(* xdma_pci_dev (xdev, xpdev, bound for the driver data, listed, offline,  *)
(* shutdown of the engines, roles of the BARs, h2c and c2h for the channel *)
(* numbers, lines for msix_irq_line and irq_line, work of the engines,     *)
(* flags, major) and what the kernel and the hardware hold (enabled,       *)
(* regions, bars, threads, msix for the interrupt mode, irq for the        *)
(* registered handlers, vectors and unmasked for the interrupt registers,  *)
(* nodes, chrdev, class, cache).                                           *)
(***************************************************************************)
EXTENDS Integers, Sequences, FiniteSets

CONSTANTS
    ChannelMax,    \* XDMA_CHANNEL_NUM_MAX: channels of each direction
    UserMax,       \* MAX_USER_IRQ
    NumBars,       \* BARs of the device, and which of them
    ConfigBarPos,  \* has the registers of the XDMA core
    MaxProbes,     \* bound: how often a device is probed
    MaxResets      \* bound: how often it is taken offline or online

ASSUME DeviceAssumption ==
    /\ ChannelMax \in Nat \ {0} /\ UserMax \in Nat \ {0}
    /\ NumBars \in 1 .. 6 /\ ConfigBarPos \in 0 .. NumBars - 1
    /\ MaxProbes \in Nat /\ MaxResets \in Nat

VARIABLES
    poll_mode,   \* the module parameter
    dev,         \* what is held for the device
    todo,        \* the steps each actor has still to take
    aer,         \* PCI error recovery: "normal", "frozen" or "disconnected"
    probes, resets,
    raised,      \* the user logic requests its interrupt
    reader,      \* char_events_read: "out" or "wait"
    seen         \* history: the failures and overlaps that have happened

user == <<raised, reader>>
vars == <<poll_mode, dev, todo, aer, probes, resets, user, seen>>

Actors == {"core", "ioctl"}
Groups == {"ctrl", "events", "sg", "bypass", "user", "xvc"}
NumThreads == 2 * ChannelMax

Lines == ({"h2c", "c2h"} \X (0 .. ChannelMax - 1))
         \cup ({"user"} \X (0 .. UserMax - 1)) \cup {<<"dev", 0>>}

NoDevice ==
    [xpdev |-> FALSE, bound |-> FALSE, xdev |-> FALSE, listed |-> FALSE,
     offline |-> FALSE, shutdown |-> FALSE,
     enabled |-> 0, regions |-> "none", bars |-> FALSE,
     h2c |-> 0, c2h |-> 0, threads |-> 0,
     msix |-> "legacy", irq |-> [l \in Lines |-> 0], lines |-> {},
     vectors |-> {}, unmasked |-> {}, work |-> FALSE,
     nodes |-> [g \in Groups |-> 0], flags |-> {}, major |-> FALSE,
     chrdev |-> FALSE, event |-> 0, class |-> FALSE, cache |-> FALSE,
     driver |-> FALSE]

Init ==
    /\ poll_mode \in BOOLEAN
    /\ dev = NoDevice
    /\ todo = [a \in Actors |-> <<>>]
    /\ aer = "normal"
    /\ probes = 0 /\ resets = 0
    /\ raised = FALSE /\ reader = "out"
    /\ seen = {}

Idle(a) == todo[a] = <<>>

\* Actor a is at step s.
At(a, s) == ~Idle(a) /\ Head(todo[a]) = s

rest == <<poll_mode, aer, probes, resets, user>>

\* The step is done and leaves the device as d.
Succeed(a, d) ==
    /\ dev' = d
    /\ todo' = [todo EXCEPT ![a] = Tail(@)]
    /\ UNCHANGED <<rest, seen>>

\* The step fails and leaves the device as d; a goes on with s.
Fail(a, d, s) ==
    /\ dev' = d
    /\ seen' = seen \cup {Head(todo[a])}
    /\ todo' = [todo EXCEPT ![a] = s]
    /\ UNCHANGED rest

-----------------------------------------------------------------------------
(* The procedures *)

\* The labels of xdma_device_open in the order of the source: a failed step
\* goes on from one of them.  xdma_device_close is all of them.
Labels ==
    <<"disable_msi_msix", "remove_engines", "unmap_bars", "release_regions",
      "disable_device", "xdev_list_remove", "free_xdev">>

\* Mutant: the label before the right one is missed.
FromNext(label) ==
    LET k == CHOOSE i \in 1 .. Len(Labels) : Labels[i] = label
    IN  SubSeq(Labels, k + 1, Len(Labels))

From(label) ==
    LET k == CHOOSE i \in 1 .. Len(Labels) : Labels[i] = label
    IN  SubSeq(Labels, k, Len(Labels))

xdma_device_open ==
    <<"alloc_dev_instance", "xdev_list_add", "pci_enable_device",
      "request_regions", "map_bars", "set_dma_mask", "interrupts_disable",
      "probe_engines", "enable_msi_msix", "irq_setup", "open_done">>

\* Mutant: the handlers stay registered.
close_registered ==
    <<"interrupts_disable">> \o From("disable_msi_msix")

xdma_device_close ==
    <<"interrupts_disable", "irq_teardown">> \o From("disable_msi_msix")

\* Mutant: the handlers go before their interrupts.
offline_unordered ==
    <<"set_offline", "stop_engines", "irq_teardown", "interrupts_disable">>

xdma_device_offline ==
    <<"set_offline", "stop_engines", "interrupts_disable", "irq_teardown">>

\* Mutant: the engines are left as xdma_device_offline stopped them.
online_stopped ==
    (IF poll_mode THEN <<>> ELSE <<"irq_setup_again", "interrupts_enable">>)
    \o <<"clear_offline">>

xdma_device_online ==
    <<"start_engines">>
    \o (IF poll_mode THEN <<>> ELSE <<"irq_setup_again", "interrupts_enable">>)
    \o <<"clear_offline">>

\* Which BARs there are besides the one with the XDMA registers, from the
\* number of BARs and the position of that one.
identify_bars(num_bars, config_bar_pos) ==
    CASE num_bars = 2 /\ config_bar_pos = 0 -> {"bypass"}
      [] num_bars = 2 /\ config_bar_pos = 1 -> {"user"}
      [] num_bars \in {3, 4} /\ config_bar_pos \in {1, 2} -> {"user", "bypass"}
      [] OTHER -> {}

\* The interfaces of a device whose BARs have the given roles.
xpdev_create_interfaces ==
    LET roles == identify_bars(NumBars, ConfigBarPos) IN
    <<"ctrl", "events", "sg">>
    \o (IF "bypass" \in roles THEN <<"bypass">> ELSE <<>>)
    \o (IF "user" \in roles THEN <<"user", "xvc">> ELSE <<>>)

\* xpdev_free of a device that could not be opened, and of one that was.
xpdev_free_unopened == <<"destroy_interfaces", "free_xpdev">>
\* Mutant: the nodes are removed last.
xpdev_free_nodes_last == xdma_device_close \o <<"destroy_interfaces", "free_xpdev">>

xpdev_free == <<"destroy_interfaces">> \o xdma_device_close \o <<"free_xpdev">>

remove_one == xpdev_free

-----------------------------------------------------------------------------
(* Opening the device: xdma_device_open, step by step *)

xpdev_alloc(a) ==
    /\ At(a, "xpdev_alloc")
    /\ \/ Succeed(a, [dev EXCEPT !.xpdev = TRUE])
       \/ Fail(a, dev, <<>>)

alloc_dev_instance(a) ==
    /\ At(a, "alloc_dev_instance")
    /\ \/ Succeed(a, [dev EXCEPT !.xdev = TRUE, !.offline = TRUE])
       \/ Fail(a, dev, xpdev_free_unopened)

\* k of the polling threads have been started.  When the next one cannot be,
\* the table of the threads is freed, but those started run on.
xdma_threads_create(d, k) == [d EXCEPT !.threads = @ + k]

xdma_threads_destroy(d) == [d EXCEPT !.threads = @ - NumThreads]

\* The first device starts the polling threads.
xdev_list_add(a) ==
    /\ At(a, "xdev_list_add")
    /\ \/ LET listed == [dev EXCEPT !.listed = TRUE]
          IN  Succeed(a, IF poll_mode THEN xdma_threads_create(listed, NumThreads)
                         ELSE listed)
       \/ /\ poll_mode
          /\ \E k \in 0 .. NumThreads - 1 :
                Fail(a, xdma_threads_create(dev, k),
                     From("free_xdev") \o xpdev_free_unopened)

pci_enable_device(a) ==
    /\ At(a, "pci_enable_device")
    /\ \/ Succeed(a, [dev EXCEPT !.enabled = @ + 1])
       \/ Fail(a, dev, From("xdev_list_remove") \o xpdev_free_unopened)

request_regions(a) ==
    /\ At(a, "request_regions")
    /\ \/ Succeed(a, [dev EXCEPT !.regions = "got"])
       \/ Fail(a, [dev EXCEPT !.regions = "in_use"],
               From("disable_device") \o xpdev_free_unopened)

\* On a failure, or when no BAR has the XDMA identifiers, map_bars unmaps the
\* BARs itself.
map_bars(a) ==
    /\ At(a, "map_bars")
    /\ \/ Succeed(a, [dev EXCEPT !.bars = TRUE])
       \/ Fail(a, dev, From("release_regions") \o xpdev_free_unopened)

set_dma_mask(a) ==
    /\ At(a, "set_dma_mask")
    /\ \/ Succeed(a, dev)
       \/ Fail(a, dev, From("unmap_bars") \o xpdev_free_unopened)

\* The channels are probed up to the first that is not there or whose memory
\* cannot be allocated: that one frees what it got, and is not counted.
probe_engines(a) ==
    /\ At(a, "probe_engines")
    /\ \E h, c \in 0 .. ChannelMax :
          Succeed(a, [dev EXCEPT !.h2c = h, !.c2h = c])

\* MSI-X, MSI or legacy interrupts, after the device and the parameter.
enable_msi_msix(a) ==
    /\ At(a, "enable_msi_msix")
    /\ \/ \E mode \in {"msix", "msi", "legacy"} :
             Succeed(a, [dev EXCEPT !.msix = mode])
       \/ Fail(a, dev, From("remove_engines") \o xpdev_free_unopened)

open_done(a) ==
    /\ At(a, "open_done")
    /\ Succeed(a, [dev EXCEPT !.offline = FALSE,
                              !.unmasked = IF poll_mode THEN @
                                           ELSE @ \cup {"channel"}])

-----------------------------------------------------------------------------
(* Interrupt handlers *)

\* The lines of the channels, in the order they are requested.
ChannelLines(d) ==
    [i \in 1 .. d.h2c + d.c2h |->
        IF i <= d.h2c THEN <<"h2c", i - 1>> ELSE <<"c2h", i - 1 - d.h2c>>]

UserLines == {"user"} \X (0 .. UserMax - 1)
Channels(d) == {ChannelLines(d)[i] : i \in DOMAIN ChannelLines(d)}

Request(d, S) ==
    [d EXCEPT !.irq = [l \in Lines |-> IF l \in S THEN d.irq[l] + 1 ELSE d.irq[l]],
              !.lines = @ \cup S]

\* free_irq of a line that is not registered does nothing but warn.
Free(d, S) ==
    [d EXCEPT !.irq = [l \in Lines |-> IF l \in S /\ d.irq[l] > 0
                                       THEN d.irq[l] - 1 ELSE d.irq[l]]]

\* The handlers a device in its interrupt mode needs.
Handlers(d) == IF d.msix = "msix" THEN Channels(d) \cup UserLines ELSE {<<"dev", 0>>}

\* A line of MSI-X or MSI cannot be requested twice, a legacy one can.
Requestable(d, S) == d.msix = "legacy" \/ \A l \in S : d.irq[l] = 0

\* prog_irq_msix_channel and prog_irq_msix_user: the vectors of lines S.
prog_irq_msix(d, S) == [d EXCEPT !.vectors = S]

\* irq_setup that succeeds: every handler is registered, the vectors are set.
irq_setup(d) ==
    IF d.msix = "msix" THEN prog_irq_msix(Request(d, Handlers(d)), Handlers(d))
    ELSE Request(d, Handlers(d))

\* What irq_setup leaves when it fails.  The handlers of channels requested
\* before the one that fails stay, also when it is a user interrupt that
\* fails; those of user interrupts are freed again.
irq_setup_failed(d) ==
    IF d.msix # "msix" THEN {[d EXCEPT !.lines = @ \cup {<<"dev", 0>>}]}
    ELSE {Request(d, {ChannelLines(d)[i] : i \in 1 .. j}) :
             j \in {k \in 0 .. Len(ChannelLines(d)) :
                       \A i \in 1 .. k : d.irq[ChannelLines(d)[i]] = 0}}

\* The leading channels of a direction that have an interrupt line.
Leading(d, dir, n) ==
    {<<dir, i>> : i \in {j \in 0 .. n - 1 : \A k \in 0 .. j : <<dir, k>> \in d.lines}}

irq_teardown(d) ==
    IF d.msix = "msix"
    THEN prog_irq_msix(
             Free(d, Leading(d, "h2c", d.h2c) \cup Leading(d, "c2h", d.c2h) \cup UserLines),
             {})
    ELSE Free(d, {<<"dev", 0>>} \cap d.lines)

\* Within xdma_device_open.
SetupIrq(a) ==
    /\ At(a, "irq_setup")
    /\ \/ Requestable(dev, Handlers(dev)) /\ Succeed(a, irq_setup(dev))
       \/ \E d \in irq_setup_failed(dev) :
             Fail(a, d, From("disable_msi_msix") \o xpdev_free_unopened)

\* The device is being closed, or was not opened after all.
Closing == \E i \in DOMAIN todo["core"] : todo["core"][i] = "free_xdev"

\* Within xdma_device_online, which goes on whatever irq_setup returns.
\* Nothing keeps an ioctl from doing this while the device is being closed.
SetupIrqAgain(a) ==
    /\ At(a, "irq_setup_again")
    /\ \E failed \in BOOLEAN :
          /\ IF failed THEN dev' \in irq_setup_failed(dev)
             ELSE Requestable(dev, Handlers(dev)) /\ dev' = irq_setup(dev)
          /\ seen' = seen \cup (IF failed THEN {"irq_setup_again"} ELSE {})
                          \cup (IF Closing THEN {"into_close"} ELSE {})
    /\ todo' = [todo EXCEPT ![a] = Tail(@)]
    /\ UNCHANGED rest

TeardownIrq(a) == At(a, "irq_teardown") /\ Succeed(a, irq_teardown(dev))

\* A bottom half that is on its way is neither cancelled nor waited for.
interrupts_disable(a) ==
    /\ At(a, "interrupts_disable")
    /\ dev' = [dev EXCEPT !.unmasked = {}]
    /\ todo' = [todo EXCEPT ![a] = Tail(@)]
    /\ seen' = IF dev.work THEN seen \cup {"late_work"} ELSE seen
    /\ UNCHANGED rest

\* channel_interrupts_enable and user_interrupts_enable(mask_irq_user)
interrupts_enable(a) ==
    /\ At(a, "interrupts_enable")
    /\ Succeed(a, [dev EXCEPT !.unmasked = {"channel", "user"}])

\* An enabled interrupt of a channel reaches its handler, xdma_channel_irq with
\* MSI-X, else xdma_isr, which schedules the bottom half.  The handler masks the
\* channel until the bottom half has run; as that enables it again, "channel"
\* stays in unmasked meanwhile.
channel_isr ==
    /\ dev.bars /\ "channel" \in dev.unmasked
    /\ \E l \in Channels(dev) :
          IF dev.msix = "msix" THEN dev.irq[l] > 0 /\ l \in dev.vectors
          ELSE dev.irq[<<"dev", 0>>] > 0
    /\ dev' = [dev EXCEPT !.work = TRUE]
    /\ UNCHANGED <<todo, rest, seen>>

\* With MSI-X the bottom half enables the interrupt in the engine, else in the
\* interrupt registers, whatever has become of the device.  (It does not when the
\* status cannot be read, which takes a lost device.)
engine_service_work ==
    /\ dev.work
    /\ dev' = [dev EXCEPT !.work = FALSE,
                          !.unmasked = IF dev.msix = "msix" THEN @
                                       ELSE @ \cup {"channel"}]
    /\ UNCHANGED <<todo, rest, seen>>

-----------------------------------------------------------------------------
(* Releasing what was acquired *)

disable_msi_msix(a) ==
    At(a, "disable_msi_msix") /\ Succeed(a, [dev EXCEPT !.msix = "legacy"])

\* The engines of channels S are freed and cleared, their interrupt lines too.
\* What the kernel does with a bottom half that is still queued, and was cleared
\* with its engine, is undefined and not followed.
engine_destroy(d, S) ==
    [d EXCEPT !.h2c = @ - Cardinality({l \in S : l[1] = "h2c"}),
              !.c2h = @ - Cardinality({l \in S : l[1] = "c2h"}),
              !.lines = @ \ S, !.work = FALSE]

remove_engines(a) ==
    At(a, "remove_engines") /\ Succeed(a, engine_destroy(dev, Channels(dev)))

unmap_bars(a) == At(a, "unmap_bars") /\ Succeed(a, [dev EXCEPT !.bars = FALSE])

release_regions(a) ==
    /\ At(a, "release_regions")
    /\ Succeed(a, [dev EXCEPT !.regions = IF @ = "got" THEN "none" ELSE @])

\* "Assume device is in use so do not disable it later."
disable_device(a) ==
    /\ At(a, "disable_device")
    /\ Succeed(a, [dev EXCEPT !.enabled = IF dev.regions = "in_use" THEN @ ELSE @ - 1])

\* The last device stops the polling threads.
xdev_list_remove(a) ==
    /\ At(a, "xdev_list_remove")
    /\ LET unlisted == [dev EXCEPT !.listed = FALSE]
       IN  Succeed(a, IF poll_mode THEN xdma_threads_destroy(unlisted) ELSE unlisted)

\* kfree(xdev).  What an ioctl or a sleeping reader does with the freed
\* structure is undefined: they are followed no further.
free_xdev(a) ==
    /\ At(a, "free_xdev")
    /\ dev' = [dev EXCEPT !.xdev = FALSE, !.offline = FALSE, !.shutdown = FALSE,
                          !.regions = "none", !.lines = {}, !.event = 0]
    /\ todo' = [todo EXCEPT ![a] = Tail(@), !["ioctl"] = <<>>]
    /\ reader' = "out" /\ raised' = FALSE
    /\ UNCHANGED <<poll_mode, aer, probes, resets, seen>>

\* kfree(xpdev)
free_xpdev(a) ==
    /\ At(a, "free_xpdev")
    /\ Succeed(a, [dev EXCEPT !.xpdev = FALSE, !.bound = FALSE, !.flags = {},
                              !.major = FALSE])

-----------------------------------------------------------------------------
(* Character devices *)

\* How many nodes a group has.
Size(d, g) ==
    CASE g = "events" -> UserMax
      [] g = "sg" -> d.h2c + d.c2h
      [] g = "bypass" -> d.h2c + d.c2h + 1
      [] OTHER -> 1

\* create_xcdev for the nodes of group g, of which k are brought live.  The
\* first node of the device registers the range of its numbers.
create_xcdev(d, g, k) ==
    [d EXCEPT !.nodes[g] = k, !.major = TRUE, !.chrdev = TRUE]

\* A group whose node k + 1 cannot be named or added.  A node that cannot be
\* added unregisters a range that starts at its own number: that is the range
\* registered only for the user node, whose number is the first.
CreateFailed(g) ==
    {create_xcdev(dev, g, k) : k \in 0 .. Size(dev, g) - 1}
    \cup (IF dev.major THEN {} ELSE {dev})
    \cup (IF g = "user" THEN {[dev EXCEPT !.chrdev = FALSE]} ELSE {})

\* The flag of a group is set when the last of its nodes is live.
CreateGroup(a, g) ==
    /\ At(a, g)
    /\ \/ Succeed(a, [create_xcdev(dev, g, Size(dev, g)) EXCEPT !.flags = @ \cup {g}])
       \/ \E d \in CreateFailed(g) :
             Fail(a, d, <<"destroy_interfaces">> \o xpdev_free)

\* xpdev_destroy_interfaces: the nodes of the groups whose flag is set.  The
\* flags stay set.
destroy_interfaces(a) ==
    /\ At(a, "destroy_interfaces")
    /\ Succeed(a, [dev EXCEPT !.nodes = [g \in Groups |-> IF g \in dev.flags THEN 0
                                                          ELSE dev.nodes[g]],
                              !.chrdev = IF dev.major THEN FALSE ELSE @])

-----------------------------------------------------------------------------
(* Offline and online *)

set_offline(a) == At(a, "set_offline") /\ Succeed(a, [dev EXCEPT !.offline = TRUE])

stop_engines(a) == At(a, "stop_engines") /\ Succeed(a, [dev EXCEPT !.shutdown = TRUE])

\* Nothing keeps a device that is online from being taken online again.
start_engines(a) ==
    /\ At(a, "start_engines")
    /\ dev' = [dev EXCEPT !.shutdown = FALSE]
    /\ todo' = [todo EXCEPT ![a] = Tail(@)]
    /\ seen' = IF dev.offline THEN seen ELSE seen \cup {"online_again"}
    /\ UNCHANGED rest

clear_offline(a) == At(a, "clear_offline") /\ Succeed(a, [dev EXCEPT !.offline = FALSE])

-----------------------------------------------------------------------------
(* probe_one, module_init and the rest of the PCI core's procedures *)

\* xdma_user_isr_enable for all user interrupts, and the interfaces to create.
user_isr_enable(a) ==
    /\ At(a, "user_isr_enable")
    /\ dev' = [dev EXCEPT !.unmasked = @ \cup {"user"}]
    /\ todo' = [todo EXCEPT ![a] = xpdev_create_interfaces \o Tail(@)]
    /\ UNCHANGED <<rest, seen>>

\* dev_set_drvdata(xpdev): the device is bound to the driver.
set_drvdata(a) == At(a, "set_drvdata") /\ Succeed(a, [dev EXCEPT !.bound = TRUE])

probe_one ==
    <<"xpdev_alloc">> \o xdma_device_open \o <<"user_isr_enable", "set_drvdata">>

class_create(a) ==
    /\ At(a, "class_create")
    /\ \/ Succeed(a, [dev EXCEPT !.class = TRUE])
       \/ /\ todo' = [todo EXCEPT ![a] = <<>>]
          /\ UNCHANGED <<dev, rest, seen>>

\* A failure leaves the class.
cache_create(a) ==
    /\ At(a, "cache_create")
    /\ Succeed(a, [dev EXCEPT !.cache = TRUE]) \/ Fail(a, dev, <<>>)

\* pci_register_driver; a failure leaves the class and the cache.
register_driver(a) ==
    /\ At(a, "register_driver")
    /\ Succeed(a, [dev EXCEPT !.driver = TRUE]) \/ Fail(a, dev, <<>>)

xdma_cdev_cleanup(a) ==
    /\ At(a, "cdev_cleanup")
    /\ Succeed(a, [dev EXCEPT !.class = FALSE, !.cache = FALSE,
                              !.driver = FALSE])

\* xdma_error_detected has taken a frozen device offline: pci_disable_device.
aer_disable(a) ==
    /\ At(a, "aer_disable")
    /\ dev' = [dev EXCEPT !.enabled = @ - 1]
    /\ todo' = [todo EXCEPT ![a] = Tail(@)]
    /\ aer' = "frozen"
    /\ UNCHANGED <<poll_mode, probes, resets, user, seen>>

\* Mutant: the device is not enabled again.
slot_reset_disabled(a) ==
    /\ At(a, "slot_reset")
    /\ dev' = dev
    /\ todo' = [todo EXCEPT ![a] = Tail(@) \o xdma_device_online]
    /\ aer' = "normal"
    /\ UNCHANGED <<poll_mode, probes, resets, user, seen>>

\* xdma_slot_reset: enable the device again and take it online, or give up.
slot_reset(a) ==
    /\ At(a, "slot_reset")
    /\ \/ /\ dev' = [dev EXCEPT !.enabled = @ + 1]
          /\ todo' = [todo EXCEPT ![a] = Tail(@) \o xdma_device_online]
          /\ aer' = "normal"
       \/ /\ dev' = dev
          /\ todo' = [todo EXCEPT ![a] = Tail(@)]
          /\ aer' = "disconnected"
    /\ UNCHANGED <<poll_mode, probes, resets, user, seen>>

\* Actor a begins a procedure; h is what history keeps of it.
Begin(a, steps, h) ==
    /\ Idle(a)
    /\ todo' = [todo EXCEPT ![a] = steps]
    /\ seen' = seen \cup h \cup (IF \E b \in Actors \ {a} : ~Idle(b)
                                THEN {"overlap"} ELSE {})
    /\ UNCHANGED <<poll_mode, dev, user>>

\* module_init
xdma_mod_init ==
    /\ ~dev.driver /\ ~dev.class /\ probes = 0
    /\ Begin("core", <<"class_create", "cache_create", "register_driver">>, {})
    /\ UNCHANGED <<aer, probes, resets>>

Probe ==
    /\ dev.driver /\ ~dev.xpdev /\ probes < MaxProbes
    /\ Begin("core", probe_one, {})
    /\ probes' = probes + 1
    /\ aer' = "normal"
    /\ UNCHANGED <<resets>>

\* remove_one, of a device that is unplugged or unbound.
Remove ==
    /\ dev.bound
    /\ Begin("core", remove_one, IF aer = "normal" THEN {} ELSE {"remove_frozen"})
    /\ UNCHANGED <<aer, probes, resets>>

\* module_exit: open files keep the module in the kernel.
xdma_mod_exit ==
    /\ dev.driver /\ Idle("ioctl") /\ reader = "out"
    /\ Begin("core", (IF dev.bound THEN remove_one ELSE <<>>) \o <<"cdev_cleanup">>,
             IF dev.bound /\ aer # "normal" THEN {"remove_frozen"} ELSE {})
    /\ UNCHANGED <<aer, probes, resets>>

\* xdma_error_detected(pci_channel_io_frozen)
xdma_error_detected ==
    /\ dev.bound /\ aer = "normal" /\ resets < MaxResets
    /\ Begin("core", xdma_device_offline \o <<"aer_disable">>, {})
    /\ resets' = resets + 1
    /\ UNCHANGED <<aer, probes>>

xdma_slot_reset ==
    /\ dev.bound /\ aer = "frozen"
    /\ Begin("core", <<"slot_reset">>, {})
    /\ UNCHANGED <<aer, probes, resets>>

\* xdma_reset_prepare and xdma_reset_done, around a function reset.
xdma_reset ==
    /\ dev.bound /\ aer = "normal" /\ resets < MaxResets
    /\ Begin("core", xdma_device_offline \o xdma_device_online, {})
    /\ resets' = resets + 1
    /\ UNCHANGED <<aer, probes>>

-----------------------------------------------------------------------------
(* Users of the character devices *)

\* The module is being unloaded: none of its files is open.
Unloading == \E i \in DOMAIN todo["core"] : todo["core"][i] = "cdev_cleanup"

\* XDMA_IOCOFFLINE and XDMA_IOCONLINE; debug_check_dev_hndl refuses a device
\* that is no longer on the list.  A control node that was live may still be
\* open when it has been removed.
char_ctrl_ioctl ==
    /\ "ctrl" \in dev.flags /\ dev.listed /\ ~Unloading /\ resets < MaxResets
    /\ \E steps \in {xdma_device_offline, xdma_device_online} :
          Begin("ioctl", steps, {})
    /\ resets' = resets + 1
    /\ UNCHANGED <<aer, probes>>

\* The user logic (external).
RaiseUserIrq ==
    /\ dev.enabled > 0 /\ ~raised
    /\ raised' = TRUE
    /\ UNCHANGED <<poll_mode, dev, todo, aer, probes, resets, reader, seen>>

\* An enabled interrupt reaches a handler: its own with MSI-X, else xdma_isr.
Delivered(d) ==
    /\ d.bars /\ "user" \in d.unmasked
    /\ IF d.msix = "msix"
       THEN d.irq[<<"user", 0>>] > 0 /\ <<"user", 0>> \in d.vectors
       ELSE d.irq[<<"dev", 0>>] > 0

\* Mutant: the interrupt is acknowledged, but the event is not noted.
user_irq_unnoted ==
    /\ raised /\ Delivered(dev)
    /\ raised' = FALSE
    /\ UNCHANGED <<poll_mode, dev, todo, aer, probes, resets, reader, seen>>

\* xdma_user_irq or xdma_isr, and user_irq_service: events that are not yet
\* read are one event.
user_irq_service ==
    /\ raised /\ Delivered(dev)
    /\ raised' = FALSE
    /\ dev' = [dev EXCEPT !.event = 1]
    /\ UNCHANGED <<poll_mode, todo, aer, probes, resets, reader, seen>>

\* char_events_read: sleep until there is an event, or a signal.
EventsRead ==
    /\ reader = "out" /\ dev.nodes["events"] > 0 /\ dev.xdev
    /\ reader' = "wait"
    /\ UNCHANGED <<poll_mode, dev, todo, aer, probes, resets, raised, seen>>

EventsSignal ==
    /\ reader = "wait"
    /\ reader' = "out"
    /\ UNCHANGED <<poll_mode, dev, todo, aer, probes, resets, raised, seen>>

\* The events are taken, and cleared, under events_lock.
EventsTake ==
    /\ reader = "wait" /\ dev.event # 0
    /\ reader' = "out"
    /\ dev' = [dev EXCEPT !.event = 0]
    /\ UNCHANGED <<poll_mode, todo, aer, probes, resets, raised, seen>>

-----------------------------------------------------------------------------
Open(a) ==
    \/ xpdev_alloc(a) \/ alloc_dev_instance(a) \/ xdev_list_add(a)
    \/ pci_enable_device(a) \/ request_regions(a) \/ map_bars(a)
    \/ set_dma_mask(a) \/ probe_engines(a) \/ enable_msi_msix(a)
    \/ SetupIrq(a) \/ open_done(a)
    \/ user_isr_enable(a) \/ (\E g \in Groups : CreateGroup(a, g)) \/ set_drvdata(a)

Release(a) ==
    \/ destroy_interfaces(a) \/ disable_msi_msix(a) \/ remove_engines(a)
    \/ unmap_bars(a) \/ release_regions(a) \/ disable_device(a)
    \/ xdev_list_remove(a) \/ free_xdev(a) \/ free_xpdev(a)

Module(a) ==
    class_create(a) \/ cache_create(a) \/ register_driver(a) \/ xdma_cdev_cleanup(a)

Recover(a) == aer_disable(a) \/ slot_reset(a)

OfflineOnline(a) ==
    \/ set_offline(a) \/ stop_engines(a) \/ interrupts_disable(a) \/ TeardownIrq(a)
    \/ start_engines(a) \/ SetupIrqAgain(a) \/ interrupts_enable(a) \/ clear_offline(a)

\* What each actor does next: only the PCI core opens and closes the device.
Core == Open("core") \/ Release("core") \/ Module("core") \/ Recover("core")
        \/ OfflineOnline("core")

\* An access to registers that are no longer mapped is not followed.
Registers == {"interrupts_disable", "irq_setup_again", "interrupts_enable"}
Ioctl == (dev.bars \/ \A s \in Registers : ~At("ioctl", s)) /\ OfflineOnline("ioctl")

Next ==
    \/ Core \/ Ioctl
    \/ xdma_mod_init \/ Probe \/ Remove \/ xdma_mod_exit
    \/ xdma_error_detected \/ xdma_slot_reset \/ xdma_reset
    \/ char_ctrl_ioctl
    \/ channel_isr \/ engine_service_work
    \/ RaiseUserIrq \/ user_irq_service
    \/ EventsRead \/ EventsSignal \/ EventsTake

\* An enabled interrupt is delivered, a woken reader runs.
Fairness == WF_vars(user_irq_service) /\ WF_vars(EventsTake)

Spec == Init /\ [][Next]_vars /\ Fairness

-----------------------------------------------------------------------------
(* Properties *)

Quiet == \A a \in Actors : Idle(a)

Steps ==
    {"xpdev_alloc", "user_isr_enable", "set_drvdata", "irq_teardown",
     "destroy_interfaces", "free_xpdev", "set_offline", "stop_engines",
     "start_engines", "irq_setup_again", "interrupts_enable", "clear_offline",
     "class_create", "cache_create", "register_driver", "cdev_cleanup",
     "aer_disable", "slot_reset"} \cup Groups
    \cup {xdma_device_open[i] : i \in DOMAIN xdma_device_open}
    \cup {Labels[i] : i \in DOMAIN Labels}

(* The driver's structures and what the kernel holds for it are of their      *)
(* types: a probe leaves the enable count of the device off by one at most.   *)
TypeOK ==
    /\ poll_mode \in BOOLEAN
    /\ dev \in
         [xpdev : BOOLEAN, bound : BOOLEAN, xdev : BOOLEAN, listed : BOOLEAN,
          offline : BOOLEAN, shutdown : BOOLEAN,
          enabled : -MaxProbes .. MaxProbes, regions : {"none", "got", "in_use"}, bars : BOOLEAN,
          h2c : 0 .. ChannelMax, c2h : 0 .. ChannelMax,
          threads : 0 .. MaxProbes * NumThreads,
          msix : {"msix", "msi", "legacy"}, irq : [Lines -> 0 .. MaxResets + 1],
          lines : SUBSET Lines, vectors : SUBSET Lines,
          unmasked : SUBSET {"channel", "user"}, work : BOOLEAN,
          nodes : [Groups -> 0 .. UserMax + 2 * ChannelMax + 1],
          flags : SUBSET Groups, major : BOOLEAN, chrdev : BOOLEAN, event : 0 .. 1,
          class : BOOLEAN, cache : BOOLEAN, driver : BOOLEAN]
    /\ todo \in [Actors -> Seq(Steps)]
    /\ aer \in {"normal", "frozen", "disconnected"}
    /\ probes \in 0 .. MaxProbes /\ resets \in 0 .. MaxResets
    /\ raised \in BOOLEAN /\ reader \in {"out", "wait"}
    /\ seen \subseteq Steps \cup {"overlap", "online_again", "remove_frozen",
                                 "late_work", "into_close"}

\* How a handler can be registered once too often: irq_setup failed in
\* xdma_device_open, an ioctl took the device online while it was being closed,
\* or a device with a shared legacy line was taken online while it was online.
HandlerLeaked(l) ==
    \/ seen \cap {"irq_setup", "into_close"} # {}
    \/ l = <<"dev", 0>> /\ seen \cap {"online_again", "overlap"} # {}

\* The interrupts that are enabled, but for that of a channel once the interrupts
\* were disabled under a bottom half on its way, which enables it again.
Unmasked == dev.unmasked \ (IF "late_work" \in seen THEN {"channel"} ELSE {})

\* Whatever step of probe fails, and in whatever state a device is removed,
\* everything acquired for it is released again.  The exceptions are those of
\* the source: a device whose regions are in use stays enabled, one removed
\* while PCI error recovery had disabled it is disabled twice, polling threads
\* run on when one of them cannot be started, handlers stay as in
\* HandlerLeaked, nodes stay of a group that was not completed, and interrupts
\* stay enabled by a bottom half that was not flushed, or by an ioctl beside the
\* close.
NothingLeftBehind ==
    Quiet /\ ~dev.xpdev =>
        /\ ~dev.xdev /\ ~dev.listed /\ ~dev.bars /\ dev.regions = "none"
        /\ dev.h2c + dev.c2h = 0 /\ ~dev.chrdev
        /\ Unmasked # {} => "overlap" \in seen
        /\ dev.enabled > 0 => "request_regions" \in seen
        /\ dev.enabled < 0 => "remove_frozen" \in seen
        /\ dev.threads > 0 => "xdev_list_add" \in seen
        /\ \A l \in Lines : dev.irq[l] > 0 => HandlerLeaked(l)
        /\ \A g \in Groups : dev.nodes[g] > 0 => g \in {"events", "sg", "bypass"} \cap seen

\* A registered handler finds what it uses: struct xdma_dev, the mapped
\* registers and, for a channel, its engine.
HandlersHaveDevice ==
    \A l \in Lines : dev.irq[l] > 0 =>
        \/ /\ dev.xdev /\ dev.bars
           /\ l[1] \in {"h2c", "c2h"} => l \in Channels(dev)
        \/ HandlerLeaked(l)

\* A node that can be opened belongs to a device that is open, and a node of a
\* channel to an engine that exists: nodes are made last and removed first.
\* Only the nodes of a group that could not be completed outlive the device.
NodesHaveDevice ==
    \A g \in Groups : dev.nodes[g] > 0 =>
        \/ dev.xdev /\ dev.bars /\ (g = "sg" => dev.nodes[g] <= dev.h2c + dev.c2h)
        \/ g \in seen

\* No interrupt is enabled in the device without its handlers, unless
\* xdma_device_online went on after a failure of irq_setup, or an ioctl ran
\* into a procedure of the PCI core; and that of a channel unless a bottom half
\* was on its way when xdma_device_offline or xdma_device_close disabled it.
UnmaskedHasHandler ==
    Unmasked # {} /\ seen \cap {"irq_setup_again", "overlap"} = {} =>
        \A l \in Handlers(dev) : dev.irq[l] > 0

\* A device that has come back online is as probe left it, after any sequence
\* of resets, recoveries and ioctls that did not run into each other: enabled,
\* its engines accepting transfers, its interrupts enabled with all handlers.
\* (In polled mode xdma_device_online restores no handler; an earlier probe that
\* found the regions in use, or an earlier removal of a frozen device, has left
\* the enable count off by one.)
Recovered ==
    /\ dev.bound /\ Quiet /\ ~dev.offline /\ aer = "normal"
    /\ seen \cap {"irq_setup_again", "overlap"} = {}
    => /\ ~dev.shutdown
       /\ seen \cap {"request_regions", "remove_frozen"} = {} => dev.enabled = 1
       /\ ~poll_mode => /\ dev.unmasked = {"channel", "user"}
                        /\ \A l \in Handlers(dev) : dev.irq[l] > 0

\* A user interrupt reaches the reader of its event node, as long as it is
\* enabled and has its handler.
EventSeen ==
    raised /\ reader = "wait" ~> reader = "out" \/ ~Delivered(dev)
=============================================================================
