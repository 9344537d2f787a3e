----------------------------- MODULE BasaDevice -----------------------------
(***************************************************************************)
(* Loading of the basa driver, probe and removal of its cards, and the     *)
(* interrupts meanwhile: basa_main.c, basa_intr.c, basa_driver.c, the      *)
(* allocation functions of basa_chan.c, and what basa_can.c and            *)
(* basa_video.c set up for a channel.                                      *)
(*                                                                         *)
(* What a card or a channel holds is a set of names; an allocation that    *)
(* fails leaves through the label of the code, which is the operator of    *)
(* that name.  The functions that can fail are the set of their outcomes   *)
(* [ok, held].  Cards are bound by the load of the module, and by the      *)
(* administrator at any time.                                              *)
(***************************************************************************)
EXTENDS Integers, Sequences

CONSTANTS
    Cards,        \* cards of the computer
    PdtEntries,   \* page tables of a receive table
    PtEntries,    \* buffers of a page table
    TxEntries     \* descriptors of a transmit ring

VARIABLES
    par,        \* module parameters: fw, rxdma, txdma, zerocopy
    mod,        \* the module: [st, res, left]
    card,       \* for each card: [at, res, ch, n, nvec, vec, ta, back]
    list,       \* zynq_dev_list, every card that was linked into it
    unbound     \* cards that were removed while the module stayed loaded

vars == <<par, mod, card, list, unbound>>

\* zynq_zdev_init, zdev_alloc: a channel is of one kind; a card that takes a new firmware has none.
Kinds == <<"can", "video">>
zynq_zdev_init == IF par.fw THEN 0 ELSE Len(Kinds)
Chans == 1 .. zynq_zdev_init

Outcome(ok, held) == [ok |-> ok, held |-> held]
-----------------------------------------------------------------------------
(***************************************************************************)
(* One channel.                                                            *)
(***************************************************************************)
\* Page table i with its buffers, and all that a receive table consists of.
Page(i) == {<<"pt", i>>, <<"bufs", i>>} \cup {<<"buf", i, j>> : j \in 1 .. PtEntries}
RxObjects == {<<"pdt">>, <<"ptp">>} \cup UNION {Page(i) : i \in 1 .. PdtEntries}
TxObjects == {<<"descs">>, <<"array">>} \cup {<<"txbuf", i>> : i \in 1 .. TxEntries}

pt_alloc_fail(held, i) == held \ ((UNION {Page(k) : k \in 1 .. i - 1}) \cup {<<"ptp">>, <<"pdt">>})
buf_alloc_fail(held, i, j) == pt_alloc_fail(held \ ({<<"buf", i, k>> : k \in 1 .. j - 1} \cup {<<"bufs", i>>, <<"pt", i>>}), i)

\* What is left when one of the allocations fails: the directory, the array of tables, a table, its array of buffers, a buffer.
RxFail(held) ==
    LET Tables(i) == held \cup {<<"pdt">>, <<"ptp">>} \cup UNION {Page(k) : k \in 1 .. i - 1}
        Bufs(i, j) == Tables(i) \cup {<<"pt", i>>, <<"bufs", i>>} \cup {<<"buf", i, k>> : k \in 1 .. j - 1}
    IN  {held, (held \cup {<<"pdt">>}) \ {<<"pdt">>}}
        \cup {pt_alloc_fail(Tables(i), i) : i \in 1 .. PdtEntries}
        \cup {pt_alloc_fail((Tables(i) \cup {<<"pt", i>>}) \ {<<"pt", i>>}, i) : i \in 1 .. PdtEntries}
        \cup UNION {{buf_alloc_fail(Bufs(i, j), i, j) : j \in 1 .. PtEntries} : i \in 1 .. PdtEntries}

RxOwn(kind) == IF kind = "can" THEN par.rxdma ELSE ~par.zerocopy
TxOwn(kind) == kind = "can" /\ par.txdma

zchan_init_rx_tbl(kind, held) ==
    IF ~RxOwn(kind) THEN {Outcome(TRUE, held)}
    ELSE {Outcome(TRUE, held \cup RxObjects)} \cup {Outcome(FALSE, h) : h \in RxFail(held)}

zchan_fini_rx_tbl(kind, held) == IF RxOwn(kind) THEN held \ ((UNION {Page(i) : i \in 1 .. PdtEntries}) \cup {<<"ptp">>, <<"pdt">>}) ELSE held

\* The descriptors, the array of buffers, a buffer.
TxFail(held) ==
    LET Ring == held \cup {<<"descs">>, <<"array">>}
        Filled(i) == {<<"txbuf", k>> : k \in 1 .. i - 1}
    IN  {held, (held \cup {<<"descs">>}) \ {<<"descs">>}}
        \cup {(Ring \cup Filled(i)) \ (Filled(i) \cup {<<"array">>, <<"descs">>}) : i \in 1 .. TxEntries}

zchan_init_tx_ring(kind, held) ==
    IF ~TxOwn(kind) THEN {Outcome(TRUE, held)}
    ELSE {Outcome(TRUE, held \cup TxObjects)} \cup {Outcome(FALSE, h) : h \in TxFail(held)}

zchan_fini_tx_ring(kind, held) == IF TxOwn(kind) THEN held \ TxObjects ELSE held

\* Mutant: a transmit ring that cannot be had leaves the receive table behind.
zchan_init_dma_KeepsRx(kind, held) ==
    UNION {IF ~rx.ok THEN {rx} ELSE zchan_init_tx_ring(kind, rx.held) : rx \in zchan_init_rx_tbl(kind, held)}

zchan_init_dma(kind, held) ==
    UNION {IF ~rx.ok THEN {rx}
           ELSE {IF tx.ok THEN tx ELSE Outcome(FALSE, zchan_fini_rx_tbl(kind, tx.held)) : tx \in zchan_init_tx_ring(kind, rx.held)}
           : rx \in zchan_init_rx_tbl(kind, held)}

zchan_fini_dma(kind, held) == zchan_fini_tx_ring(kind, zchan_fini_rx_tbl(kind, held))

\* zcan_pio_init: /dev/zynq_can, then the receive buffer; without it the device is destroyed again.
zcan_init(held) == {Outcome(TRUE, held \cup {<<"cdev">>, <<"rxbuf">>}), Outcome(FALSE, held)}
zcan_fini(held) == held \ {<<"cdev">>, <<"rxbuf">>}

\* zvideo_init: the V4L2 device and its controls; /dev/video when the camera is there.
free_hdl(held) == held \ {<<"ctrls">>, <<"v4l2">>}
zvideo_init(held) ==
    LET up == held \cup {<<"v4l2">>, <<"ctrls">>}
    IN  {Outcome(FALSE, held), Outcome(FALSE, free_hdl(up)), Outcome(TRUE, up), Outcome(TRUE, up \cup {<<"vdev">>})}
zvideo_fini(held) == held \ {<<"vdev">>, <<"ctrls">>, <<"v4l2">>}

zchan_watchdog_init(o) == IF o.ok THEN Outcome(TRUE, o.held \cup {<<"watchdog">>}) ELSE o

zchan_init(kind) ==
    {zchan_watchdog_init(o) : o \in
        IF kind = "can"
        THEN UNION {IF ~d.ok THEN {d}
                    ELSE {IF c.ok THEN c ELSE Outcome(FALSE, zchan_fini_dma(kind, c.held)) : c \in zcan_init(d.held)}
                    : d \in zchan_init_dma(kind, {})}
        ELSE UNION {IF ~v.ok THEN {v}
                    ELSE {IF d.ok THEN d ELSE Outcome(FALSE, zvideo_fini(d.held)) : d \in zchan_init_dma(kind, v.held)}
                    : v \in zvideo_init({})}}

zchan_fini(kind, held) ==
    LET quiet == held \ {<<"watchdog">>}
    IN  zchan_fini_dma(kind, IF kind = "can" THEN zcan_fini(quiet) ELSE zvideo_fini(quiet))
-----------------------------------------------------------------------------
(***************************************************************************)
(* The probe of a card.                                                    *)
(***************************************************************************)
At(k, step) == card[k].at = step
Idle == {"none", "up", "zombie"}
Put(k, new) == card' = [card EXCEPT ![k] = new] /\ UNCHANGED <<par, mod>>
Hold(c, what) == [c EXCEPT !.res = @ \cup what]
Drop(c, what) == [c EXCEPT !.res = @ \ what]
Go(c, step) == [c EXCEPT !.at = step]
Turn(c, step, back) == [c EXCEPT !.at = step, !.back = back]
Equip(c, ch, n) == [c EXCEPT !.ch = ch, !.n = n]
Wire(c, nvec, vec, tinit) == [c EXCEPT !.nvec = nvec, !.vec = vec, !.tinit = tinit]
Task(c, i, states) == [c EXCEPT !.ta = [c.ta EXCEPT ![i] = states]]
First(s) == CHOOSE i \in s : \A j \in s : i <= j

NoCard == [at |-> "none", res |-> {}, ch |-> <<{}, {}>>, n |-> 0, nvec |-> 0, vec |-> {}, ta |-> <<{}, {}>>, tinit |-> {}, back |-> "none"]

\* The error labels: what is left of card c.  The channels that were set up are ended in reverse.
err_enable_pci(c) == Drop(c, {"zdev"})
err_ioremap_bar0(c) == err_enable_pci(Drop(c, {"pci"}))
err_ioremap_bar2(c) == err_ioremap_bar0(Drop(c, {"bar0"}))
err_chan_init(c) ==
    err_ioremap_bar2(Drop(Equip(c, [i \in DOMAIN c.ch |-> IF i <= c.n THEN zchan_fini(Kinds[i], c.ch[i]) ELSE c.ch[i]], 0), {"bar2"}))

\* A probe that fails with an error is over; one whose err is still 0 leaves the card bound, without driver data.
Refused(c) == Go(c, "none")
Accepted(c) == Go(c, "zombie")

\* zdev_alloc; the instance and the CAN numbers are taken.
ProbeAlloc(k) ==
    /\ At(k, "probe")
    /\ \/ Put(k, Go(Hold(card[k], {"zdev"}), "pci"))
       \/ Put(k, Refused(card[k]))
    /\ UNCHANGED <<list, unbound>>

\* pci_enable_device, the two register spaces and the version.
ProbeMap(k) ==
    /\ At(k, "pci")
    /\ LET c == card[k] IN
       \/ Put(k, Go(Hold(c, {"pci", "bar0", "bar2"}), "chans"))
       \/ Put(k, Refused(err_enable_pci(c)))
       \/ Put(k, Refused(err_ioremap_bar0(Hold(c, {"pci"}))))
       \/ Put(k, Refused(err_ioremap_bar2(Hold(c, {"pci", "bar0"}))))
    /\ UNCHANGED <<list, unbound>>

\* The channels, one after the other.  The register that masks the interrupts is written when all are set up.
ProbeChan(k) ==
    /\ At(k, "chans")
    /\ LET c == card[k]
           next == c.n + 1
       IN IF next \in Chans
          THEN \E o \in zchan_init(Kinds[next]) :
                 LET ch == [c.ch EXCEPT ![next] = o.held]
                 IN  Put(k, IF o.ok THEN Equip(c, ch, next) ELSE Accepted(err_chan_init(Equip(c, ch, c.n))))
          ELSE Put(k, Go(c, "vectors"))
    /\ UNCHANGED <<list, unbound>>

\* zdev_enable_msix (one vector per channel, or one), zdev_enable_msi, or the legacy line.
zdev_enable_msix == {<<n, {"msix", "msixp"}>> : n \in {1, IF par.fw THEN 1 ELSE zynq_zdev_init}}
zdev_enable_msi == <<1, {"msi"}>>
\* zdev_init_tasklet
zdev_init_tasklet(n) == IF n = 1 THEN {1} ELSE Chans

ProbeVectors(k) ==
    /\ At(k, "vectors")
    /\ \E v \in zdev_enable_msix \cup {zdev_enable_msi, <<1, {}>>} :
         Put(k, Wire(Go(Hold(card[k], v[2]), "request"), v[1], {}, zdev_init_tasklet(v[1])))
    /\ UNCHANGED <<list, unbound>>

\* zdev_setup_msix, zdev_setup_msi, or the shared line: request_irq for each vector; one that fails gives back those before it.
RequestIrq(k) ==
    /\ At(k, "request")
    /\ LET c == card[k]
           left == (1 .. c.nvec) \ c.vec
       IN IF left = {} THEN Put(k, Go(c, "kobj"))
          ELSE \/ Put(k, Wire(c, c.nvec, c.vec \cup {First(left)}, c.tinit))
               \/ Put(k, Accepted(err_chan_init(Drop(Wire(c, 0, {}, {}), {"msix", "msixp", "msi"}))))
    /\ UNCHANGED <<list, unbound>>

\* zynq_sysfs_init, zynq_create_cdev_all (which removes those that it made), the DMA masks, and the end: the card is linked and its interrupts are unmasked.
cdevs == IF par.fw THEN {"fw", "reg"} ELSE {"reg", "i2c", "trigger", "gps"}
zynq_destroy_cdev_all(c) == Drop(c, {"fw", "reg", "i2c", "trigger", "gps"})
err_create_cdev(c) == Drop(c, {"kobj"})
err_dma_mask(c) == err_create_cdev(zynq_destroy_cdev_all(Drop(c, {"master"})))
\* err_sysfs_init is zynq_free_irq, which waits.
err_sysfs_init(c, back) == Turn(c, "free_irq", back)

ProbeFiles(k) ==
    /\ At(k, "kobj")
    /\ LET c == card[k] IN
       \/ Put(k, Go(Hold(c, {"kobj"} \cup cdevs \cup {"master"}), "finish"))
       \/ Put(k, err_sysfs_init(c, "zombie"))
       \/ \E made \in SUBSET cdevs : made # cdevs /\ Put(k, err_sysfs_init(err_create_cdev(zynq_destroy_cdev_all(Hold(c, {"kobj"} \cup made))), "zombie"))
    /\ UNCHANGED <<list, unbound>>

zdev_enable_intr_all == {"unmasked"}
ProbeFinish(k) ==
    /\ At(k, "finish")
    /\ LET c == card[k] IN
       \/ /\ Put(k, Go(Hold(c, {"drvdata", "gps"} \cup zdev_enable_intr_all), "up"))
          /\ list' = list \cup {k}
          /\ unbound' = unbound \ {k}
       \/ Put(k, err_sysfs_init(err_dma_mask(c), "none")) /\ UNCHANGED <<list, unbound>>
-----------------------------------------------------------------------------
(***************************************************************************)
(* Interrupts and tasklets.                                                *)
(***************************************************************************)
\* zynq_intr, zynq_intr_chan: masked interrupts do not come, but the legacy line is shared with other devices.  With a new firmware nothing is scheduled.
zynq_intr(k, v) ==
    /\ v \in card[k].vec
    /\ "unmasked" \in card[k].res \/ card[k].res \cap {"msix", "msi"} = {}
    /\ ~par.fw
    /\ Put(k, Task(card[k], v, card[k].ta[v] \cup {"sched"}))
    /\ UNCHANGED <<list, unbound>>

TaskletStart(k, i) ==
    /\ "sched" \in card[k].ta[i] /\ "run" \notin card[k].ta[i]
    /\ Put(k, Task(card[k], i, {"run"}))
    /\ UNCHANGED <<list, unbound>>

TaskletEnd(k, i) ==
    /\ "run" \in card[k].ta[i]
    /\ Put(k, Task(card[k], i, card[k].ta[i] \ {"run"}))
    /\ UNCHANGED <<list, unbound>>

\* The channels that tasklet i looks at: zynq_chan_tasklet at its own, zynq_tasklet at all.
Serves(k, i) == IF card[k].nvec > 1 THEN {i} ELSE Chans

\* zvideo_link_change, by the watchdog of the channel.
zvideo_link_change(k) ==
    /\ LET c == card[k] IN
       /\ c.n = 2 /\ <<"watchdog">> \in c.ch[2]
       /\ \E held \in {c.ch[2] \cup {<<"vdev">>}, c.ch[2] \ {<<"vdev">>}} : Put(k, Equip(c, [c.ch EXCEPT ![2] = held], c.n))
    /\ UNCHANGED <<list, unbound>>
-----------------------------------------------------------------------------
(***************************************************************************)
(* Removal.                                                                *)
(***************************************************************************)
\* Mutant: the tasklets are killed before the interrupts are freed.
zynq_free_irq_KillFirst(k) ==
    /\ At(k, "free_irq")
    /\ Put(k, Go(card[k], "kill"))
    /\ UNCHANGED <<list, unbound>>

\* zynq_free_irq, first half: every vector, then MSI-X or MSI.
zynq_free_irq(k) ==
    /\ At(k, "free_irq")
    /\ LET c == card[k] IN
       IF c.vec # {} THEN Put(k, Wire(c, c.nvec, c.vec \ {First(c.vec)}, c.tinit))
       ELSE Put(k, Go(Drop(c, {"msix", "msi"}), "kill"))
    /\ UNCHANGED <<list, unbound>>

\* zdev_fini_tasklet: tasklet_kill waits for each; then the table of vectors is freed.
zdev_fini_tasklet(k) ==
    /\ At(k, "kill")
    /\ LET c == card[k] IN
       IF c.tinit # {}
       THEN c.ta[First(c.tinit)] = {} /\ Put(k, Wire(c, c.nvec, c.vec, c.tinit \ {First(c.tinit)}))
       ELSE Put(k, Go(Drop(Wire(c, 0, {}, {}), {"msixp", "msix", "msi"}), IF c.back = "remove" THEN "fini" ELSE "unwind"))
    /\ UNCHANGED <<list, unbound>>

\* The probe goes on with its labels.
Unwind(k) ==
    /\ At(k, "unwind")
    /\ Put(k, Turn(err_chan_init(card[k]), card[k].back, "none"))
    /\ UNCHANGED <<list, unbound>>

\* zynq_remove up to zynq_free_irq; a card without driver data has nothing to give back.
zynq_remove(k) ==
    /\ At(k, "remove")
    /\ LET c == card[k] IN
       IF "drvdata" \notin c.res THEN Put(k, Go(c, "none"))
       ELSE Put(k, err_sysfs_init(Drop(zynq_destroy_cdev_all(Drop(c, {"gps", "unmasked"})), {"master", "kobj"}), "remove"))
    /\ UNCHANGED <<list, unbound>>

\* The channels in order, then the card.  It stays in zynq_dev_list.
RemoveEnd(k) ==
    /\ At(k, "fini")
    /\ LET c == card[k]
           ch == [i \in DOMAIN c.ch |-> IF i \in Chans THEN zchan_fini(Kinds[i], c.ch[i]) ELSE c.ch[i]]
       IN  Put(k, Turn(Drop(Equip(c, ch, 0), {"bar2", "bar0", "pci", "drvdata", "zdev"}), "none", "none"))
    /\ unbound' = IF mod.st = "loaded" THEN unbound \cup {k} ELSE unbound
    /\ UNCHANGED list
-----------------------------------------------------------------------------
(***************************************************************************)
(* The module.  The PCI core binds and unbinds the cards one by one.       *)
(***************************************************************************)
Quiet == \A k \in Cards : card[k].at \in Idle
Module(new) == mod' = new /\ UNCHANGED <<par, card, unbound>>

\* zynq_module_init: numbers and class, then pci_register_driver.
zynq_module_init ==
    /\ mod.st = "unloaded"
    /\ \/ Module([st |-> "probing", res |-> {"region", "class", "driver"}, left |-> Cards])
       \/ Module([st |-> "unloaded", res |-> {}, left |-> {}])
    /\ list' = {}

\* Its end: /sys/module/basa/zdev_all, or everything is taken back (err).
InitEnd ==
    /\ mod.st = "probing" /\ mod.left = {} /\ Quiet
    /\ \/ Module([mod EXCEPT !.st = "loaded", !.res = @ \cup {"zdev_all"}])
       \/ Module([mod EXCEPT !.st = "unloading", !.left = Cards])
    /\ UNCHANGED list

\* zynq_module_exit: zdev_all goes first, then pci_unregister_driver.
zynq_module_exit ==
    /\ mod.st = "loaded" /\ Quiet
    /\ Module([mod EXCEPT !.st = "unloading", !.left = Cards, !.res = @ \ {"zdev_all"}])
    /\ UNCHANGED list

ExitEnd ==
    /\ mod.st = "unloading" /\ mod.left = {} /\ Quiet
    /\ mod' = [st |-> "unloaded", res |-> {}, left |-> {}] /\ unbound' = {}
    /\ UNCHANGED <<par, card, list>>

\* The PCI core, for a card whose turn it is, or the administrator.
Bind(k) ==
    /\ At(k, "none")
    /\ \/ mod.st = "probing" /\ k \in mod.left /\ Quiet /\ mod' = [mod EXCEPT !.left = @ \ {k}]
       \/ mod.st = "loaded" /\ UNCHANGED mod
    /\ card' = [card EXCEPT ![k] = Go(@, "probe")]
    /\ UNCHANGED <<par, list, unbound>>

Unbind(k) ==
    /\ \/ mod.st = "unloading" /\ k \in mod.left /\ Quiet /\ mod' = [mod EXCEPT !.left = @ \ {k}]
       \/ mod.st = "loaded" /\ card[k].at \in {"up", "zombie"} /\ UNCHANGED mod
    /\ card' = [card EXCEPT ![k] = IF @.at = "none" THEN @ ELSE Go(@, "remove")]
    /\ UNCHANGED <<par, list, unbound>>

\* zynq_zdev_all_show: the cards whose registers a reader of zdev_all makes the driver read.
zynq_zdev_all_show == IF "zdev_all" \in mod.res THEN list ELSE {}
-----------------------------------------------------------------------------
Init ==
    /\ par \in [fw : BOOLEAN, rxdma : BOOLEAN, txdma : BOOLEAN, zerocopy : BOOLEAN]
    /\ mod = [st |-> "unloaded", res |-> {}, left |-> {}]
    /\ card = [k \in Cards |-> NoCard]
    /\ list = {} /\ unbound = {}

\* The thread that probes or removes a card.
CardStep(k) ==
    \/ ProbeAlloc(k) \/ ProbeMap(k) \/ ProbeChan(k) \/ ProbeVectors(k) \/ RequestIrq(k) \/ ProbeFiles(k) \/ ProbeFinish(k)
    \/ zynq_remove(k) \/ zynq_free_irq(k) \/ zdev_fini_tasklet(k) \/ Unwind(k) \/ RemoveEnd(k)

Tasklet(k, i) == TaskletStart(k, i) \/ TaskletEnd(k, i)

Next ==
    \/ zynq_module_init \/ InitEnd \/ zynq_module_exit \/ ExitEnd
    \/ \E k \in Cards :
         \/ Bind(k) \/ Unbind(k) \/ CardStep(k) \/ zvideo_link_change(k)
         \/ \E i \in 1 .. 2 : zynq_intr(k, i) \/ Tasklet(k, i)

\* A thread in the kernel goes on, and so do tasklets.
Fairness == \A k \in Cards : WF_vars(CardStep(k)) /\ \A i \in 1 .. 2 : WF_vars(Tasklet(k, i))

Spec == Init /\ [][Next]_vars /\ Fairness
-----------------------------------------------------------------------------
\* The names of everything a card that works holds.
WholeCard == {"zdev", "pci", "bar0", "bar2", "kobj", "master", "drvdata", "gps", "unmasked"} \cup cdevs
WholeChan(kind, held) ==
    /\ <<"watchdog">> \in held
    /\ IF kind = "can" THEN {<<"cdev">>, <<"rxbuf">>} \subseteq held ELSE {<<"v4l2">>, <<"ctrls">>} \subseteq held
    /\ RxOwn(kind) => RxObjects \subseteq held
    /\ TxOwn(kind) => TxObjects \subseteq held

\* Whichever step of a probe fails, and whatever interrupts come during probe and removal: a card that is not bound, or bound by a probe that failed, holds nothing; one that is bound holds everything; and a tasklet that is scheduled or runs finds its channels set up and the registers mapped, until zynq_free_irq has waited for it.
DeviceSafe ==
    /\ \A k \in Cards :
         LET c == card[k] IN
         /\ c.at \in {"none", "zombie"} => c.res = {} /\ c.ch = <<{}, {}>> /\ c.vec = {} /\ c.ta = <<{}, {}>>
         /\ c.at = "up" => WholeCard \subseteq c.res /\ c.vec = 1 .. c.nvec /\ \A i \in Chans : WholeChan(Kinds[i], c.ch[i])
         /\ \A i \in 1 .. 2 : c.ta[i] # {} =>
              {"zdev", "bar0", "bar2"} \subseteq c.res /\ i \in c.tinit /\ \A j \in Serves(k, i) : WholeChan(Kinds[j], c.ch[j])
         /\ \A i \in 1 .. 2 : <<"watchdog">> \in c.ch[i] => "bar0" \in c.res
    /\ mod.st = "unloaded" => mod.res = {} /\ \A k \in Cards : card[k] = NoCard

\* A reader of zdev_all meets a freed card only when the administrator took a card away from a loaded driver: load and unload of the module alone never leave one where it can be read.
ListSafe == \A k \in zynq_zdev_all_show : "zdev" \notin card[k].res => k \in unbound

\* A removal that has begun ends, however many interrupts come: the wait for the tasklets is over because the interrupts were freed before.
RemovalEnds == \A k \in Cards : card[k].at = "remove" ~> card[k].at = "none"
=============================================================================
