------------------------------ MODULE EsdCard ------------------------------
(***************************************************************************)
(* Loading and unloading of the esd CAN driver for PCI cards:              *)
(* src/esd/src/esdcan_pci.c and the attach and detach functions of         *)
(* src/esd/src/esdcan.c.  Every step of an attach may fail and leaves      *)
(* through a label that gives back what the steps before it took, but for  *)
(* two things: no pci_disable_device() answers pci_enable_device(), and a  *)
(* board layer that fails leaves crd->lock_irq, as a comment in the code   *)
(* admits.  The board layer itself is not part of the sources.             *)
(*                                                                         *)
(* The cards are attached by pci_register_driver() and detached by         *)
(* pci_unregister_driver() ("this means actually, on driver load"): the    *)
(* number of a card is the number of cards before it.                      *)
(***************************************************************************)
EXTENDS Integers, FiniteSets

CONSTANTS
    Cards,            \* the PCI cards of the computer, at most MAX_CARDS
    NODES_PER_CARD,   \* CAN nets of a card
    NoCard

VARIABLES
    load,       \* where the module is: "unloaded", "ioctl32", "osif", "probing",
                \* "loaded", "unloading", "failed" (INIT_ERR_3), or "oops": stuck
    left,       \* cards that the PCI core has still to offer (or to take away)
    cur,        \* the card that can_attach works on, and where: [card, at, no]
    res,        \* what each card holds
    up,         \* its nodes that nuc_node_attach made
    nodes,      \* nodes[]: net number -> card
    data,       \* cards whose driver data is set
    attached,   \* esdcan_pci_attached_cards
    files       \* what the module has registered: "ioctl32", "osif", "chrdev", "proc"

vars == <<load, left, cur, res, up, nodes, data, attached, files>>

Nodes == 0 .. NODES_PER_CARD - 1
Nets == 0 .. Cardinality(Cards) * NODES_PER_CARD - 1
Net(no, n) == no * NODES_PER_CARD + n
None == [card |-> NoCard, at |-> "none", no |-> 0]

At(step) == cur.at = step
Goto(step) == cur' = [cur EXCEPT !.at = step]
Take(what) == res' = [res EXCEPT ![cur.card] = @ \cup what]
-----------------------------------------------------------------------------
\* The labels of the error paths, from the innermost: what is left of r afterwards.
release_1(r) == r \ {"msi", "master", "crd"}
release_2(r) == release_1(r \ {"spaces"})
common_attach_1(r) == r \ {"node"}
\* Mutant: the interrupts stay requested.
common_attach_2_KeepIrq(r) == common_attach_1(r \ {"board"})

common_attach_2(r) == common_attach_1(r \ {"irq", "board"})

\* An attach that fails ends here: nothing of the card stays in nodes[].
Fail(label(_)) ==
    /\ res' = [res EXCEPT ![cur.card] = label(@)]
    /\ cur' = None
    /\ UNCHANGED <<load, left, data, attached, files>>

\* can_attach: the card is looked up in the table of the board layer and gets a number.
AttachBegin(c) ==
    /\ load = "probing" /\ cur = None /\ c \in left
    /\ left' = left \ {c}
    /\ \E ok \in BOOLEAN :
         IF ok THEN cur' = [card |-> c, at |-> "enable", no |-> attached] /\ res' = [res EXCEPT ![c] = @ \cup {"crd"}]
               ELSE UNCHANGED <<cur, res>>
    /\ UNCHANGED <<load, up, nodes, data, attached, files>>

\* pci_enable_device, which no label and no detach takes back.  When it fails can_attach returns 0 all the same: esdcan_init goes on to esdcan_show_card_info with the driver data, a NULL pointer, and the load of the module ends there.
EnableDevice ==
    /\ At("enable")
    /\ \/ Take({"enabled"}) /\ Goto("spaces") /\ UNCHANGED load
       \/ /\ res' = [res EXCEPT ![cur.card] = release_1(@)]
          /\ cur' = None /\ load' = "oops"
    /\ UNCHANGED <<left, up, nodes, data, attached, files>>

\* The memory and I/O spaces; one that fails leaves the ones before it mapped.  Then the card becomes bus master, and MSI may be refused.
MapSpaces ==
    /\ At("spaces")
    /\ \/ /\ \E msi \in SUBSET {"msi"} : Take({"spaces", "master"} \cup msi)
          /\ Goto("nodes")
          /\ UNCHANGED <<load, left, data, attached, files>>
       \/ Fail(release_2)
    /\ UNCHANGED <<up, nodes>>

\* can_attach_common: the nodes are allocated ...
AllocNodes ==
    /\ At("nodes")
    /\ \/ Take({"node"}) /\ Goto("board") /\ UNCHANGED <<load, left, data, attached, files>>
       \/ Fail(LAMBDA r : release_2(common_attach_1(r)))
    /\ UNCHANGED <<up, nodes>>

\* ... the board layer attaches; one that fails may have made crd->lock_irq before ("this leads to an undestroyed crd->lock_irq") ...
can_board_attach ==
    /\ At("board")
    /\ \/ Take({"board"}) /\ Goto("irq") /\ UNCHANGED <<load, left, data, attached, files>>
       \/ \E lock \in SUBSET {"lock_irq"} : Fail(LAMBDA r : release_2(common_attach_1(r \cup lock)))
    /\ UNCHANGED <<up, nodes>>

\* ... its interrupts are requested ...
RequestIrqs ==
    /\ At("irq")
    /\ \/ Take({"irq"}) /\ Goto("attach") /\ UNCHANGED <<load, left, data, attached, files>>
       \/ Fail(LAMBDA r : release_2(common_attach_2(r)))
    /\ UNCHANGED <<up, nodes>>

\* ... and the nodes are given to the nucleus.  A node that fails is freed and left out; a card without a node fails as a whole.
AttachNodes ==
    /\ At("attach")
    /\ \E ok \in SUBSET Nodes :
         /\ up' = [up EXCEPT ![cur.card] = ok]
         /\ nodes' = [k \in Nets |-> IF \E n \in Nodes : k = Net(cur.no, n)
                                     THEN IF \E n \in ok : k = Net(cur.no, n) THEN cur.card ELSE NoCard
                                     ELSE nodes[k]]
         /\ IF ok = {} THEN Fail(LAMBDA r : release_2(common_attach_2(r)))
            ELSE Goto("final") /\ UNCHANGED <<load, left, res, data, attached, files>>

\* common_attach_3: the nodes of the card leave nodes[] and the nucleus.
common_attach_3 ==
    /\ nodes' = [k \in Nets |-> IF nodes[k] = cur.card THEN NoCard ELSE nodes[k]]
    /\ up' = [up EXCEPT ![cur.card] = {}]

\* can_board_attach_final, then the end of can_attach.
AttachEnd ==
    /\ At("final")
    /\ \/ /\ data' = data \cup {cur.card} /\ attached' = attached + 1 /\ cur' = None
          /\ UNCHANGED <<load, left, res, up, nodes, files>>
       \/ common_attach_3 /\ Fail(LAMBDA r : release_2(common_attach_2(r)))
-----------------------------------------------------------------------------
\* can_detach_common: board, interrupts, nodes and spaces, in this order.
can_detach_common(c) ==
    /\ nodes' = [k \in Nets |-> IF nodes[k] = c THEN NoCard ELSE nodes[k]]
    /\ up' = [up EXCEPT ![c] = {}]

\* can_detach, for each card of the PCI core; one without driver data has nothing to give back.
can_detach(c) ==
    /\ load \in {"unloading", "failed"} /\ c \in left
    /\ left' = left \ {c}
    /\ IF c \in data
       THEN /\ can_detach_common(c)
            /\ res' = [res EXCEPT ![c] = @ \ {"board", "irq", "node", "spaces", "msi", "master", "crd"}]
            /\ data' = data \ {c} /\ attached' = attached - 1
       ELSE UNCHANGED <<nodes, up, res, data, attached>>
    /\ UNCHANGED <<load, cur, files>>

\* The labels of esdcan_pci_init: what is left of the registrations f afterwards.
INIT_ERR_1(f) == f \ {"ioctl32"}
INIT_ERR_2(f) == INIT_ERR_1(f \ {"osif"})

\* esdcan_pci_init begins; INIT_ERR_0, for ioctls that cannot be registered, changes nothing.
esdcan_pci_init ==
    /\ load = "unloaded"
    /\ load' = "ioctl32" /\ files' = files \cup {"ioctl32"}
    /\ UNCHANGED <<left, cur, res, up, nodes, data, attached>>

\* OSIF_ATTACH starts the DPC thread, or fails.
OsifAttach ==
    /\ load = "ioctl32"
    /\ \/ load' = "osif" /\ files' = files \cup {"osif"}
       \/ load' = "unloaded" /\ files' = INIT_ERR_1(files)
    /\ UNCHANGED <<left, cur, res, up, nodes, data, attached>>

\* pci_register_driver offers the cards, or fails before it does.
RegisterDriver ==
    /\ load = "osif"
    /\ \/ load' = "probing" /\ left' = Cards /\ UNCHANGED files
       \/ load' = "unloaded" /\ files' = INIT_ERR_2(files) /\ UNCHANGED left
    /\ UNCHANGED <<cur, res, up, nodes, data, attached>>

\* The rest of esdcan_pci_init; no card, or no character device, and the cards are taken away again (INIT_ERR_3).
InitEnd ==
    /\ load = "probing" /\ left = {} /\ cur = None
    /\ \/ attached > 0 /\ load' = "loaded" /\ files' = files \cup {"chrdev", "proc"} /\ UNCHANGED left
       \/ load' = "failed" /\ left' = Cards /\ UNCHANGED files
    /\ UNCHANGED <<cur, res, up, nodes, data, attached>>

\* The end of that error path.
InitFailed ==
    /\ load = "failed" /\ left = {}
    /\ load' = "unloaded" /\ files' = INIT_ERR_2(files)
    /\ UNCHANGED <<left, cur, res, up, nodes, data, attached>>

\* esdcan_pci_exit, when no process has the device open: the character device goes before the cards, the file in /proc after them.
esdcan_pci_exit ==
    /\ load = "loaded"
    /\ load' = "unloading" /\ left' = Cards /\ files' = files \ {"chrdev"}
    /\ UNCHANGED <<cur, res, up, nodes, data, attached>>

ExitEnd ==
    /\ load = "unloading" /\ left = {}
    /\ load' = "unloaded" /\ files' = files \ {"ioctl32", "proc", "osif"}
    /\ UNCHANGED <<left, cur, res, up, nodes, data, attached>>

\* esdcan_proc_show: the net numbers that /proc/bus/can tells.
esdcan_proc_show == {k \in Nets : nodes[k] # NoCard}
-----------------------------------------------------------------------------
Init ==
    /\ load = "unloaded" /\ left = {} /\ cur = None /\ data = {} /\ attached = 0 /\ files = {}
    /\ res = [c \in Cards |-> {}] /\ up = [c \in Cards |-> {}] /\ nodes = [k \in Nets |-> NoCard]

Next ==
    \/ esdcan_pci_init \/ OsifAttach \/ RegisterDriver \/ InitEnd \/ InitFailed \/ esdcan_pci_exit \/ ExitEnd
    \/ \E c \in Cards : AttachBegin(c) \/ can_detach(c)
    \/ EnableDevice \/ MapSpaces \/ AllocNodes \/ can_board_attach \/ RequestIrqs \/ AttachNodes \/ AttachEnd

Spec == Init /\ [][Next]_vars
-----------------------------------------------------------------------------
\* What a card may still hold when it is not attached: the code never gives it back.
Leaks == {"enabled", "lock_irq"}

\* A card that is not attached and not in the middle of it holds nothing but what the code is known to leak, pci_enable_device() and the crd->lock_irq of a board layer that failed, whichever step of its attach failed; nodes[] names just the nodes of the cards that are there, each under a number of its own; the character device can be opened only with a card and when none comes or goes; and a load that failed has registered nothing, as an unload leaves nothing.
CardsSafe ==
    /\ attached = Cardinality(data)
    /\ \A c \in Cards :
         /\ c \notin data /\ c # cur.card => res[c] \subseteq Leaks /\ up[c] = {}
         /\ c \in data => {"crd", "enabled", "spaces", "node", "board", "irq"} \subseteq res[c] /\ up[c] # {}
         /\ Cardinality({k \in esdcan_proc_show : nodes[k] = c}) = Cardinality(up[c])
    /\ "chrdev" \in files => load = "loaded" /\ data # {}
    /\ load = "unloaded" => files = {} /\ esdcan_proc_show = {}
=============================================================================
