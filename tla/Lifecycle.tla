------------------------------ MODULE Lifecycle ------------------------------
(***************************************************************************)
(* A device from fpga_probe to fpga_remove (fpdev_mod.c): what probe       *)
(* acquires step by step, what its error labels and remove release, the    *)
(* handler that may run in between, the ids and the table the ioctls look  *)
(* a device up in, and the one character device all devices share.         *)
(*                                                                         *)
(* The PCI core runs probe and remove of one device one after the other,   *)
(* and those of two devices at the same time.                              *)
(***************************************************************************)
EXTENDS Naturals, Sequences

CONSTANTS
  Device,     \* the PCI functions the driver may be bound to
  NumFpgas,   \* NUM_FPGAS
  MaxProbes,  \* MaxProbes[d]: bound on the probes of d
  None        \* an empty entry, a global not set

ASSUME NumFpgasAssumption == NumFpgas \in Nat \ {0}
ASSUME MaxProbesAssumption == MaxProbes \in [Device -> Nat]
ASSUME NoneAssumption == None \notin Device

Id   == 0..NumFpgas - 1
NoId == NumFpgas  \* fpdev->id == -1

\* What a device can hold: its own resources, in the order of probe, the DMA
\* buffers, and the parts of the character device.
Local   == {"enabled", "fpdev", "regions", "bars", "vectors"}
Buffers == {"c2h_bl", "h2c_bl", "c2h_sgl", "h2c_sgl"}
Chr     == {"region", "class", "node"}

VARIABLES
  pc,       \* pc[d]: the next step of probe, or "out", "bound", "unwind", "remove"
  todo,     \* todo[d]: what the error label or remove has still to release
  error,    \* error[d]: `error` of probe is negative
  held,     \* held[d]: what was acquired for d and not released
  drvdata,  \* drvdata[d]: pci_get_drvdata is not NULL
  id,       \* id[d]: fpdev->id
  scan,     \* scan[d]: the loop index of the id search
  isr,      \* isr[d]: whether the handler of d runs
  probes,   \* probes[d]: how often d was probed
  \* The globals of the driver.
  used,     \* used_fpgas
  table,    \* fpga_devices
  devt,     \* devt: the device whose probe obtained the numbers it holds
  cdev,     \* fpga_cdev is registered, for the numbers of this device
  class     \* fpga_class: who created the class, None for an error pointer

probeVars  == <<pc, todo, error, probes>>
idVars     == <<id, scan, used, table>>
chrVars    == <<devt, cdev, class>>
vars == <<probeVars, held, drvdata, idVars, isr, chrVars>>

Init ==
  /\ pc = [d \in Device |-> "out"] /\ todo = [d \in Device |-> <<>>]
  /\ error = [d \in Device |-> FALSE] /\ held = [d \in Device |-> {}]
  /\ drvdata = [d \in Device |-> FALSE] /\ isr = [d \in Device |-> "idle"]
  /\ id = [d \in Device |-> NoId] /\ scan = [d \in Device |-> 0]
  /\ probes = [d \in Device |-> 0]
  /\ used = [i \in Id |-> FALSE] /\ table = [i \in Id |-> None]
  /\ devt = None /\ cdev = None /\ class = None

-----------------------------------------------------------------------------
(***************************************************************************)
(* The error labels of probe and the body of remove, as what they release  *)
(* in order.                                                               *)
(***************************************************************************)

\* Faulty variant: without vectors the regions stay requested.
ReleasesNoRegions == [
  fail_disable_device  |-> <<"enabled">>,
  fail_free_fpdev      |-> <<"fpdev", "enabled">>,
  fail_release_regions |-> <<"bars", "regions", "fpdev", "enabled">>,
  fail_irq_vectors     |-> <<"vectors", "bars", "fpdev", "enabled">>,
  fail_alloc_chr       |-> <<"region", "vectors", "bars", "regions", "fpdev", "enabled">>]

FailReleases == [
  fail_disable_device  |-> <<"enabled">>,
  fail_free_fpdev      |-> <<"fpdev", "enabled">>,
  fail_release_regions |-> <<"bars", "regions", "fpdev", "enabled">>,
  fail_irq_vectors     |-> <<"vectors", "bars", "regions", "fpdev", "enabled">>,
  fail_alloc_chr       |-> <<"region", "vectors", "bars", "regions", "fpdev", "enabled">>]

\* Faulty variant: the handler is taken away after what it uses.
ReleasesIrqLate ==
  <<"vectors", "bars", "regions", "irq", "fpdev", "enabled",
    "node", "class", "cdev", "region">>

RemoveReleases ==
  <<"irq", "vectors", "bars", "regions", "fpdev", "enabled",
    "node", "class", "cdev", "region">>

\* Faulty variant: the id and the entry are given back last.
TodoIdLast(d) ==
  RemoveReleases \o (IF id[d] \in Id THEN <<"used", "entry">> ELSE <<>>)

\* The id is given back only if there is one.
RemoveTodo(d) ==
  (IF id[d] \in Id THEN <<"used", "entry">> ELSE <<>>) \o RemoveReleases

-----------------------------------------------------------------------------
(***************************************************************************)
(* The steps of probe.                                                     *)
(***************************************************************************)

\* A call of probe that succeeds acquires something and leads to the next one.
Acquire(d, from, what, to) ==
  /\ pc[d] = from /\ pc' = [pc EXCEPT ![d] = to]
  /\ held' = [held EXCEPT ![d] = @ \cup what]
  /\ UNCHANGED <<todo, probes>>

\* One that fails may have acquired a part, and goes to an error label.
Fail(d, from, what, label) ==
  /\ pc[d] = from /\ pc' = [pc EXCEPT ![d] = "unwind"]
  /\ todo' = [todo EXCEPT ![d] = FailReleases[label]]
  /\ held' = [held EXCEPT ![d] = @ \cup what]
  /\ UNCHANGED probes

\* Some calls leave their result in `error`, the variable that probe returns;
\* the others use `ret` or `vec_cnt`, which it does not.
SetError(d, negative) == error' = [error EXCEPT ![d] = negative]

\* What an earlier life left behind is nobody's: its buffers stay allocated, and
\* a handler left registered belongs to a vector that was given back, on which no
\* interrupt comes any more.  held, and what is said of it, is of this life.
PciEnable(d) ==
  /\ pc[d] = "out" /\ probes[d] < MaxProbes[d]
  /\ probes' = [probes EXCEPT ![d] = @ + 1]
  /\ \/ /\ pc' = [pc EXCEPT ![d] = "dma_mask"]
        /\ held' = [held EXCEPT ![d] = (@ \cap Chr) \cup {"enabled"}]
        /\ SetError(d, FALSE)
     \/ UNCHANGED <<pc, held, error>>
  /\ UNCHANGED <<todo, drvdata, idVars, isr, chrVars>>

DmaMask(d) ==
  /\ \/ Acquire(d, "dma_mask", {}, "kzalloc") /\ SetError(d, FALSE)
     \/ Fail(d, "dma_mask", {}, "fail_disable_device") /\ SetError(d, TRUE)
  /\ UNCHANGED <<drvdata, idVars, isr, chrVars>>

Kzalloc(d) ==
  /\ \/ Acquire(d, "kzalloc", {"fpdev"}, "request_regions") /\ UNCHANGED error
     \/ Fail(d, "kzalloc", {}, "fail_disable_device") /\ SetError(d, TRUE)
  /\ UNCHANGED <<drvdata, idVars, isr, chrVars>>

RequestRegions(d) ==
  /\ \/ Acquire(d, "request_regions", {"regions"}, "map_bars") /\ SetError(d, FALSE)
     \/ Fail(d, "request_regions", {}, "fail_free_fpdev") /\ SetError(d, TRUE)
  /\ UNCHANGED <<drvdata, idVars, isr, chrVars>>

\* A BAR that cannot be mapped leaves those before it mapped.
MapBars(d) ==
  /\ \/ Acquire(d, "map_bars", {"bars"}, "vec_count")
     \/ \E part \in {{}, {"bars"}} : Fail(d, "map_bars", part, "fail_release_regions")
  /\ UNCHANGED <<error, drvdata, idVars, isr, chrVars>>

VecCount(d) ==
  /\ \/ Acquire(d, "vec_count", {}, "alloc_vectors")
     \/ Fail(d, "vec_count", {}, "fail_release_regions")
  /\ UNCHANGED <<error, drvdata, idVars, isr, chrVars>>

\* The label fail_irq has the body of fail_irq_vectors.
AllocVectors(d) ==
  /\ \/ Acquire(d, "alloc_vectors", {"vectors"}, "request_irq") /\ SetError(d, FALSE)
     \/ Fail(d, "alloc_vectors", {}, "fail_irq_vectors") /\ SetError(d, TRUE)
  /\ UNCHANGED <<drvdata, idVars, isr, chrVars>>

RequestIrq(d) ==
  /\ \/ Acquire(d, "request_irq", {"irq"}, "blockdma") /\ SetError(d, FALSE)
     \/ Fail(d, "request_irq", {}, "fail_irq_vectors") /\ SetError(d, TRUE)
  /\ UNCHANGED <<drvdata, idVars, isr, chrVars>>

AllocateBlockDma(d) ==
  /\ \/ Acquire(d, "blockdma", {"c2h_bl", "h2c_bl"}, "sglistdma")
     \/ \E part \in {{}, {"c2h_bl"}} : Fail(d, "blockdma", part, "fail_irq_vectors")
  /\ UNCHANGED <<error, drvdata, idVars, isr, chrVars>>

AllocateSglistDma(d) ==
  /\ \/ Acquire(d, "sglistdma", {"c2h_sgl", "h2c_sgl"}, "alloc_chrdev")
     \/ \E part \in {{}, {"c2h_sgl"}} : Fail(d, "sglistdma", part, "fail_irq_vectors")
  /\ UNCHANGED <<error, drvdata, idVars, isr, chrVars>>

AllocChrdev(d) ==
  /\ \/ /\ Acquire(d, "alloc_chrdev", {"region"}, "cdev_add")
        /\ devt' = d /\ SetError(d, FALSE)
     \/ /\ Fail(d, "alloc_chrdev", {}, "fail_irq_vectors")
        /\ SetError(d, TRUE) /\ UNCHANGED devt
  /\ UNCHANGED <<drvdata, idVars, isr, cdev, class>>

\* cdev_init resets the structure, whoever it was registered for.
CdevAdd(d) ==
  /\ \/ Acquire(d, "cdev_add", {}, "class_create") /\ cdev' = devt
     \/ Fail(d, "cdev_add", {}, "fail_alloc_chr") /\ cdev' = None
  /\ UNCHANGED <<error, drvdata, idVars, isr, devt, class>>

\* The kernel refuses a second class of the same name.
ClassExists == \E e \in Device : "class" \in held[e]

ClassCreate(d) ==
  /\ \/ /\ ~ClassExists
        /\ Acquire(d, "class_create", {"class"}, "device_create")
        /\ class' = d /\ UNCHANGED cdev
     \/ /\ Fail(d, "class_create", {}, "fail_alloc_chr")
        /\ class' = None /\ cdev' = None
  /\ UNCHANGED <<error, drvdata, idVars, isr, devt>>

\* device_create reports an error by an error pointer, never by the NULL that
\* probe compares with: without a node probe goes on.
DeviceCreate(d) ==
  /\ pc[d] = "device_create" /\ pc' = [pc EXCEPT ![d] = "set_drvdata"]
  /\ \/ class # None /\ held' = [held EXCEPT ![devt] = @ \cup {"node"}]
     \/ UNCHANGED held
  /\ UNCHANGED <<todo, error, probes, drvdata, idVars, isr, chrVars>>

SetDrvdata(d) ==
  /\ Acquire(d, "set_drvdata", {}, "claim")
  /\ drvdata' = [drvdata EXCEPT ![d] = TRUE]
  /\ id' = [id EXCEPT ![d] = NoId] /\ scan' = [scan EXCEPT ![d] = 0]
  /\ UNCHANGED <<error, used, table, isr, chrVars>>

\* Faulty variant: the id is looked at and not marked.
ClaimUnmarked(d) ==
  /\ pc[d] = "claim" /\ UNCHANGED used
  /\ IF used[scan[d]]
     THEN /\ scan' = [scan EXCEPT ![d] = @ + 1] /\ UNCHANGED id
          /\ pc' = [pc EXCEPT ![d] = IF scan'[d] \in Id THEN "claim" ELSE "bound"]
     ELSE /\ id' = [id EXCEPT ![d] = scan[d]] /\ UNCHANGED scan
          /\ pc' = [pc EXCEPT ![d] = "enter"]
  /\ UNCHANGED <<todo, error, probes, held, drvdata, table, isr, chrVars>>

\* One round of the search: atomic_xchg marks the id used and tells whether it
\* was free.  Without a free id probe succeeds all the same.
Claim(d) ==
  /\ pc[d] = "claim"
  /\ used' = [used EXCEPT ![scan[d]] = TRUE]
  /\ IF used[scan[d]]
     THEN /\ scan' = [scan EXCEPT ![d] = @ + 1] /\ UNCHANGED id
          /\ pc' = [pc EXCEPT ![d] = IF scan'[d] \in Id THEN "claim" ELSE "bound"]
     ELSE /\ id' = [id EXCEPT ![d] = scan[d]] /\ UNCHANGED scan
          /\ pc' = [pc EXCEPT ![d] = "enter"]
  /\ UNCHANGED <<todo, error, probes, held, drvdata, table, isr, chrVars>>

\* Faulty variant: the id is entered, not the device.
EnterNumber(d) ==
  /\ pc[d] = "enter" /\ pc' = [pc EXCEPT ![d] = "bound"]
  /\ table' = [table EXCEPT ![id[d]] = id[d]]
  /\ UNCHANGED <<todo, error, probes, held, drvdata, id, scan, used, isr, chrVars>>

EnterTable(d) ==
  /\ pc[d] = "enter" /\ pc' = [pc EXCEPT ![d] = "bound"]
  /\ table' = [table EXCEPT ![id[d]] = d]
  /\ UNCHANGED <<todo, error, probes, held, drvdata, id, scan, used, isr, chrVars>>

-----------------------------------------------------------------------------
(***************************************************************************)
(* Releases, of an error label or of remove.                               *)
(***************************************************************************)

\* Without driver data remove does nothing.
Remove(d) ==
  /\ pc[d] = "bound"
  /\ IF drvdata[d]
     THEN /\ drvdata' = [drvdata EXCEPT ![d] = FALSE]
          /\ pc' = [pc EXCEPT ![d] = "remove"]
          /\ todo' = [todo EXCEPT ![d] = RemoveTodo(d)]
     ELSE /\ pc' = [pc EXCEPT ![d] = "out"] /\ UNCHANGED <<drvdata, todo>>
  /\ UNCHANGED <<error, probes, held, idVars, isr, chrVars>>

Releasing(d, what) ==
  /\ pc[d] \in {"unwind", "remove"} /\ todo[d] # <<>> /\ Head(todo[d]) = what
  /\ todo' = [todo EXCEPT ![d] = Tail(@)]
  /\ UNCHANGED <<pc, error, probes, drvdata, id, scan, isr>>

ReleaseLocal(d) ==
  /\ \E what \in Local : /\ Releasing(d, what)
                         /\ held' = [held EXCEPT ![d] = @ \ {what}]
  /\ UNCHANGED <<used, table, chrVars>>

\* Faulty variant: the entry stays.
ReleaseOnlyId(d) ==
  /\ \/ Releasing(d, "used") /\ used' = [used EXCEPT ![id[d]] = FALSE]
     \/ Releasing(d, "entry") /\ UNCHANGED used
  /\ UNCHANGED <<held, table, chrVars>>

ReleaseId(d) ==
  /\ \/ /\ Releasing(d, "used") /\ UNCHANGED table
        /\ used' = [used EXCEPT ![id[d]] = FALSE]
     \/ /\ Releasing(d, "entry") /\ UNCHANGED used
        /\ table' = [table EXCEPT ![id[d]] = None]
  /\ UNCHANGED <<held, chrVars>>

\* free_irq waits until the handler has returned.
FreeIrq(d) ==
  /\ isr[d] = "idle" /\ Releasing(d, "irq")
  /\ held' = [held EXCEPT ![d] = @ \ {"irq"}]
  /\ UNCHANGED <<used, table, chrVars>>

\* These act on whatever the globals name.  device_destroy looks into the class:
\* given the error pointer of a probe that was refused it faults, and remove gets
\* no further.  class_destroy returns at once.
ReleaseChr(d) ==
  /\ \/ /\ Releasing(d, "node") /\ class # None /\ UNCHANGED cdev
        /\ held' = [held EXCEPT ![devt] = @ \ {"node"}]
     \/ /\ Releasing(d, "class") /\ UNCHANGED cdev
        /\ held' = IF class = None THEN held
                   ELSE [held EXCEPT ![class] = @ \ {"class"}]
     \/ Releasing(d, "cdev") /\ cdev' = None /\ UNCHANGED held
     \/ /\ Releasing(d, "region") /\ UNCHANGED cdev
        /\ held' = [held EXCEPT ![devt] = @ \ {"region"}]
  /\ UNCHANGED <<used, table, devt, class>>

\* Probe returns `error`; the PCI core takes what is not negative for success.
Return(d) ==
  /\ pc[d] \in {"unwind", "remove"} /\ todo[d] = <<>>
  /\ pc' = [pc EXCEPT ![d] = IF pc[d] = "unwind" /\ ~error[d] THEN "bound" ELSE "out"]
  /\ UNCHANGED <<todo, error, probes, held, drvdata, idVars, isr, chrVars>>

-----------------------------------------------------------------------------
(***************************************************************************)
(* The interrupt handler: while it runs it reads registers through the BAR *)
(* and stores flags and wakes queues in fpdev.                             *)
(***************************************************************************)

IsrEnter(d) ==
  /\ isr[d] = "idle" /\ {"irq", "vectors"} \subseteq held[d]
  /\ isr' = [isr EXCEPT ![d] = "running"]
  /\ UNCHANGED <<probeVars, held, drvdata, idVars, chrVars>>

IsrReturn(d) ==
  /\ isr[d] = "running" /\ isr' = [isr EXCEPT ![d] = "idle"]
  /\ UNCHANGED <<probeVars, held, drvdata, idVars, chrVars>>

-----------------------------------------------------------------------------
ProbeStep(d) ==
  \/ PciEnable(d) \/ DmaMask(d) \/ Kzalloc(d) \/ RequestRegions(d)
  \/ MapBars(d) \/ VecCount(d) \/ AllocVectors(d) \/ RequestIrq(d)
  \/ AllocateBlockDma(d) \/ AllocateSglistDma(d) \/ AllocChrdev(d)
  \/ CdevAdd(d) \/ ClassCreate(d) \/ DeviceCreate(d) \/ SetDrvdata(d)
  \/ Claim(d) \/ EnterTable(d)

ReleaseStep(d) ==
  \/ Remove(d) \/ ReleaseId(d) \/ FreeIrq(d) \/ ReleaseLocal(d)
  \/ ReleaseChr(d) \/ Return(d)

IsrStep(d) == IsrEnter(d) \/ IsrReturn(d)

Next == \E d \in Device : ProbeStep(d) \/ ReleaseStep(d) \/ IsrStep(d)

Spec == Init /\ [][Next]_vars

-----------------------------------------------------------------------------
(***************************************************************************)
(* Properties.                                                             *)
(***************************************************************************)

ProbePoints == {"dma_mask", "kzalloc", "request_regions", "map_bars", "vec_count",
  "alloc_vectors", "request_irq", "blockdma", "sglistdma", "alloc_chrdev",
  "cdev_add", "class_create", "device_create", "set_drvdata", "claim", "enter"}

Releasable == Local \cup Chr \cup {"irq", "used", "entry", "cdev"}

\* Every variable has its type.
TypeOK ==
  /\ pc \in [Device -> ProbePoints \cup {"out", "bound", "unwind", "remove"}]
  /\ todo \in [Device -> Seq(Releasable)]
  /\ error \in [Device -> BOOLEAN] /\ drvdata \in [Device -> BOOLEAN]
  /\ held \in [Device -> SUBSET (Local \cup Buffers \cup Chr \cup {"irq"})]
  /\ id \in [Device -> Id \cup {NoId}] /\ scan \in [Device -> Id \cup {NumFpgas}]
  /\ isr \in [Device -> {"idle", "running"}] /\ probes \in [Device -> Nat]
  /\ used \in [Id -> BOOLEAN] /\ table \in [Id -> Device \cup {None}]
  /\ {devt, cdev, class} \subseteq Device \cup {None}

\* A device the driver is done with, by a failed probe or by remove.
Gone(d) == pc[d] = "out" \/ (pc[d] = "bound" /\ ~drvdata[d])

\* No device but d was ever probed.
Sole(d) == \A e \in Device \ {d} : probes[e] = 0

\* Whatever call of probe failed, its label releases what was acquired until
\* then, and a remove that returns releases what probe acquired
\* (fpdev_mod.c:1129-1303): all but the DMA buffers and the handler of a probe that
\* failed behind request_irq, and if no other device disturbed the globals, the
\* character device too.
Unwound ==
  \A d \in Device : Gone(d) =>
    /\ held[d] \cap Local = {}
    /\ Sole(d) => held[d] \cap Chr = {} /\ cdev = None

\* Until probe fails, whenever the handler of this life of the device can run, what
\* it uses is there: remove takes the handler away, and waits for it, before the
\* vectors, the BAR mapping and fpdev (fpdev_mod.c:1256-1278).
HandlerSafe ==
  \A d \in Device :
    /\ "irq" \in held[d] /\ pc[d] # "unwind" /\ ~Gone(d) => Local \subseteq held[d]
    /\ pc[d] = "remove" /\ isr[d] = "running" => "irq" \in held[d]

\* An ioctl that finds a device in the table finds all of it there
\* (fpdev_mod.c:1096-1110, 1244-1250).
EntriesLive ==
  \A i \in Id : table[i] # None =>
    /\ Local \cup Buffers \cup {"irq"} \subseteq held[table[i]]
    /\ id[table[i]] = i

\* A device that was probed to the end has an id of its own, and its entry stays
\* until its own remove.  The search and the table have no lock, and remove frees an
\* id before it clears the entry (fpdev_mod.c:1247-1249); what keeps another probe
\* away is the class, whose name is taken until remove destroys it (1293).
BoundIsListed ==
  \A d \in Device : pc[d] = "bound" /\ drvdata[d] =>
    /\ id[d] \in Id /\ used[id[d]]
    /\ table[id[d]] = d

\* d holds id i: it has claimed it and not given it back.
Owns(d, i) ==
  /\ id[d] = i
  /\ \/ pc[d] = "enter"
     \/ pc[d] = "bound" /\ drvdata[d]
     \/ pc[d] = "remove" /\ todo[d] # <<>> /\ Head(todo[d]) = "used"

\* The ids and the table implement the table of ids.
Ids == INSTANCE IdTable WITH
  Holders <- Device, Ids <- Id, Nobody <- None,
  owner <- [i \in Id |-> {d \in Device : Owns(d, i)}], entry <- table

TableImplemented == Ids!Spec

\* What a comment of probe and one of remove say: "Every resource allocated
\* during probe must be released" (fpdev_mod.c:1132) and "All resources allocated
\* by fpga_probe() must be released here" (fpdev_mod.c:1220).
Released == \A d \in Device : pc[d] = "out" => held[d] = {}

=============================================================================
