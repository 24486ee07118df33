--------------------------- MODULE LifecycleProofs ---------------------------
(***************************************************************************)
(* Proofs about Lifecycle, for any set of devices, any number of ids and   *)
(* any bound on the probes.                                                *)
(***************************************************************************)
EXTENDS Lifecycle, SequenceTheorems, TLAPS

(***************************************************************************)
(* What is still to be released.  Every error label releases the end of    *)
(* one sequence, and remove releases one sequence, so what is left of      *)
(* either is known by how long it is.                                      *)
(***************************************************************************)
FailScript   == <<"region", "vectors", "bars", "regions", "fpdev", "enabled">>
RemoveScript == <<"used", "entry", "irq", "vectors", "bars", "regions", "fpdev",
                  "enabled", "node", "class", "cdev", "region">>

LastOf(s, n) == SubSeq(s, Len(s) - n + 1, Len(s))

LEMMA LastOfSeq ==
  ASSUME NEW S, NEW s \in Seq(S), NEW n \in 0..Len(s)
  PROVE  /\ LastOf(s, n) \in Seq(S) /\ Len(LastOf(s, n)) = n
         /\ \A i \in 1..n : LastOf(s, n)[i] = s[Len(s) - n + i]
<1> DEFINE m == Len(s) - n + 1
<1>1. Len(s) \in Nat /\ m \in 1..Len(s) + 1 /\ m \in Int /\ Len(s) \in Int
  OBVIOUS
<1>2. \A i \in m..Len(s) : s[i] \in S
  BY <1>1, ElementOfSeq
<1> HIDE DEF m
<1>3. /\ SubSeq(s, m, Len(s)) \in Seq(S)
      /\ Len(SubSeq(s, m, Len(s))) = IF m <= Len(s) THEN Len(s) - m + 1 ELSE 0
      /\ \A i \in 1..Len(s) - m + 1 : SubSeq(s, m, Len(s))[i] = s[m + i - 1]
  BY <1>1, <1>2, SubSeqProperties
<1>4. LastOf(s, n) = SubSeq(s, m, Len(s))
  BY DEF LastOf, m
<1>5. m = Len(s) - n + 1
  BY DEF m
<1> QED
  BY <1>1, <1>3, <1>4, <1>5

LEMMA LastOfStep ==
  ASSUME NEW S, NEW s \in Seq(S), NEW n \in 1..Len(s)
  PROVE  /\ LastOf(s, n) # <<>>
         /\ Head(LastOf(s, n)) = s[Len(s) - n + 1]
         /\ Tail(LastOf(s, n)) = LastOf(s, n - 1)
<1> DEFINE a == LastOf(s, n)
           b == LastOf(s, n - 1)
<1>1. a \in Seq(S) /\ Len(a) = n /\ \A i \in 1..n : a[i] = s[Len(s) - n + i]
  BY LastOfSeq
<1>2. /\ b \in Seq(S) /\ Len(b) = n - 1
      /\ \A i \in 1..n - 1 : b[i] = s[Len(s) - (n - 1) + i]
  BY LastOfSeq
<1> HIDE DEF a, b
<1>3. a # <<>> /\ Head(a) = a[1]
  BY <1>1
<1>4. Tail(a) \in Seq(S) /\ Len(Tail(a)) = n - 1
      /\ \A i \in 1..n - 1 : Tail(a)[i] = a[i + 1]
  BY <1>1, <1>3, HeadTailProperties
<1>5. \A i \in 1..n - 1 : Tail(a)[i] = b[i]
  BY <1>1, <1>2, <1>4, SMTT(30)
<1>6. Tail(a) = b
  BY <1>2, <1>4, <1>5, SeqEqual
<1> QED
  BY <1>1, <1>3, <1>6 DEF a, b

LEMMA ScriptTypes ==
  /\ FailScript \in Seq(Releasable) /\ Len(FailScript) = 6
  /\ RemoveScript \in Seq(Releasable) /\ Len(RemoveScript) = 12
BY DEF FailScript, RemoveScript, Releasable, Local, Chr

\* A sequence that agrees with the last n of the label's is the last n.
LEMMA IsLastOfFail ==
  ASSUME NEW n \in 1..6, NEW t \in Seq(Releasable), Len(t) = n,
         \A i \in 1..n : t[i] = FailScript[6 - n + i]
  PROVE  t = LastOf(FailScript, n)
<1> DEFINE a == LastOf(FailScript, n)
<1>1. n \in 0..Len(FailScript) /\ FailScript \in Seq(Releasable)
  BY ScriptTypes
<1>2. /\ a \in Seq(Releasable) /\ Len(a) = n
      /\ \A i \in 1..n : a[i] = FailScript[Len(FailScript) - n + i]
  BY <1>1, LastOfSeq
<1> HIDE DEF a
<1>3. \A i \in 1..n : t[i] = a[i]
  BY <1>2, ScriptTypes
<1>4. t = a
  BY <1>2, <1>3, SeqEqual
<1> QED
  BY <1>4 DEF a

LEMMA FailScripts ==
  /\ FailReleases["fail_disable_device"] = LastOf(FailScript, 1)
  /\ FailReleases["fail_free_fpdev"] = LastOf(FailScript, 2)
  /\ FailReleases["fail_release_regions"] = LastOf(FailScript, 4)
  /\ FailReleases["fail_irq_vectors"] = LastOf(FailScript, 5)
  /\ FailReleases["fail_alloc_chr"] = LastOf(FailScript, 6)
<1> USE DEF FailReleases, FailScript, Releasable, Local, Chr
<1>1. <<"enabled">> = LastOf(FailScript, 1)
  <2> DEFINE t == <<"enabled">>
  <2>1. t \in Seq(Releasable)
    OBVIOUS
  <2>2. Len(t) = 1 /\ \A i \in 1..1 : t[i] = FailScript[6 - 1 + i]
    OBVIOUS
  <2> HIDE DEF t, FailScript
  <2>3. t = LastOf(FailScript, 1)
    BY <2>1, <2>2, IsLastOfFail
  <2> QED
    BY <2>3 DEF t
<1>2. <<"fpdev", "enabled">> = LastOf(FailScript, 2)
  <2> DEFINE t == <<"fpdev", "enabled">>
  <2>1. t \in Seq(Releasable)
    OBVIOUS
  <2>2. Len(t) = 2 /\ \A i \in 1..2 : t[i] = FailScript[6 - 2 + i]
    OBVIOUS
  <2> HIDE DEF t, FailScript
  <2>3. t = LastOf(FailScript, 2)
    BY <2>1, <2>2, IsLastOfFail
  <2> QED
    BY <2>3 DEF t
<1>3. <<"bars", "regions", "fpdev", "enabled">> = LastOf(FailScript, 4)
  <2> DEFINE t == <<"bars", "regions", "fpdev", "enabled">>
  <2>1. t \in Seq(Releasable)
    OBVIOUS
  <2>2. Len(t) = 4 /\ \A i \in 1..4 : t[i] = FailScript[6 - 4 + i]
    OBVIOUS
  <2> HIDE DEF t, FailScript
  <2>3. t = LastOf(FailScript, 4)
    BY <2>1, <2>2, IsLastOfFail
  <2> QED
    BY <2>3 DEF t
<1>4. <<"vectors", "bars", "regions", "fpdev", "enabled">> = LastOf(FailScript, 5)
  <2> DEFINE t == <<"vectors", "bars", "regions", "fpdev", "enabled">>
  <2>1. t \in Seq(Releasable)
    OBVIOUS
  <2>2. Len(t) = 5 /\ \A i \in 1..5 : t[i] = FailScript[6 - 5 + i]
    OBVIOUS
  <2> HIDE DEF t, FailScript
  <2>3. t = LastOf(FailScript, 5)
    BY <2>1, <2>2, IsLastOfFail
  <2> QED
    BY <2>3 DEF t
<1>5. <<"region", "vectors", "bars", "regions", "fpdev", "enabled">> = LastOf(FailScript, 6)
  <2> DEFINE t == <<"region", "vectors", "bars", "regions", "fpdev", "enabled">>
  <2>1. t \in Seq(Releasable)
    OBVIOUS
  <2>2. Len(t) = 6 /\ \A i \in 1..6 : t[i] = FailScript[6 - 6 + i]
    OBVIOUS
  <2> HIDE DEF t, FailScript
  <2>3. t = LastOf(FailScript, 6)
    BY <2>1, <2>2, IsLastOfFail
  <2> QED
    BY <2>3 DEF t
<1> HIDE DEF FailScript
<1> QED
  BY <1>1, <1>2, <1>3, <1>4, <1>5

LEMMA RemoveScripts ==
  ASSUME NEW d \in Device, id[d] \in Id
  PROVE  RemoveTodo(d) = RemoveScript /\ RemoveScript = LastOf(RemoveScript, 12)
<1>1. RemoveTodo(d) = RemoveScript
  <2> DEFINE a == <<"used", "entry">>
             b == RemoveReleases
  <2>1. a \in Seq(Releasable) /\ Len(a) = 2 /\ a[1] = "used" /\ a[2] = "entry"
    BY DEF Releasable
  <2>2. b \in Seq(Releasable) /\ Len(b) = 10
    BY DEF RemoveReleases, Releasable, Local, Chr
  <2>3. \A i \in 1..10 : b[i] = RemoveScript[i + 2]
    BY DEF RemoveReleases, RemoveScript
  <2>4. RemoveTodo(d) = a \o b
    BY DEF RemoveTodo
  <2> HIDE DEF a, b
  <2> DEFINE ab == a \o b
  <2>5. /\ ab \in Seq(Releasable) /\ Len(ab) = 12
        /\ \A i \in 1..12 : ab[i] = IF i <= 2 THEN a[i] ELSE b[i - 2]
    <3>1. /\ ab \in Seq(Releasable) /\ Len(ab) = Len(a) + Len(b)
          /\ \A i \in 1..Len(a) + Len(b) :
               ab[i] = IF i <= Len(a) THEN a[i] ELSE b[i - Len(a)]
      <4>1. a \in Seq(Releasable) /\ b \in Seq(Releasable)
        BY <2>1, <2>2
      <4> QED
        BY <4>1, ConcatProperties
    <3>2. Len(a) = 2 /\ Len(b) = 10
      BY <2>1, <2>2
    <3> HIDE DEF ab
    <3> QED
      BY <3>1, <3>2
  <2> HIDE DEF ab
  <2>6. RemoveScript[1] = "used" /\ RemoveScript[2] = "entry"
    BY DEF RemoveScript
  <2>7. \A i \in 1..12 : ab[i] = RemoveScript[i]
    <3> SUFFICES ASSUME NEW i \in 1..12 PROVE ab[i] = RemoveScript[i]
      OBVIOUS
    <3>1. CASE i <= 2
      <4>1. i = 1 \/ i = 2
        BY <3>1
      <4> QED
        BY <2>1, <2>5, <2>6, <4>1
    <3>2. CASE ~(i <= 2)
      <4>1. i - 2 \in 1..10 /\ (i - 2) + 2 = i
        BY <3>2
      <4> QED
        BY <2>3, <2>5, <3>2, <4>1
    <3> QED
      BY <3>1, <3>2
  <2>8. ab = RemoveScript
    BY <2>5, <2>7, ScriptTypes, SeqEqual
  <2> QED
    BY <2>4, <2>8 DEF ab
<1>2. RemoveScript = LastOf(RemoveScript, 12)
  BY ScriptTypes, SubSeqFull DEF LastOf
<1> QED
  BY <1>1, <1>2

(***************************************************************************)
(* Next, split into its actions, and the two ways a call of probe ends.    *)
(***************************************************************************)
LEMMA NextCases ==
  ASSUME [Next]_vars
  PROVE  \/ \E d \in Device : ProbeStep(d) \/ ReleaseStep(d) \/ IsrStep(d)
         \/ UNCHANGED vars
BY Zenon DEF Next

-----------------------------------------------------------------------------
(***************************************************************************)
(* Types.  A search that goes on has a next id to look at.                 *)
(***************************************************************************)
ScanOK == \A d \in Device : pc[d] = "claim" => scan[d] \in Id

Things == Local \cup Buffers \cup Chr \cup {"irq"}

Points == ProbePoints \cup {"out", "bound", "unwind", "remove"}

LEMMA TypeInit == Init => TypeOK /\ ScanOK
<1> SUFFICES ASSUME Init PROVE TypeOK /\ ScanOK
  OBVIOUS
<1>1. error \in [Device -> BOOLEAN] /\ drvdata \in [Device -> BOOLEAN]
      /\ used \in [Id -> BOOLEAN]
  BY Zenon DEF Init
<1>2. /\ pc \in [Device -> Points] /\ todo \in [Device -> Seq(Releasable)]
      /\ held \in [Device -> SUBSET Things] /\ isr \in [Device -> {"idle", "running"}]
  BY DEF Init, Points
<1>3. /\ id \in [Device -> Id \cup {NoId}] /\ scan \in [Device -> Id \cup {NumFpgas}]
      /\ probes \in [Device -> Nat] /\ table \in [Id -> Device \cup {None}]
      /\ {devt, cdev, class} \subseteq Device \cup {None}
  BY NumFpgasAssumption DEF Init, NoId, Id
<1>4. ScanOK
  BY DEF Init, ScanOK
<1> QED
  BY <1>1, <1>2, <1>3, <1>4, Zenon DEF TypeOK, Points, Things

\* The types of what every step of probe changes.
LEMMA AcquireType ==
  ASSUME TypeOK, NEW d \in Device, NEW from, NEW to \in ProbePoints \cup {"bound"},
         NEW what \in SUBSET Things, Acquire(d, from, what, to)
  PROVE  /\ pc' \in [Device -> Points] /\ todo' \in [Device -> Seq(Releasable)]
         /\ held' \in [Device -> SUBSET Things] /\ probes' \in [Device -> Nat]
         /\ pc'[d] = to /\ \A e \in Device \ {d} : pc'[e] = pc[e]
<1>1. pc \in [Device -> Points] /\ held \in [Device -> SUBSET Things]
      /\ todo \in [Device -> Seq(Releasable)] /\ probes \in [Device -> Nat]
  BY Zenon DEF TypeOK, Points, Things
<1> QED
  BY <1>1 DEF Acquire, Points

LEMMA FailType ==
  ASSUME TypeOK, NEW d \in Device, NEW from,
         NEW label \in {"fail_disable_device", "fail_free_fpdev", "fail_release_regions",
                        "fail_irq_vectors", "fail_alloc_chr"},
         NEW what \in SUBSET Things, Fail(d, from, what, label)
  PROVE  /\ pc' \in [Device -> Points] /\ todo' \in [Device -> Seq(Releasable)]
         /\ held' \in [Device -> SUBSET Things] /\ probes' \in [Device -> Nat]
         /\ pc'[d] = "unwind" /\ \A e \in Device \ {d} : pc'[e] = pc[e]
<1>1. pc \in [Device -> Points] /\ held \in [Device -> SUBSET Things]
      /\ todo \in [Device -> Seq(Releasable)] /\ probes \in [Device -> Nat]
  BY Zenon DEF TypeOK, Points, Things
<1>2. FailReleases[label] \in Seq(Releasable)
  <2>1. FailScript \in Seq(Releasable) /\ Len(FailScript) = 6
    BY ScriptTypes
  <2>2. \A n \in 0..6 : LastOf(FailScript, n) \in Seq(Releasable)
    BY <2>1, LastOfSeq
  <2> QED
    BY <2>2, FailScripts
<1>3. pc' = [pc EXCEPT ![d] = "unwind"] /\ todo' = [todo EXCEPT ![d] = FailReleases[label]]
      /\ held' = [held EXCEPT ![d] = @ \cup what] /\ probes' = probes
  BY DEF Fail
<1> HIDE DEF FailReleases
<1> QED
  BY <1>1, <1>2, <1>3 DEF Points

LEMMA SetErrorType ==
  ASSUME TypeOK, NEW d \in Device, NEW b \in BOOLEAN, SetError(d, b)
  PROVE  error' \in [Device -> BOOLEAN]
BY Zenon DEF TypeOK, SetError

Labels == {"fail_disable_device", "fail_free_fpdev", "fail_release_regions",
           "fail_irq_vectors", "fail_alloc_chr"}

\* The calls of probe that acquire something or go to a label.
Calls(d) ==
  \/ DmaMask(d) \/ Kzalloc(d) \/ RequestRegions(d) \/ MapBars(d) \/ VecCount(d)
  \/ AllocVectors(d) \/ RequestIrq(d) \/ AllocateBlockDma(d) \/ AllocateSglistDma(d)
  \/ AllocChrdev(d) \/ CdevAdd(d) \/ ClassCreate(d)

LEMMA CallCases ==
  ASSUME NEW d \in Device, Calls(d)
  PROVE  /\ \/ \E from \in ProbePoints, to \in ProbePoints \ {"claim"},
                  what \in SUBSET Things : Acquire(d, from, what, to)
            \/ \E from \in ProbePoints, what \in SUBSET Things, label \in Labels :
                  Fail(d, from, what, label)
         /\ error' = error \/ \E b \in BOOLEAN : SetError(d, b)
         /\ UNCHANGED <<drvdata, idVars, isr>>
         /\ devt' \in {devt, d} /\ cdev' \in {cdev, devt, None} /\ class' \in {class, d, None}
<1> USE DEF chrVars
<1>1. /\ UNCHANGED <<drvdata, idVars, isr>>
      /\ error' = error \/ \E b \in BOOLEAN : SetError(d, b)
  <2>1. CASE DmaMask(d) \/ Kzalloc(d) \/ RequestRegions(d) \/ MapBars(d)
    BY <2>1, Zenon DEF DmaMask, Kzalloc, RequestRegions, MapBars
  <2>2. CASE VecCount(d) \/ AllocVectors(d) \/ RequestIrq(d) \/ AllocateBlockDma(d)
    BY <2>2, Zenon DEF VecCount, AllocVectors, RequestIrq, AllocateBlockDma
  <2>3. CASE AllocateSglistDma(d) \/ AllocChrdev(d) \/ CdevAdd(d) \/ ClassCreate(d)
    BY <2>3, Zenon DEF AllocateSglistDma, AllocChrdev, CdevAdd, ClassCreate
  <2> QED
    BY <2>1, <2>2, <2>3, Zenon DEF Calls
<1>2. devt' \in {devt, d} /\ cdev' \in {cdev, devt, None} /\ class' \in {class, d, None}
  <2>1. CASE DmaMask(d) \/ Kzalloc(d) \/ RequestRegions(d) \/ MapBars(d)
    BY <2>1 DEF DmaMask, Kzalloc, RequestRegions, MapBars
  <2>2. CASE VecCount(d) \/ AllocVectors(d) \/ RequestIrq(d) \/ AllocateBlockDma(d)
    BY <2>2 DEF VecCount, AllocVectors, RequestIrq, AllocateBlockDma
  <2>3. CASE AllocateSglistDma(d) \/ AllocChrdev(d) \/ CdevAdd(d) \/ ClassCreate(d)
    BY <2>3 DEF AllocateSglistDma, AllocChrdev, CdevAdd, ClassCreate
  <2> QED
    BY <2>1, <2>2, <2>3 DEF Calls
<1>3. \/ \E from \in ProbePoints, to \in ProbePoints \ {"claim"},
            what \in SUBSET Things : Acquire(d, from, what, to)
      \/ \E from \in ProbePoints, what \in SUBSET Things, label \in Labels :
            Fail(d, from, what, label)
  <2> USE DEF ProbePoints, Things, Local, Buffers, Chr, Labels
  <2>1. CASE DmaMask(d) \/ Kzalloc(d) \/ RequestRegions(d) \/ MapBars(d)
    BY <2>1 DEF DmaMask, Kzalloc, RequestRegions, MapBars
  <2>2. CASE VecCount(d) \/ AllocVectors(d) \/ RequestIrq(d) \/ AllocateBlockDma(d)
    BY <2>2 DEF VecCount, AllocVectors, RequestIrq, AllocateBlockDma
  <2>3. CASE AllocateSglistDma(d) \/ AllocChrdev(d) \/ CdevAdd(d) \/ ClassCreate(d)
    BY <2>3 DEF AllocateSglistDma, AllocChrdev, CdevAdd, ClassCreate
  <2> QED
    BY <2>1, <2>2, <2>3 DEF Calls
<1> QED
  BY <1>1, <1>2, <1>3

LEMMA TypeStep == TypeOK /\ ScanOK /\ [Next]_vars => TypeOK' /\ ScanOK'
<1> SUFFICES ASSUME TypeOK, ScanOK, [Next]_vars PROVE TypeOK' /\ ScanOK'
  OBVIOUS
<1> USE DEF probeVars, idVars, chrVars
<1>0. /\ pc \in [Device -> Points] /\ held \in [Device -> SUBSET Things]
      /\ todo \in [Device -> Seq(Releasable)] /\ probes \in [Device -> Nat]
      /\ id \in [Device -> Id \cup {NoId}] /\ scan \in [Device -> Id \cup {NumFpgas}]
      /\ isr \in [Device -> {"idle", "running"}]
      /\ table \in [Id -> Device \cup {None}]
      /\ {devt, cdev, class} \subseteq Device \cup {None}
  BY Zenon DEF TypeOK, Points, Things
\* The parts of the goal, so that a step needs only those it changes.
<1> DEFINE Bools == error \in [Device -> BOOLEAN] /\ drvdata \in [Device -> BOOLEAN]
                    /\ used \in [Id -> BOOLEAN]
           Places == pc \in [Device -> Points] /\ todo \in [Device -> Seq(Releasable)]
                     /\ held \in [Device -> SUBSET Things] /\ probes \in [Device -> Nat]
           Rest == /\ id \in [Device -> Id \cup {NoId}]
                   /\ scan \in [Device -> Id \cup {NumFpgas}]
                   /\ isr \in [Device -> {"idle", "running"}]
                   /\ table \in [Id -> Device \cup {None}]
                   /\ {devt, cdev, class} \subseteq Device \cup {None}
<1>1. Bools /\ Places /\ Rest
  BY <1>0, Zenon DEF TypeOK
<1>2. ASSUME Bools', Places', Rest' PROVE TypeOK'
  BY <1>2, Zenon DEF TypeOK, Points, Things
<1>3. ASSUME NEW d \in Device, PciEnable(d) PROVE TypeOK' /\ ScanOK'
  <2>1. Bools'
    BY <1>1, <1>3, Zenon DEF PciEnable, SetError
  <2>2. /\ \/ pc' = pc \/ pc' = [pc EXCEPT ![d] = "dma_mask"]
        /\ \/ held' = held
           \/ held' = [held EXCEPT ![d] = (held[d] \cap Chr) \cup {"enabled"}]
        /\ probes' = [probes EXCEPT ![d] = probes[d] + 1]
        /\ UNCHANGED <<todo, id, scan, table, isr, devt, cdev, class>>
    BY <1>3, Zenon DEF PciEnable
  <2>3. (held[d] \cap Chr) \cup {"enabled"} \in SUBSET Things
    BY DEF Things, Local
  <2>4. pc' \in [Device -> Points] /\ ScanOK'
    BY <1>0, <2>2 DEF Points, ProbePoints, ScanOK
  <2>5. held' \in [Device -> SUBSET Things] /\ probes' \in [Device -> Nat]
    <3>1. probes' \in [Device -> Nat]
      BY <1>0, <2>2
    <3> DEFINE new == (held[d] \cap Chr) \cup {"enabled"}
    <3>2. new \in SUBSET Things
      BY <2>3
    <3>3. held' = held \/ held' = [held EXCEPT ![d] = new]
      BY <2>2
    <3> HIDE DEF new
    <3> QED
      BY <1>0, <3>1, <3>2, <3>3
  <2>6. Places' /\ Rest'
    BY <1>0, <2>2, <2>4, <2>5
  <2> QED
    BY <1>2, <2>1, <2>4, <2>6
<1>4. ASSUME NEW d \in Device, Calls(d) PROVE TypeOK' /\ ScanOK'
  <2>1. Bools'
    <3>1. error' \in [Device -> BOOLEAN]
      BY <1>1, <1>4, CallCases, SetErrorType
    <3>2. drvdata' = drvdata /\ used' = used
      BY <1>4, CallCases
    <3> QED
      BY <1>1, <3>1, <3>2
  <2>2. Places' /\ pc'[d] # "claim" /\ \A e \in Device \ {d} : pc'[e] = pc[e]
    <3>1. CASE \E from \in ProbePoints, to \in ProbePoints \ {"claim"},
                  what \in SUBSET Things : Acquire(d, from, what, to)
      BY <3>1, AcquireType
    <3>2. CASE \E from \in ProbePoints, what \in SUBSET Things, label \in Labels :
                  Fail(d, from, what, label)
      BY <3>2, FailType DEF Labels
    <3> QED
      BY <1>4, <3>1, <3>2, CallCases
  <2>3. Rest'
    <3>1. UNCHANGED <<id, scan, table, isr>>
      BY <1>4, CallCases
    <3>2. {devt', cdev', class'} \subseteq Device \cup {None}
      <4>1. devt' \in {devt, d} /\ cdev' \in {cdev, devt, None} /\ class' \in {class, d, None}
        BY <1>4, CallCases
      <4> QED
        BY <1>0, <4>1
    <3> QED
      BY <1>0, <3>1, <3>2
  <2>4. ScanOK'
    BY <1>4, <2>2, CallCases DEF ScanOK
  <2> QED
    BY <1>2, <2>1, <2>2, <2>3, <2>4
<1>5. ASSUME NEW d \in Device, DeviceCreate(d) PROVE TypeOK' /\ ScanOK'
  <2>1. Bools' /\ Rest'
    BY <1>1, <1>5, Zenon DEF DeviceCreate
  <2>2. /\ pc' = [pc EXCEPT ![d] = "set_drvdata"] /\ UNCHANGED <<todo, probes, scan>>
        /\ held' = held \/ held' = [held EXCEPT ![devt] = held[devt] \cup {"node"}]
    BY <1>5, Zenon DEF DeviceCreate
  <2>3. held' \in [Device -> SUBSET Things]
    <3>1. "node" \in Things
      BY DEF Things, Chr
    <3>2. \A e \in Device : held[e] \in SUBSET Things
                           /\ held[e] \cup {"node"} \in SUBSET Things
      BY <1>0, <3>1
    <3>3. CASE held' = held
      BY <1>0, <3>3
    <3>4. CASE held' = [held EXCEPT ![devt] = held[devt] \cup {"node"}]
      <4>1. held' = [e \in Device |-> IF e = devt THEN held[e] \cup {"node"} ELSE held[e]]
        BY <1>0, <3>4
      <4> QED
        BY <3>2, <4>1
    <3> QED
      BY <2>2, <3>3, <3>4
  <2>4. pc' \in [Device -> Points] /\ ScanOK'
    BY <1>0, <2>2 DEF Points, ProbePoints, ScanOK
  <2>5. Places' /\ ScanOK'
    BY <1>0, <2>2, <2>3, <2>4
  <2> QED
    BY <1>2, <2>1, <2>5
<1>6. ASSUME NEW d \in Device, SetDrvdata(d) PROVE TypeOK' /\ ScanOK'
  <2>1. Bools'
    BY <1>1, <1>6, Zenon DEF SetDrvdata
  <2>2. Places' /\ pc'[d] = "claim" /\ \A e \in Device \ {d} : pc'[e] = pc[e]
    <3>1. Acquire(d, "set_drvdata", {}, "claim")
      BY <1>6 DEF SetDrvdata
    <3>2. {} \in SUBSET Things /\ "claim" \in ProbePoints \cup {"bound"}
      BY DEF ProbePoints
    <3> QED
      BY <3>1, <3>2, AcquireType
  <2>3. Rest' /\ scan'[d] = 0 /\ \A e \in Device \ {d} : scan'[e] = scan[e]
    BY <1>0, <1>6, NumFpgasAssumption DEF SetDrvdata, Id, NoId
  <2>4. ScanOK'
    BY <2>2, <2>3, NumFpgasAssumption DEF ScanOK, Id
  <2> QED
    BY <1>2, <2>1, <2>2, <2>3, <2>4
<1>7. ASSUME NEW d \in Device, Claim(d) PROVE TypeOK' /\ ScanOK'
  <2>1. Bools'
    BY <1>1, <1>7, Zenon DEF Claim
  <2>2. scan[d] \in Id /\ scan[d] + 1 \in Id \cup {NumFpgas}
    BY <1>7, NumFpgasAssumption DEF Claim, ScanOK, Id
  <2>3. CASE used[scan[d]]
    <3>1. /\ scan' = [scan EXCEPT ![d] = scan[d] + 1] /\ id' = id
          /\ pc' = [pc EXCEPT ![d] = IF scan'[d] \in Id THEN "claim" ELSE "bound"]
          /\ UNCHANGED <<todo, probes, held, table, isr, devt, cdev, class>>
      BY <1>7, <2>3, Zenon DEF Claim
    <3>2. Places' /\ Rest' /\ ScanOK'
      BY <1>0, <2>2, <3>1 DEF Points, ProbePoints, ScanOK
    <3> QED
      BY <1>2, <2>1, <3>2
  <2>4. CASE ~used[scan[d]]
    <3>1. /\ id' = [id EXCEPT ![d] = scan[d]] /\ scan' = scan
          /\ pc' = [pc EXCEPT ![d] = "enter"]
          /\ UNCHANGED <<todo, probes, held, table, isr, devt, cdev, class>>
      BY <1>7, <2>4, Zenon DEF Claim
    <3>2. Places' /\ Rest' /\ ScanOK'
      BY <1>0, <2>2, <3>1 DEF Points, ProbePoints, ScanOK
    <3> QED
      BY <1>2, <2>1, <3>2
  <2> QED
    BY <2>3, <2>4
<1>8. ASSUME NEW d \in Device, EnterTable(d) PROVE TypeOK' /\ ScanOK'
  <2>1. Bools'
    BY <1>1, <1>8, Zenon DEF EnterTable
  <2>2. Places' /\ Rest' /\ ScanOK'
    BY <1>0, <1>8 DEF EnterTable, Points, ProbePoints, ScanOK
  <2> QED
    BY <1>2, <2>1, <2>2
<1>9. ASSUME NEW d \in Device, Remove(d) PROVE TypeOK' /\ ScanOK'
  <2>1. Bools'
    BY <1>1, <1>9, Zenon DEF Remove
  <2>2. RemoveTodo(d) \in Seq(Releasable)
    <3>1. RemoveReleases \in Seq(Releasable)
      BY DEF RemoveReleases, Releasable, Local, Chr
    <3>2. <<"used", "entry">> \in Seq(Releasable) /\ <<>> \in Seq(Releasable)
      BY DEF Releasable
    <3> HIDE DEF RemoveReleases
    <3> QED
      BY <3>1, <3>2, ConcatProperties DEF RemoveTodo
  <2>3. /\ \/ pc' = [pc EXCEPT ![d] = "remove"] /\ todo' = [todo EXCEPT ![d] = RemoveTodo(d)]
           \/ pc' = [pc EXCEPT ![d] = "out"] /\ todo' = todo
        /\ UNCHANGED <<probes, held, id, scan, table, isr, devt, cdev, class>>
    BY <1>9, Zenon DEF Remove
  <2>4. Places' /\ Rest' /\ ScanOK'
    BY <1>0, <2>2, <2>3, ZenonT(60) DEF Points, ScanOK
  <2> QED
    BY <1>2, <2>1, <2>4
<1>10. ASSUME NEW d \in Device, NEW what, Releasing(d, what)
       PROVE  /\ UNCHANGED <<pc, error, probes, drvdata, id, scan, isr>>
              /\ todo' \in [Device -> Seq(Releasable)]
  <2>1. todo[d] \in Seq(Releasable) /\ todo[d] # <<>>
    BY <1>0, <1>10 DEF Releasing
  <2>2. Tail(todo[d]) \in Seq(Releasable)
    BY <2>1, HeadTailProperties
  <2> QED
    BY <1>0, <1>10, <2>2 DEF Releasing
<1>11. ASSUME NEW d \in Device, ReleaseId(d) PROVE TypeOK' /\ ScanOK'
  <2>1. /\ UNCHANGED <<pc, error, probes, drvdata, id, scan, isr, held, devt, cdev, class>>
        /\ todo' \in [Device -> Seq(Releasable)]
    BY <1>10, <1>11 DEF ReleaseId
  <2>2. Bools'
    BY <1>1, <1>11, <2>1, Zenon DEF ReleaseId
  <2>3. table' \in [Id -> Device \cup {None}]
    BY <1>0, <1>11 DEF ReleaseId
  <2>4. Places' /\ Rest' /\ ScanOK'
    BY <1>0, <2>1, <2>3 DEF ScanOK
  <2> QED
    BY <1>2, <2>2, <2>4
<1>12. ASSUME NEW d \in Device, FreeIrq(d) \/ ReleaseLocal(d) \/ ReleaseChr(d)
       PROVE  TypeOK' /\ ScanOK'
  <2>1. /\ UNCHANGED <<pc, error, probes, drvdata, id, scan, isr, used, table, devt, class>>
        /\ todo' \in [Device -> Seq(Releasable)] /\ cdev' \in {cdev, None}
    BY <1>10, <1>12 DEF FreeIrq, ReleaseLocal, ReleaseChr
  <2>2. held' \in [Device -> SUBSET Things]
    <3>1. \/ held' = held
          \/ \E e, what : held' = [held EXCEPT ![e] = held[e] \ {what}]
      BY <1>12, Zenon DEF FreeIrq, ReleaseLocal, ReleaseChr
    <3> QED
      BY <1>0, <3>1, ZenonT(60)
  <2>3. Places' /\ Rest' /\ ScanOK'
    BY <1>0, <2>1, <2>2 DEF ScanOK
  <2>4. Bools'
    BY <1>1, <2>1, Zenon
  <2> QED
    BY <1>2, <2>3, <2>4
<1>13. ASSUME NEW d \in Device, Return(d) PROVE TypeOK' /\ ScanOK'
  <2>1. pc' \in [Device -> Points] /\ ScanOK'
    <3>1. \E to \in {"bound", "out"} : pc' = [pc EXCEPT ![d] = to]
      BY <1>13, Zenon DEF Return
    <3> QED
      BY <1>0, <1>13, <3>1 DEF Return, Points, ScanOK
  <2>2. UNCHANGED <<todo, error, probes, held, drvdata, idVars, isr, chrVars>>
    BY <1>13, Zenon DEF Return
  <2> QED
    BY <1>1, <1>2, <2>1, <2>2, Zenon
<1>14. ASSUME NEW d \in Device, IsrStep(d) PROVE TypeOK' /\ ScanOK'
  <2>1. isr' \in [Device -> {"idle", "running"}]
    BY <1>0, <1>14 DEF IsrStep, IsrEnter, IsrReturn
  <2>2. UNCHANGED <<probeVars, held, drvdata, idVars, chrVars>>
    BY <1>14, Zenon DEF IsrStep, IsrEnter, IsrReturn
  <2> QED
    BY <1>1, <1>2, <2>1, <2>2, Zenon DEF ScanOK
<1>15. ASSUME UNCHANGED vars PROVE TypeOK' /\ ScanOK'
  BY <1>1, <1>2, <1>15, Zenon DEF vars, ScanOK
<1>16. ASSUME NEW d \in Device, ProbeStep(d) PROVE TypeOK' /\ ScanOK'
  BY <1>3, <1>4, <1>5, <1>6, <1>7, <1>8, <1>16, Zenon DEF ProbeStep, Calls
<1>17. ASSUME NEW d \in Device, ReleaseStep(d) PROVE TypeOK' /\ ScanOK'
  BY <1>9, <1>11, <1>12, <1>13, <1>17, Zenon DEF ReleaseStep
<1> QED
  BY NextCases, <1>14, <1>15, <1>16, <1>17, Zenon

\* Every variable has its type: the search for an id never leaves the table.
THEOREM LifecycleTypes == Spec => []TypeOK
BY TypeInit, TypeStep, PTL DEF Spec

-----------------------------------------------------------------------------
(***************************************************************************)
(* What a device holds, at every point of its life.  Only the parts of the *)
(* character device can be touched by the probe or remove of another one.  *)
(***************************************************************************)
Full == Local \cup Buffers \cup {"irq"}

Left(d) == Len(todo[d])

\* What is acquired from step to step of probe.
G1 == {"enabled"}
G2 == {"enabled", "fpdev"}
G3 == {"enabled", "fpdev", "regions"}
G4 == {"enabled", "fpdev", "regions", "bars"}
G6 == Local \cup {"irq"}
G7 == Local \cup {"irq", "c2h_bl", "h2c_bl"}

LatePoints == {"alloc_chrdev", "cdev_add", "class_create", "device_create",
               "set_drvdata", "claim", "enter"}

ProbeHolds(d) ==
  /\ pc[d] \in {"dma_mask", "kzalloc"} => held[d] \cap Full = G1
  /\ pc[d] = "request_regions" => held[d] \cap Full = G2
  /\ pc[d] = "map_bars" => held[d] \cap Full = G3
  /\ pc[d] \in {"vec_count", "alloc_vectors"} => held[d] \cap Full = G4
  /\ pc[d] = "request_irq" => held[d] \cap Full = Local
  /\ pc[d] = "blockdma" => held[d] \cap Full = G6
  /\ pc[d] = "sglistdma" => held[d] \cap Full = G7
  /\ pc[d] \in LatePoints => held[d] \cap Full = Full

RestHolds(d) ==
  /\ pc[d] = "out" \/ (pc[d] = "bound" /\ ~drvdata[d]) => held[d] \cap Local = {}
  /\ pc[d] = "bound" /\ drvdata[d] => held[d] \cap Full = Full
  /\ drvdata[d] => pc[d] \in {"claim", "enter", "bound"}
  /\ pc[d] \in {"claim", "enter"} => drvdata[d]

\* What the label has not yet come to is all that is left.
UnwindHolds(d) ==
  pc[d] = "unwind" =>
    /\ Left(d) \in 0..6 /\ todo[d] = LastOf(FailScript, Left(d))
    /\ "enabled" \in held[d] => Left(d) >= 1
    /\ "fpdev" \in held[d] => Left(d) >= 2
    /\ "regions" \in held[d] => Left(d) >= 3
    /\ "bars" \in held[d] => Left(d) >= 4
    /\ "vectors" \in held[d] => Left(d) >= 5

\* And of remove, where the handler goes first and stays away.
RemoveHolds(d) ==
  pc[d] = "remove" =>
    /\ Left(d) \in 0..12 /\ todo[d] = LastOf(RemoveScript, Left(d))
    /\ Left(d) >= 10 => held[d] \cap Full = Full
    /\ Left(d) < 10 => "irq" \notin held[d] /\ isr[d] = "idle"
    /\ "enabled" \in held[d] => Left(d) >= 5
    /\ "fpdev" \in held[d] => Left(d) >= 6
    /\ "regions" \in held[d] => Left(d) >= 7
    /\ "bars" \in held[d] => Left(d) >= 8
    /\ "vectors" \in held[d] => Left(d) >= 9

HoldsOK(d) == ProbeHolds(d) /\ RestHolds(d) /\ UnwindHolds(d) /\ RemoveHolds(d)

\* remove finds a device with an id.
IdKnown == \A d \in Device : pc[d] = "bound" /\ drvdata[d] => id[d] \in Id

\* A step about d leaves another device as it is, but for the character device.
LEMMA OthersFrame ==
  ASSUME TypeOK, NEW d \in Device, ProbeStep(d) \/ ReleaseStep(d) \/ IsrStep(d),
         NEW e \in Device \ {d}
  PROVE  /\ pc'[e] = pc[e] /\ todo'[e] = todo[e] /\ (drvdata'[e] <=> drvdata[e])
         /\ isr'[e] = isr[e] /\ id'[e] = id[e] /\ scan'[e] = scan[e]
         /\ probes'[e] = probes[e]
         /\ held'[e] \cap Full = held[e] \cap Full
<1> USE DEF probeVars, idVars, chrVars
<1>0. /\ pc \in [Device -> Points] /\ held \in [Device -> SUBSET Things]
      /\ todo \in [Device -> Seq(Releasable)] /\ probes \in [Device -> Nat]
      /\ id \in [Device -> Id \cup {NoId}] /\ scan \in [Device -> Id \cup {NumFpgas}]
      /\ isr \in [Device -> {"idle", "running"}]
  BY Zenon DEF TypeOK, Points, Things
<1>d. drvdata \in [Device -> BOOLEAN]
  BY Zenon DEF TypeOK
<1> DEFINE Same == /\ pc'[e] = pc[e] /\ todo'[e] = todo[e]
                   /\ isr'[e] = isr[e] /\ id'[e] = id[e] /\ scan'[e] = scan[e]
                   /\ probes'[e] = probes[e]
           SameData == drvdata'[e] <=> drvdata[e]
           SameHeld == held'[e] \cap Full = held[e] \cap Full
<1>1. CASE PciEnable(d)
  <2>1. drvdata' = drvdata
    BY <1>1 DEF PciEnable
  <2>2. Same /\ SameHeld
    BY <1>0, <1>1 DEF PciEnable
  <2> QED
    BY <2>1, <2>2
<1>2. CASE Calls(d)
  <2>1. UNCHANGED <<drvdata, idVars, isr>>
    BY <1>2, CallCases
  <2>2. \/ \E from, to, what : Acquire(d, from, what, to)
        \/ \E from, what, label : Fail(d, from, what, label)
    BY <1>2, CallCases
  <2>3. Same /\ SameHeld
    BY <1>0, <2>1, <2>2 DEF Acquire, Fail
  <2> QED
    BY <2>1, <2>3
<1>3. CASE DeviceCreate(d)
  <2>1. drvdata' = drvdata /\ Same
    BY <1>0, <1>3 DEF DeviceCreate
  <2>2. held' = held \/ held' = [held EXCEPT ![devt] = held[devt] \cup {"node"}]
    BY <1>3, Zenon DEF DeviceCreate
  <2>3. "node" \notin Full
    BY DEF Full, Local, Buffers
  <2>4. CASE held' = held
    BY <2>1, <2>4
  <2>5. CASE held' = [held EXCEPT ![devt] = held[devt] \cup {"node"}]
    <3>1. held'[e] = held[e] \/ held'[e] = held[e] \cup {"node"}
      BY <1>0, <2>5
    <3>2. SameHeld
      BY <2>3, <3>1
    <3> QED
      BY <2>1, <3>2
  <2> QED
    BY <2>2, <2>4, <2>5
<1>4. CASE SetDrvdata(d)
  <2>1. drvdata'[e] <=> drvdata[e]
    BY <1>4, <1>d, Zenon DEF SetDrvdata
  <2>2. Same /\ SameHeld
    BY <1>0, <1>4 DEF SetDrvdata, Acquire
  <2> QED
    BY <2>1, <2>2
<1>5. CASE Claim(d)
  <2>1. drvdata' = drvdata /\ held' = held
    BY <1>5 DEF Claim
  <2>2. /\ \E to : pc' = [pc EXCEPT ![d] = to]
        /\ scan' = scan \/ \E k : scan' = [scan EXCEPT ![d] = k]
        /\ id' = id \/ \E k : id' = [id EXCEPT ![d] = k]
        /\ UNCHANGED <<todo, probes, isr>>
    BY <1>5, Zenon DEF Claim
  <2>3. Same
    BY <1>0, <2>2
  <2> QED
    BY <2>1, <2>3
<1>6. CASE EnterTable(d)
  BY <1>0, <1>6 DEF EnterTable
<1>7. CASE Remove(d)
  <2>1. drvdata'[e] <=> drvdata[e]
    BY <1>7, <1>d, Zenon DEF Remove
  <2>2. /\ \E to : pc' = [pc EXCEPT ![d] = to]
        /\ todo' = todo \/ \E t : todo' = [todo EXCEPT ![d] = t]
        /\ UNCHANGED <<probes, held, id, scan, isr>>
    BY <1>7, Zenon DEF Remove
  <2>3. Same /\ SameHeld
    BY <1>0, <2>2
  <2> QED
    BY <2>1, <2>3
<1>8. CASE ReleaseId(d)
  BY <1>0, <1>8 DEF ReleaseId, Releasing
<1>9. CASE FreeIrq(d) \/ ReleaseLocal(d)
  BY <1>0, <1>9 DEF FreeIrq, ReleaseLocal, Releasing
<1>10. CASE ReleaseChr(d)
  <2>1. drvdata' = drvdata /\ Same
    BY <1>0, <1>10 DEF ReleaseChr, Releasing
  <2>2. held' = held \/ \E f, what : what \in Chr /\ held' = [held EXCEPT ![f] = held[f] \ {what}]
    BY <1>10 DEF ReleaseChr, Chr
  <2>3. SameHeld
    BY <1>0, <2>2, ZenonT(60) DEF Full, Local, Buffers, Chr
  <2> QED
    BY <2>1, <2>3
<1>11. CASE Return(d)
  <2>1. /\ \E to : pc' = [pc EXCEPT ![d] = to]
        /\ UNCHANGED <<todo, probes, held, drvdata, id, scan, isr>>
    BY <1>11, Zenon DEF Return
  <2> QED
    BY <1>0, <2>1
<1>12. CASE IsrStep(d)
  BY <1>0, <1>12 DEF IsrStep, IsrEnter, IsrReturn
<1> QED
  BY <1>1, <1>2, <1>3, <1>4, <1>5, <1>6, <1>7, <1>8, <1>9, <1>10, <1>11, <1>12,
     Zenon DEF ProbeStep, Calls, ReleaseStep

LEMMA HoldsFrame ==
  ASSUME NEW e \in Device, HoldsOK(e),
         pc'[e] = pc[e], todo'[e] = todo[e], drvdata'[e] <=> drvdata[e], isr'[e] = isr[e],
         held'[e] \cap Full = held[e] \cap Full
  PROVE  HoldsOK(e)'
<1>1. \A what \in Local \cup {"irq"} : what \in held'[e] <=> what \in held[e]
  BY DEF Full
<1>2. held'[e] \cap Local = held[e] \cap Local
  BY <1>1
<1>3. ProbeHolds(e)'
  BY Zenon DEF HoldsOK, ProbeHolds
<1>4. RestHolds(e)'
  BY <1>2, Zenon DEF HoldsOK, RestHolds
<1>5. UnwindHolds(e)'
  BY <1>1 DEF HoldsOK, UnwindHolds, Left, Local
<1>6. RemoveHolds(e)'
  BY <1>1 DEF HoldsOK, RemoveHolds, Left, Local
<1> QED
  BY <1>3, <1>4, <1>5, <1>6, Zenon DEF HoldsOK

\* A call of probe that fails goes to a label that releases all that is held.
LEMMA FailHolds ==
  ASSUME TypeOK, NEW d \in Device, HoldsOK(d),
         NEW from, from \notin {"claim", "enter", "bound"}, NEW what \in SUBSET Things, NEW label,
         Fail(d, from, what, label), drvdata' = drvdata,
         NEW n \in 1..6, FailReleases[label] = LastOf(FailScript, n),
         "fpdev" \in held[d] \cup what => n >= 2,
         "regions" \in held[d] \cup what => n >= 3,
         "bars" \in held[d] \cup what => n >= 4,
         "vectors" \in held[d] \cup what => n >= 5
  PROVE  HoldsOK(d)'
<1>0. /\ pc \in [Device -> Points] /\ held \in [Device -> SUBSET Things]
      /\ todo \in [Device -> Seq(Releasable)]
  BY Zenon DEF TypeOK, Points, Things
<1>1. /\ pc[d] = from /\ pc'[d] = "unwind" /\ todo'[d] = LastOf(FailScript, n)
      /\ held'[d] = held[d] \cup what
  BY <1>0 DEF Fail
<1>2. Len(LastOf(FailScript, n)) = n
  <2>1. FailScript \in Seq(Releasable) /\ n \in 0..Len(FailScript)
    BY ScriptTypes
  <2> QED
    BY <2>1, LastOfSeq
<1>3. ~drvdata'[d]
  BY <1>1 DEF HoldsOK, RestHolds
<1>4. UnwindHolds(d)'
  BY <1>1, <1>2 DEF UnwindHolds, Left
<1> QED
  BY <1>1, <1>3, <1>4 DEF HoldsOK, ProbeHolds, RestHolds, RemoveHolds, LatePoints

LEMMA AcquireHolds ==
  ASSUME TypeOK, NEW d \in Device, NEW from, NEW to, NEW what, Acquire(d, from, what, to)
  PROVE  pc[d] = from /\ pc'[d] = to /\ held'[d] = held[d] \cup what
<1>0. /\ pc \in [Device -> Points] /\ held \in [Device -> SUBSET Things]
  BY Zenon DEF TypeOK, Points, Things
<1> QED
  BY <1>0 DEF Acquire

LEMMA CallsHold ==
  ASSUME TypeOK, NEW d \in Device, HoldsOK(d), Calls(d)
  PROVE  HoldsOK(d)'
<1>1. drvdata' = drvdata
  BY CallCases
<1>2. ASSUME NEW from \in ProbePoints \ {"claim", "enter"},
             NEW to \in ProbePoints \ {"claim", "enter"},
             NEW what, Acquire(d, from, what, to), ProbeHolds(d)'
      PROVE  HoldsOK(d)'
  <2>1. pc[d] = from /\ pc'[d] = to
    BY <1>2, AcquireHolds
  <2>2. to \notin {"out", "bound", "unwind", "remove", "claim", "enter"}
        /\ from \notin {"claim", "enter", "bound"}
    BY DEF ProbePoints
  <2>3. ~drvdata'[d]
    BY <1>1, <2>1, <2>2 DEF HoldsOK, RestHolds
  <2>4. RestHolds(d)' /\ UnwindHolds(d)' /\ RemoveHolds(d)'
    BY <2>1, <2>2, <2>3 DEF RestHolds, UnwindHolds, RemoveHolds
  <2> QED
    BY <1>2, <2>4, Zenon DEF HoldsOK
\* The calls that a label follows: what is held when one of them is reached.
<1>3. /\ pc[d] \in {"dma_mask", "kzalloc"} => held[d] \cap Full = G1
      /\ pc[d] = "request_regions" => held[d] \cap Full = G2
      /\ pc[d] = "map_bars" => held[d] \cap Full = G3
      /\ pc[d] \in {"vec_count", "alloc_vectors"} => held[d] \cap Full = G4
      /\ pc[d] = "request_irq" => held[d] \cap Full = Local
      /\ pc[d] = "blockdma" => held[d] \cap Full = G6
      /\ pc[d] = "sglistdma" => held[d] \cap Full = G7
      /\ pc[d] \in LatePoints => held[d] \cap Full = Full
  BY Zenon DEF HoldsOK, ProbeHolds
<1>4. \A x \in Full : x \in held[d] <=> x \in held[d] \cap Full
  OBVIOUS
<1>5. CASE DmaMask(d)
  <2>1. CASE Acquire(d, "dma_mask", {}, "kzalloc")
    <3>1. pc[d] = "dma_mask" /\ pc'[d] = "kzalloc" /\ held'[d] = held[d] \cup {}
      BY <2>1, AcquireHolds
    <3>2. held[d] \cap Full = G1
      BY <1>3, <3>1 DEF LatePoints
    <3>3. held'[d] \cap Full = G1
      BY <3>1, <3>2 DEF Full, Local, Buffers, G1
    <3>4. ProbeHolds(d)'
      BY <3>1, <3>3 DEF ProbeHolds, LatePoints
    <3> QED
      BY <1>2, <2>1, <3>4 DEF ProbePoints
  <2>2. CASE Fail(d, "dma_mask", {}, "fail_disable_device")
    <3>1. pc[d] = "dma_mask"
      BY <2>2 DEF Fail
    <3>2. held[d] \cap Full = G1
      BY <1>3, <3>1
    <3>3. (held[d] \cup {}) \cap {"fpdev", "regions", "bars", "vectors"} = {}
      BY <3>2 DEF Full, Local, Buffers, G1
    <3>4. {} \in SUBSET Things
      BY DEF Things, Local, Buffers
    <3>5. 1 \in 1..6 /\ FailReleases["fail_disable_device"] = LastOf(FailScript, 1)
      BY FailScripts
    <3> QED
      BY <1>1, <2>2, <3>3, <3>4, <3>5, FailHolds
  <2> QED
    BY <1>5, <2>1, <2>2, Zenon DEF DmaMask
<1>6. CASE Kzalloc(d)
  <2>1. CASE Acquire(d, "kzalloc", {"fpdev"}, "request_regions")
    <3>1. pc[d] = "kzalloc" /\ pc'[d] = "request_regions" /\ held'[d] = held[d] \cup {"fpdev"}
      BY <2>1, AcquireHolds
    <3>2. held[d] \cap Full = G1
      BY <1>3, <3>1 DEF LatePoints
    <3>3. held'[d] \cap Full = G2
      BY <3>1, <3>2 DEF Full, Local, Buffers, G1, G2
    <3>4. ProbeHolds(d)'
      BY <3>1, <3>3 DEF ProbeHolds, LatePoints
    <3> QED
      BY <1>2, <2>1, <3>4 DEF ProbePoints
  <2>2. CASE Fail(d, "kzalloc", {}, "fail_disable_device")
    <3>1. pc[d] = "kzalloc"
      BY <2>2 DEF Fail
    <3>2. held[d] \cap Full = G1
      BY <1>3, <3>1
    <3>3. (held[d] \cup {}) \cap {"fpdev", "regions", "bars", "vectors"} = {}
      BY <3>2 DEF Full, Local, Buffers, G1
    <3>4. {} \in SUBSET Things
      BY DEF Things, Local, Buffers
    <3>5. 1 \in 1..6 /\ FailReleases["fail_disable_device"] = LastOf(FailScript, 1)
      BY FailScripts
    <3> QED
      BY <1>1, <2>2, <3>3, <3>4, <3>5, FailHolds
  <2> QED
    BY <1>6, <2>1, <2>2, Zenon DEF Kzalloc
<1>7. CASE RequestRegions(d)
  <2>1. CASE Acquire(d, "request_regions", {"regions"}, "map_bars")
    <3>1. pc[d] = "request_regions" /\ pc'[d] = "map_bars" /\ held'[d] = held[d] \cup {"regions"}
      BY <2>1, AcquireHolds
    <3>2. held[d] \cap Full = G2
      BY <1>3, <3>1 DEF LatePoints
    <3>3. held'[d] \cap Full = G3
      BY <3>1, <3>2 DEF Full, Local, Buffers, G2, G3
    <3>4. ProbeHolds(d)'
      BY <3>1, <3>3 DEF ProbeHolds, LatePoints
    <3> QED
      BY <1>2, <2>1, <3>4 DEF ProbePoints
  <2>2. CASE Fail(d, "request_regions", {}, "fail_free_fpdev")
    <3>1. pc[d] = "request_regions"
      BY <2>2 DEF Fail
    <3>2. held[d] \cap Full = G2
      BY <1>3, <3>1
    <3>3. (held[d] \cup {}) \cap {"regions", "bars", "vectors"} = {}
      BY <3>2 DEF Full, Local, Buffers, G2
    <3>4. {} \in SUBSET Things
      BY DEF Things, Local, Buffers
    <3>5. 2 \in 1..6 /\ FailReleases["fail_free_fpdev"] = LastOf(FailScript, 2)
      BY FailScripts
    <3> QED
      BY <1>1, <2>2, <3>3, <3>4, <3>5, FailHolds
  <2> QED
    BY <1>7, <2>1, <2>2, Zenon DEF RequestRegions
<1>8. CASE MapBars(d)
  <2>1. CASE Acquire(d, "map_bars", {"bars"}, "vec_count")
    <3>1. pc[d] = "map_bars" /\ pc'[d] = "vec_count" /\ held'[d] = held[d] \cup {"bars"}
      BY <2>1, AcquireHolds
    <3>2. held[d] \cap Full = G3
      BY <1>3, <3>1 DEF LatePoints
    <3>3. held'[d] \cap Full = G4
      BY <3>1, <3>2 DEF Full, Local, Buffers, G3, G4
    <3>4. ProbeHolds(d)'
      BY <3>1, <3>3 DEF ProbeHolds, LatePoints
    <3> QED
      BY <1>2, <2>1, <3>4 DEF ProbePoints
  <2>2. ASSUME NEW part \in {{}, {"bars"}}, Fail(d, "map_bars", part, "fail_release_regions")
        PROVE  HoldsOK(d)'
    <3>1. pc[d] = "map_bars"
      BY <2>2 DEF Fail
    <3>2. held[d] \cap Full = G3
      BY <1>3, <3>1
    <3>3. (held[d] \cup part) \cap {"vectors"} = {}
      BY <3>2 DEF Full, Local, Buffers, G3
    <3>4. part \in SUBSET Things
      BY DEF Things, Local, Buffers
    <3>5. 4 \in 1..6 /\ FailReleases["fail_release_regions"] = LastOf(FailScript, 4)
      BY FailScripts
    <3> QED
      BY <1>1, <2>2, <3>3, <3>4, <3>5, FailHolds
  <2> QED
    BY <1>8, <2>1, <2>2, Zenon DEF MapBars
<1>9. CASE VecCount(d)
  <2>1. CASE Acquire(d, "vec_count", {}, "alloc_vectors")
    <3>1. pc[d] = "vec_count" /\ pc'[d] = "alloc_vectors" /\ held'[d] = held[d] \cup {}
      BY <2>1, AcquireHolds
    <3>2. held[d] \cap Full = G4
      BY <1>3, <3>1 DEF LatePoints
    <3>3. held'[d] \cap Full = G4
      BY <3>1, <3>2 DEF Full, Local, Buffers, G4
    <3>4. ProbeHolds(d)'
      BY <3>1, <3>3 DEF ProbeHolds, LatePoints
    <3> QED
      BY <1>2, <2>1, <3>4 DEF ProbePoints
  <2>2. CASE Fail(d, "vec_count", {}, "fail_release_regions")
    <3>1. pc[d] = "vec_count"
      BY <2>2 DEF Fail
    <3>2. held[d] \cap Full = G4
      BY <1>3, <3>1
    <3>3. (held[d] \cup {}) \cap {"vectors"} = {}
      BY <3>2 DEF Full, Local, Buffers, G4
    <3>4. {} \in SUBSET Things
      BY DEF Things, Local, Buffers
    <3>5. 4 \in 1..6 /\ FailReleases["fail_release_regions"] = LastOf(FailScript, 4)
      BY FailScripts
    <3> QED
      BY <1>1, <2>2, <3>3, <3>4, <3>5, FailHolds
  <2> QED
    BY <1>9, <2>1, <2>2, Zenon DEF VecCount
<1>10. CASE AllocVectors(d)
  <2>1. CASE Acquire(d, "alloc_vectors", {"vectors"}, "request_irq")
    <3>1. pc[d] = "alloc_vectors" /\ pc'[d] = "request_irq" /\ held'[d] = held[d] \cup {"vectors"}
      BY <2>1, AcquireHolds
    <3>2. held[d] \cap Full = G4
      BY <1>3, <3>1 DEF LatePoints
    <3>3. held'[d] \cap Full = Local
      BY <3>1, <3>2 DEF Full, Local, Buffers, G4
    <3>4. ProbeHolds(d)'
      BY <3>1, <3>3 DEF ProbeHolds, LatePoints
    <3> QED
      BY <1>2, <2>1, <3>4 DEF ProbePoints
  <2>2. CASE Fail(d, "alloc_vectors", {}, "fail_irq_vectors")
    <3>1. pc[d] = "alloc_vectors"
      BY <2>2 DEF Fail
    <3>2. {} \in SUBSET Things
      BY DEF Things, Local, Buffers
    <3>3. 5 \in 1..6 /\ FailReleases["fail_irq_vectors"] = LastOf(FailScript, 5)
      BY FailScripts
    <3> QED
      BY <1>1, <2>2, <3>2, <3>3, FailHolds
  <2> QED
    BY <1>10, <2>1, <2>2, Zenon DEF AllocVectors
<1>11. CASE RequestIrq(d)
  <2>1. CASE Acquire(d, "request_irq", {"irq"}, "blockdma")
    <3>1. pc[d] = "request_irq" /\ pc'[d] = "blockdma" /\ held'[d] = held[d] \cup {"irq"}
      BY <2>1, AcquireHolds
    <3>2. held[d] \cap Full = Local
      BY <1>3, <3>1 DEF LatePoints
    <3>3. held'[d] \cap Full = G6
      BY <3>1, <3>2 DEF Full, Local, Buffers, G6
    <3>4. ProbeHolds(d)'
      BY <3>1, <3>3 DEF ProbeHolds, LatePoints
    <3> QED
      BY <1>2, <2>1, <3>4 DEF ProbePoints
  <2>2. CASE Fail(d, "request_irq", {}, "fail_irq_vectors")
    <3>1. pc[d] = "request_irq"
      BY <2>2 DEF Fail
    <3>2. {} \in SUBSET Things
      BY DEF Things, Local, Buffers
    <3>3. 5 \in 1..6 /\ FailReleases["fail_irq_vectors"] = LastOf(FailScript, 5)
      BY FailScripts
    <3> QED
      BY <1>1, <2>2, <3>2, <3>3, FailHolds
  <2> QED
    BY <1>11, <2>1, <2>2, Zenon DEF RequestIrq
<1>12. CASE AllocateBlockDma(d)
  <2>1. CASE Acquire(d, "blockdma", {"c2h_bl", "h2c_bl"}, "sglistdma")
    <3>1. pc[d] = "blockdma" /\ pc'[d] = "sglistdma" /\ held'[d] = held[d] \cup {"c2h_bl", "h2c_bl"}
      BY <2>1, AcquireHolds
    <3>2. held[d] \cap Full = G6
      BY <1>3, <3>1 DEF LatePoints
    <3>3. held'[d] \cap Full = G7
      BY <3>1, <3>2 DEF Full, Local, Buffers, G6, G7
    <3>4. ProbeHolds(d)'
      BY <3>1, <3>3 DEF ProbeHolds, LatePoints
    <3> QED
      BY <1>2, <2>1, <3>4 DEF ProbePoints
  <2>2. ASSUME NEW part \in {{}, {"c2h_bl"}}, Fail(d, "blockdma", part, "fail_irq_vectors")
        PROVE  HoldsOK(d)'
    <3>1. pc[d] = "blockdma"
      BY <2>2 DEF Fail
    <3>2. part \in SUBSET Things
      BY DEF Things, Local, Buffers
    <3>3. 5 \in 1..6 /\ FailReleases["fail_irq_vectors"] = LastOf(FailScript, 5)
      BY FailScripts
    <3> QED
      BY <1>1, <2>2, <3>2, <3>3, FailHolds
  <2> QED
    BY <1>12, <2>1, <2>2, Zenon DEF AllocateBlockDma
<1>13. CASE AllocateSglistDma(d)
  <2>1. CASE Acquire(d, "sglistdma", {"c2h_sgl", "h2c_sgl"}, "alloc_chrdev")
    <3>1. pc[d] = "sglistdma" /\ pc'[d] = "alloc_chrdev" /\ held'[d] = held[d] \cup {"c2h_sgl", "h2c_sgl"}
      BY <2>1, AcquireHolds
    <3>2. held[d] \cap Full = G7
      BY <1>3, <3>1 DEF LatePoints
    <3>3. held'[d] \cap Full = Full
      BY <3>1, <3>2 DEF Full, Local, Buffers, G7
    <3>4. ProbeHolds(d)'
      BY <3>1, <3>3 DEF ProbeHolds, LatePoints
    <3> QED
      BY <1>2, <2>1, <3>4 DEF ProbePoints
  <2>2. ASSUME NEW part \in {{}, {"c2h_sgl"}}, Fail(d, "sglistdma", part, "fail_irq_vectors")
        PROVE  HoldsOK(d)'
    <3>1. pc[d] = "sglistdma"
      BY <2>2 DEF Fail
    <3>2. part \in SUBSET Things
      BY DEF Things, Local, Buffers
    <3>3. 5 \in 1..6 /\ FailReleases["fail_irq_vectors"] = LastOf(FailScript, 5)
      BY FailScripts
    <3> QED
      BY <1>1, <2>2, <3>2, <3>3, FailHolds
  <2> QED
    BY <1>13, <2>1, <2>2, Zenon DEF AllocateSglistDma
<1>14. CASE AllocChrdev(d)
  <2>1. CASE Acquire(d, "alloc_chrdev", {"region"}, "cdev_add")
    <3>1. pc[d] = "alloc_chrdev" /\ pc'[d] = "cdev_add" /\ held'[d] = held[d] \cup {"region"}
      BY <2>1, AcquireHolds
    <3>2. held[d] \cap Full = Full
      BY <1>3, <3>1 DEF LatePoints
    <3>3. held'[d] \cap Full = Full
      BY <3>1, <3>2 DEF Full, Local, Buffers
    <3>4. ProbeHolds(d)'
      BY <3>1, <3>3 DEF ProbeHolds, LatePoints
    <3> QED
      BY <1>2, <2>1, <3>4 DEF ProbePoints
  <2>2. CASE Fail(d, "alloc_chrdev", {}, "fail_irq_vectors")
    <3>1. pc[d] = "alloc_chrdev"
      BY <2>2 DEF Fail
    <3>2. {} \in SUBSET Things
      BY DEF Things, Local, Buffers
    <3>3. 5 \in 1..6 /\ FailReleases["fail_irq_vectors"] = LastOf(FailScript, 5)
      BY FailScripts
    <3> QED
      BY <1>1, <2>2, <3>2, <3>3, FailHolds
  <2> QED
    BY <1>14, <2>1, <2>2, Zenon DEF AllocChrdev
<1>15. CASE CdevAdd(d)
  <2>1. CASE Acquire(d, "cdev_add", {}, "class_create")
    <3>1. pc[d] = "cdev_add" /\ pc'[d] = "class_create" /\ held'[d] = held[d] \cup {}
      BY <2>1, AcquireHolds
    <3>2. held[d] \cap Full = Full
      BY <1>3, <3>1 DEF LatePoints
    <3>3. held'[d] \cap Full = Full
      BY <3>1, <3>2 DEF Full, Local, Buffers
    <3>4. ProbeHolds(d)'
      BY <3>1, <3>3 DEF ProbeHolds, LatePoints
    <3> QED
      BY <1>2, <2>1, <3>4 DEF ProbePoints
  <2>2. CASE Fail(d, "cdev_add", {}, "fail_alloc_chr")
    <3>1. pc[d] = "cdev_add"
      BY <2>2 DEF Fail
    <3>2. {} \in SUBSET Things
      BY DEF Things, Local, Buffers
    <3>3. 6 \in 1..6 /\ FailReleases["fail_alloc_chr"] = LastOf(FailScript, 6)
      BY FailScripts
    <3> QED
      BY <1>1, <2>2, <3>2, <3>3, FailHolds
  <2> QED
    BY <1>15, <2>1, <2>2, Zenon DEF CdevAdd
<1>16. CASE ClassCreate(d)
  <2>1. CASE Acquire(d, "class_create", {"class"}, "device_create")
    <3>1. pc[d] = "class_create" /\ pc'[d] = "device_create" /\ held'[d] = held[d] \cup {"class"}
      BY <2>1, AcquireHolds
    <3>2. held[d] \cap Full = Full
      BY <1>3, <3>1 DEF LatePoints
    <3>3. held'[d] \cap Full = Full
      BY <3>1, <3>2 DEF Full, Local, Buffers
    <3>4. ProbeHolds(d)'
      BY <3>1, <3>3 DEF ProbeHolds, LatePoints
    <3> QED
      BY <1>2, <2>1, <3>4 DEF ProbePoints
  <2>2. CASE Fail(d, "class_create", {}, "fail_alloc_chr")
    <3>1. pc[d] = "class_create"
      BY <2>2 DEF Fail
    <3>2. {} \in SUBSET Things
      BY DEF Things, Local, Buffers
    <3>3. 6 \in 1..6 /\ FailReleases["fail_alloc_chr"] = LastOf(FailScript, 6)
      BY FailScripts
    <3> QED
      BY <1>1, <2>2, <3>2, <3>3, FailHolds
  <2> QED
    BY <1>16, <2>1, <2>2, Zenon DEF ClassCreate
<1> QED
  BY <1>5, <1>6, <1>7, <1>8, <1>9, <1>10, <1>11, <1>12, <1>13, <1>14, <1>15, <1>16, Zenon
     DEF Calls

\* What a release takes tells how far the label, or remove, has come.
LEMMA UnwindTurn ==
  ASSUME TypeOK, NEW d \in Device, HoldsOK(d), pc[d] = "unwind",
         NEW what, Releasing(d, what)
  PROVE  /\ Left(d) \in 1..6 /\ Left(d)' = Left(d) - 1
         /\ todo'[d] = LastOf(FailScript, Left(d) - 1) /\ what = FailScript[7 - Left(d)]
         /\ pc'[d] = "unwind" /\ ~drvdata[d] /\ drvdata' = drvdata /\ isr' = isr
<1> DEFINE n == Left(d)
<1>0. /\ pc \in [Device -> Points] /\ todo \in [Device -> Seq(Releasable)]
  BY Zenon DEF TypeOK, Points
<1>1. n \in 0..6 /\ todo[d] = LastOf(FailScript, n) /\ ~drvdata[d]
  BY DEF HoldsOK, UnwindHolds, RestHolds
<1>2. /\ todo[d] # <<>> /\ Head(todo[d]) = what /\ todo'[d] = Tail(todo[d])
      /\ pc' = pc /\ drvdata' = drvdata /\ isr' = isr
  BY <1>0 DEF Releasing
<1>3. n = Len(todo[d]) /\ todo[d] \in Seq(Releasable)
  BY <1>0 DEF Left
<1>4. n \in 1..6
  BY <1>1, <1>2, <1>3
<1>5. /\ Head(todo[d]) = FailScript[6 - n + 1]
      /\ Tail(todo[d]) = LastOf(FailScript, n - 1)
  <2>1. FailScript \in Seq(Releasable) /\ Len(FailScript) = 6 /\ n \in 1..Len(FailScript)
    BY <1>4, ScriptTypes
  <2> HIDE DEF n
  <2> QED
    BY <1>1, <2>1, LastOfStep
<1>6. Len(todo'[d]) = n - 1
  BY <1>2, <1>3
<1> HIDE DEF n
<1>7. 6 - n + 1 = 7 - n
  BY <1>4
<1> QED
  BY <1>1, <1>2, <1>4, <1>5, <1>6, <1>7 DEF n, Left

LEMMA RemoveTurn ==
  ASSUME TypeOK, NEW d \in Device, HoldsOK(d), pc[d] = "remove",
         NEW what, Releasing(d, what)
  PROVE  /\ Left(d) \in 1..12 /\ Left(d)' = Left(d) - 1
         /\ todo'[d] = LastOf(RemoveScript, Left(d) - 1) /\ what = RemoveScript[13 - Left(d)]
         /\ pc'[d] = "remove" /\ ~drvdata[d] /\ drvdata' = drvdata /\ isr' = isr
<1> DEFINE n == Left(d)
<1>0. /\ pc \in [Device -> Points] /\ todo \in [Device -> Seq(Releasable)]
  BY Zenon DEF TypeOK, Points
<1>1. n \in 0..12 /\ todo[d] = LastOf(RemoveScript, n) /\ ~drvdata[d]
  BY DEF HoldsOK, RemoveHolds, RestHolds
<1>2. /\ todo[d] # <<>> /\ Head(todo[d]) = what /\ todo'[d] = Tail(todo[d])
      /\ pc' = pc /\ drvdata' = drvdata /\ isr' = isr
  BY <1>0 DEF Releasing
<1>3. n = Len(todo[d]) /\ todo[d] \in Seq(Releasable)
  BY <1>0 DEF Left
<1>4. n \in 1..12
  BY <1>1, <1>2, <1>3
<1>5. /\ Head(todo[d]) = RemoveScript[12 - n + 1]
      /\ Tail(todo[d]) = LastOf(RemoveScript, n - 1)
  <2>1. RemoveScript \in Seq(Releasable) /\ Len(RemoveScript) = 12
        /\ n \in 1..Len(RemoveScript)
    BY <1>4, ScriptTypes
  <2> HIDE DEF n
  <2> QED
    BY <1>1, <2>1, LastOfStep
<1>6. Len(todo'[d]) = n - 1
  BY <1>2, <1>3
<1> HIDE DEF n
<1>7. 12 - n + 1 = 13 - n
  BY <1>4
<1> QED
  BY <1>1, <1>2, <1>4, <1>5, <1>6, <1>7 DEF n, Left

\* The places of the scripts, read off.
LEMMA ScriptPlaces ==
  /\ \A n \in 1..6 :
       /\ FailScript[7 - n] = "enabled" <=> n = 1
       /\ FailScript[7 - n] = "fpdev" <=> n = 2
       /\ FailScript[7 - n] = "regions" <=> n = 3
       /\ FailScript[7 - n] = "bars" <=> n = 4
       /\ FailScript[7 - n] = "vectors" <=> n = 5
       /\ FailScript[7 - n] = "region" <=> n = 6
  /\ \A n \in 1..12 :
       /\ RemoveScript[13 - n] = "region" <=> n = 1
       /\ RemoveScript[13 - n] = "cdev" <=> n = 2
       /\ RemoveScript[13 - n] = "class" <=> n = 3
       /\ RemoveScript[13 - n] = "node" <=> n = 4
       /\ RemoveScript[13 - n] = "enabled" <=> n = 5
       /\ RemoveScript[13 - n] = "fpdev" <=> n = 6
       /\ RemoveScript[13 - n] = "regions" <=> n = 7
       /\ RemoveScript[13 - n] = "bars" <=> n = 8
       /\ RemoveScript[13 - n] = "vectors" <=> n = 9
       /\ RemoveScript[13 - n] = "irq" <=> n = 10
       /\ RemoveScript[13 - n] = "entry" <=> n = 11
       /\ RemoveScript[13 - n] = "used" <=> n = 12
<1>1. ASSUME NEW n \in 1..6
      PROVE  /\ FailScript[7 - n] = "enabled" <=> n = 1
             /\ FailScript[7 - n] = "fpdev" <=> n = 2
             /\ FailScript[7 - n] = "regions" <=> n = 3
             /\ FailScript[7 - n] = "bars" <=> n = 4
             /\ FailScript[7 - n] = "vectors" <=> n = 5
             /\ FailScript[7 - n] = "region" <=> n = 6
  BY DEF FailScript
<1>2. ASSUME NEW n \in 1..12
      PROVE  /\ RemoveScript[13 - n] = "region" <=> n = 1
             /\ RemoveScript[13 - n] = "cdev" <=> n = 2
             /\ RemoveScript[13 - n] = "class" <=> n = 3
             /\ RemoveScript[13 - n] = "node" <=> n = 4
             /\ RemoveScript[13 - n] = "enabled" <=> n = 5
             /\ RemoveScript[13 - n] = "fpdev" <=> n = 6
             /\ RemoveScript[13 - n] = "regions" <=> n = 7
             /\ RemoveScript[13 - n] = "bars" <=> n = 8
             /\ RemoveScript[13 - n] = "vectors" <=> n = 9
             /\ RemoveScript[13 - n] = "irq" <=> n = 10
             /\ RemoveScript[13 - n] = "entry" <=> n = 11
             /\ RemoveScript[13 - n] = "used" <=> n = 12
  BY DEF RemoveScript
<1> QED
  BY <1>1, <1>2

LEMMA ReleaseHolds ==
  ASSUME TypeOK, NEW d \in Device, HoldsOK(d), NEW what, Releasing(d, what),
         held'[d] \cap Full = (held[d] \cap Full) \ {what}, what = "irq" => isr[d] = "idle"
  PROVE  HoldsOK(d)'
<1>1. \A x \in Full : x \in held'[d] <=> x \in held[d] /\ x # what
  OBVIOUS
<1>2. Local \subseteq Full /\ "irq" \in Full
      /\ {"enabled", "fpdev", "regions", "bars", "vectors"} \subseteq Full
  BY DEF Full, Local
<1> HIDE DEF Full
<1>3. CASE pc[d] = "unwind"
  <2>1. /\ Left(d) \in 1..6 /\ Left(d)' = Left(d) - 1
        /\ todo'[d] = LastOf(FailScript, Left(d) - 1) /\ what = FailScript[7 - Left(d)]
        /\ pc'[d] = "unwind" /\ ~drvdata[d] /\ drvdata' = drvdata
    BY <1>3, UnwindTurn
  <2>2. /\ (what = "enabled" <=> Left(d) = 1) /\ (what = "fpdev" <=> Left(d) = 2)
        /\ (what = "regions" <=> Left(d) = 3) /\ (what = "bars" <=> Left(d) = 4)
        /\ (what = "vectors" <=> Left(d) = 5)
    BY <2>1, ScriptPlaces
  <2>3. /\ ("enabled" \in held[d] => Left(d) >= 1) /\ ("fpdev" \in held[d] => Left(d) >= 2)
        /\ ("regions" \in held[d] => Left(d) >= 3) /\ ("bars" \in held[d] => Left(d) >= 4)
        /\ ("vectors" \in held[d] => Left(d) >= 5)
    BY <1>3 DEF HoldsOK, UnwindHolds
  <2>4. UnwindHolds(d)'
    BY <1>1, <1>2, <2>1, <2>2, <2>3 DEF UnwindHolds
  <2> QED
    BY <2>1, <2>4 DEF HoldsOK, ProbeHolds, RestHolds, RemoveHolds, LatePoints
<1>4. CASE pc[d] = "remove"
  <2>1. /\ Left(d) \in 1..12 /\ Left(d)' = Left(d) - 1
        /\ todo'[d] = LastOf(RemoveScript, Left(d) - 1) /\ what = RemoveScript[13 - Left(d)]
        /\ pc'[d] = "remove" /\ ~drvdata[d] /\ drvdata' = drvdata /\ isr' = isr
    BY <1>4, RemoveTurn
  <2>2. /\ (what = "enabled" <=> Left(d) = 5) /\ (what = "fpdev" <=> Left(d) = 6)
        /\ (what = "regions" <=> Left(d) = 7) /\ (what = "bars" <=> Left(d) = 8)
        /\ (what = "vectors" <=> Left(d) = 9) /\ (what = "irq" <=> Left(d) = 10)
        /\ (what = "entry" <=> Left(d) = 11) /\ (what = "used" <=> Left(d) = 12)
    BY <2>1, ScriptPlaces
  <2>3. /\ Left(d) >= 10 => held[d] \cap Full = Full
        /\ Left(d) < 10 => "irq" \notin held[d] /\ isr[d] = "idle"
        /\ ("enabled" \in held[d] => Left(d) >= 5) /\ ("fpdev" \in held[d] => Left(d) >= 6)
        /\ ("regions" \in held[d] => Left(d) >= 7) /\ ("bars" \in held[d] => Left(d) >= 8)
        /\ ("vectors" \in held[d] => Left(d) >= 9)
    BY <1>4 DEF HoldsOK, RemoveHolds
  <2>4. Left(d)' >= 10 => held'[d] \cap Full = Full
    <3>1. "used" \notin Full /\ "entry" \notin Full
      BY DEF Full, Local, Buffers
    <3> QED
      BY <2>1, <2>2, <2>3, <3>1
  <2>5. Left(d)' < 10 => "irq" \notin held'[d] /\ isr'[d] = "idle"
    BY <1>1, <1>2, <2>1, <2>2, <2>3
  <2>6. RemoveHolds(d)'
    BY <1>1, <1>2, <2>1, <2>2, <2>3, <2>4, <2>5 DEF RemoveHolds
  <2> QED
    BY <2>1, <2>6 DEF HoldsOK, ProbeHolds, RestHolds, UnwindHolds, LatePoints
<1> QED
  BY <1>3, <1>4 DEF Releasing

LEMMA OwnHolds ==
  ASSUME TypeOK, NEW d \in Device, HoldsOK(d), IdKnown,
         ProbeStep(d) \/ ReleaseStep(d) \/ IsrStep(d)
  PROVE  HoldsOK(d)'
<1> USE DEF probeVars, idVars, chrVars
<1>0. /\ pc \in [Device -> Points] /\ held \in [Device -> SUBSET Things]
      /\ todo \in [Device -> Seq(Releasable)] /\ isr \in [Device -> {"idle", "running"}]
  BY Zenon DEF TypeOK, Points, Things
<1>d. drvdata \in [Device -> BOOLEAN]
  BY Zenon DEF TypeOK
<1>1. CASE PciEnable(d)
  <2>1. CASE UNCHANGED <<pc, held, error>>
    <3>1. UNCHANGED <<todo, drvdata, isr>>
      BY <1>1 DEF PciEnable
    <3> QED
      BY <2>1, <3>1, HoldsFrame
  <2>2. CASE pc' = [pc EXCEPT ![d] = "dma_mask"]
             /\ held' = [held EXCEPT ![d] = (@ \cap Chr) \cup {"enabled"}]
    <3>1. /\ pc[d] = "out" /\ pc'[d] = "dma_mask" /\ drvdata' = drvdata
          /\ held'[d] = (held[d] \cap Chr) \cup {"enabled"}
      BY <1>0, <1>1, <2>2 DEF PciEnable
    <3>2. held'[d] \cap Full = G1
      BY <3>1 DEF Full, Local, Buffers, Chr, G1
    <3>3. ~drvdata'[d]
      BY <3>1 DEF HoldsOK, RestHolds
    <3> QED
      BY <3>1, <3>2, <3>3
         DEF HoldsOK, ProbeHolds, RestHolds, UnwindHolds, RemoveHolds, LatePoints
  <2> QED
    BY <1>1, <2>1, <2>2, Zenon DEF PciEnable
<1>2. CASE Calls(d)
  BY <1>2, CallsHold
<1>3. CASE DeviceCreate(d)
  <2>1. pc[d] = "device_create" /\ pc'[d] = "set_drvdata" /\ drvdata' = drvdata
    BY <1>0, <1>3 DEF DeviceCreate
  <2>2. held' = held \/ held' = [held EXCEPT ![devt] = held[devt] \cup {"node"}]
    BY <1>3, Zenon DEF DeviceCreate
  <2>3. held'[d] = held[d] \/ held'[d] = held[d] \cup {"node"}
    BY <1>0, <2>2
  <2>4. held'[d] \cap Full = Full
    <3>1. held[d] \cap Full = Full
      BY <2>1 DEF HoldsOK, ProbeHolds, LatePoints
    <3> QED
      BY <2>3, <3>1
  <2>5. ~drvdata'[d]
    BY <2>1 DEF HoldsOK, RestHolds
  <2> QED
    BY <2>1, <2>4, <2>5
       DEF HoldsOK, ProbeHolds, RestHolds, UnwindHolds, RemoveHolds, LatePoints
<1>4. CASE SetDrvdata(d)
  <2>1. pc[d] = "set_drvdata" /\ pc'[d] = "claim" /\ held'[d] = held[d]
    BY <1>0, <1>4 DEF SetDrvdata, Acquire
  <2>2. drvdata'[d]
    BY <1>4, <1>d, Zenon DEF SetDrvdata
  <2>3. held'[d] \cap Full = Full
    BY <2>1 DEF HoldsOK, ProbeHolds, LatePoints
  <2> QED
    BY <2>1, <2>2, <2>3
       DEF HoldsOK, ProbeHolds, RestHolds, UnwindHolds, RemoveHolds, LatePoints
<1>5. CASE Claim(d)
  <2>1. pc[d] = "claim" /\ drvdata' = drvdata /\ held' = held
    BY <1>5 DEF Claim
  <2>2. \E to \in {"claim", "bound", "enter"} : pc' = [pc EXCEPT ![d] = to]
    <3>1. CASE used[scan[d]]
      BY <1>5, <3>1 DEF Claim
    <3>2. CASE ~used[scan[d]]
      BY <1>5, <3>2 DEF Claim
    <3> QED
      BY <3>1, <3>2
  <2>3. pc'[d] \in {"claim", "bound", "enter"}
    BY <1>0, <2>2
  <2>4. drvdata[d] /\ held[d] \cap Full = Full
    BY <2>1 DEF HoldsOK, ProbeHolds, RestHolds, LatePoints
  <2> QED
    BY <2>1, <2>3, <2>4
       DEF HoldsOK, ProbeHolds, RestHolds, UnwindHolds, RemoveHolds, LatePoints
<1>6. CASE EnterTable(d)
  <2>1. pc[d] = "enter" /\ pc'[d] = "bound" /\ drvdata' = drvdata /\ held' = held
    BY <1>0, <1>6 DEF EnterTable
  <2>2. drvdata[d] /\ held[d] \cap Full = Full
    BY <2>1 DEF HoldsOK, ProbeHolds, RestHolds, LatePoints
  <2> QED
    BY <2>1, <2>2
       DEF HoldsOK, ProbeHolds, RestHolds, UnwindHolds, RemoveHolds, LatePoints
<1>7. CASE Remove(d)
  <2>0. pc[d] = "bound" /\ held' = held
    BY <1>7 DEF Remove
  <2>1. CASE drvdata[d]
    <3>1. pc'[d] = "remove" /\ todo'[d] = RemoveTodo(d)
      BY <1>0, <1>7, <2>1 DEF Remove
    <3>2. ~drvdata'[d]
      BY <1>7, <1>d, <2>1, Zenon DEF Remove
    <3>3. todo'[d] = RemoveScript /\ RemoveScript = LastOf(RemoveScript, 12)
      BY <2>0, <2>1, <3>1, RemoveScripts DEF IdKnown
    <3>4. Left(d)' = 12
      BY <3>3, ScriptTypes DEF Left
    <3>5. held[d] \cap Full = Full
      BY <2>0, <2>1 DEF HoldsOK, RestHolds
    <3>6. RemoveHolds(d)'
      BY <2>0, <3>3, <3>4, <3>5 DEF RemoveHolds
    <3> QED
      BY <3>1, <3>2, <3>6 DEF HoldsOK, ProbeHolds, RestHolds, UnwindHolds, LatePoints
  <2>2. CASE ~drvdata[d]
    <3>1. pc'[d] = "out" /\ drvdata' = drvdata
      BY <1>0, <1>7, <2>2 DEF Remove
    <3>2. held'[d] \cap Local = {}
      BY <2>0, <2>2 DEF HoldsOK, RestHolds
    <3> QED
      BY <2>2, <3>1, <3>2
         DEF HoldsOK, ProbeHolds, RestHolds, UnwindHolds, RemoveHolds, LatePoints
  <2> QED
    BY <2>1, <2>2
<1>8. CASE ReleaseId(d)
  <2>1. \E what \in {"used", "entry"} : Releasing(d, what) /\ held' = held
    BY <1>8 DEF ReleaseId
  <2>2. "used" \notin Full /\ "entry" \notin Full
    BY DEF Full, Local, Buffers
  <2> QED
    BY <2>1, <2>2, ReleaseHolds
<1>9. CASE FreeIrq(d)
  <2>1. Releasing(d, "irq") /\ isr[d] = "idle" /\ held'[d] = held[d] \ {"irq"}
    BY <1>0, <1>9 DEF FreeIrq
  <2>2. held'[d] \cap Full = (held[d] \cap Full) \ {"irq"}
    BY <2>1
  <2> QED
    BY <2>1, <2>2, ReleaseHolds
<1>10. CASE ReleaseLocal(d)
  <2>1. PICK what \in Local : Releasing(d, what) /\ held' = [held EXCEPT ![d] = @ \ {what}]
    BY <1>10, Zenon DEF ReleaseLocal
  <2>2. what # "irq"
    BY DEF Local
  <2>3. held'[d] \cap Full = (held[d] \cap Full) \ {what}
    BY <1>0, <2>1
  <2> QED
    BY <2>1, <2>2, <2>3, ReleaseHolds
<1>11. CASE ReleaseChr(d)
  <2>1. PICK what \in Chr \cup {"cdev"} :
          Releasing(d, what) /\ (held' = held \/ \E f : held' = [held EXCEPT ![f] = held[f] \ {what}])
    BY <1>11 DEF ReleaseChr, Chr
  <2>2. what \notin Full /\ what # "irq"
    BY DEF Full, Local, Buffers, Chr
  <2>3. held'[d] = held[d] \/ held'[d] = held[d] \ {what}
    BY <1>0, <2>1
  <2>4. held'[d] \cap Full = (held[d] \cap Full) \ {what}
    BY <2>2, <2>3
  <2> QED
    BY <2>1, <2>2, <2>4, ReleaseHolds
<1>12. CASE Return(d)
  <2>1. /\ pc[d] \in {"unwind", "remove"} /\ todo[d] = <<>> /\ pc'[d] \in {"bound", "out"}
        /\ UNCHANGED <<held, drvdata>>
    <3>1. \E to \in {"bound", "out"} : pc' = [pc EXCEPT ![d] = to]
      BY <1>12, Zenon DEF Return
    <3> QED
      BY <1>0, <1>12, <3>1 DEF Return
  <2>2. Left(d) = 0
    BY <2>1 DEF Left
  <2>3. ~drvdata'[d]
    BY <2>1 DEF HoldsOK, RestHolds
  <2>4. held'[d] \cap Local = {}
    BY <2>1, <2>2 DEF HoldsOK, UnwindHolds, RemoveHolds, Local
  <2> QED
    BY <2>1, <2>3, <2>4
       DEF HoldsOK, ProbeHolds, RestHolds, UnwindHolds, RemoveHolds, LatePoints
<1>13. CASE IsrStep(d)
  <2>1. UNCHANGED <<pc, todo, held, drvdata>>
    BY <1>13 DEF IsrStep, IsrEnter, IsrReturn
  <2>2. isr'[d] = "running" => "irq" \in held[d]
    BY <1>0, <1>13 DEF IsrStep, IsrEnter, IsrReturn
  <2>3. pc[d] = "remove" /\ Left(d) < 10 => isr'[d] = "idle"
    <3>1. isr'[d] \in {"idle", "running"}
      BY <1>0, <1>13 DEF IsrStep, IsrEnter, IsrReturn
    <3> QED
      BY <2>2, <3>1 DEF HoldsOK, RemoveHolds
  <2>4. ProbeHolds(d)' /\ RestHolds(d)' /\ UnwindHolds(d)'
    BY <2>1 DEF HoldsOK, ProbeHolds, RestHolds, UnwindHolds, Left
  <2>5. RemoveHolds(d)'
    BY <2>1, <2>3 DEF HoldsOK, RemoveHolds, Left
  <2> QED
    BY <2>4, <2>5, Zenon DEF HoldsOK
<1> QED
  BY <1>1, <1>2, <1>3, <1>4, <1>5, <1>6, <1>7, <1>8, <1>9, <1>10, <1>11, <1>12, <1>13,
     Zenon DEF ProbeStep, Calls, ReleaseStep

-----------------------------------------------------------------------------
(***************************************************************************)
(* One device at a time.  The kernel refuses a second class of the same    *)
(* name, so a device that is past class_create keeps every other one from  *)
(* getting there until its remove destroys the class.                      *)
(***************************************************************************)
Past(d) ==
  \/ pc[d] \in {"device_create", "set_drvdata", "claim", "enter"}
  \/ pc[d] = "bound" /\ drvdata[d]
  \/ pc[d] = "remove" /\ Left(d) >= 3

HasClass(d) == "class" \in held[d]

ClassOK ==
  /\ \A d \in Device : Past(d) => HasClass(d)
  /\ \A d, e \in Device : HasClass(d) /\ HasClass(e) => d = e

Holds == \A d \in Device : HoldsOK(d)

\* How a step can change who holds the class, and who is past creating it.
LEMMA ClassCases ==
  ASSUME TypeOK, Holds, Holds', NEW d \in Device,
         ProbeStep(d) \/ ReleaseStep(d) \/ IsrStep(d)
  PROVE  \/ /\ \A e \in Device : ~HasClass(e)
            /\ \A e \in Device : HasClass(e)' <=> e = d
         \/ /\ Releasing(d, "class")
            /\ \A e \in Device : HasClass(e)' => HasClass(e)
         \/ /\ \A e \in Device : HasClass(e)' <=> HasClass(e)
            /\ Past(d)' => Past(d)
<1> USE DEF probeVars, idVars, chrVars
<1>0. /\ pc \in [Device -> Points] /\ held \in [Device -> SUBSET Things]
  BY Zenon DEF TypeOK, Points, Things
<1>d. drvdata \in [Device -> BOOLEAN]
  BY Zenon DEF TypeOK
<1> DEFINE Kept == \A e \in Device : HasClass(e)' <=> HasClass(e)
<1>1. CASE PciEnable(d)
  <2>1. held' = held \/ held' = [held EXCEPT ![d] = (held[d] \cap Chr) \cup {"enabled"}]
    BY <1>1, Zenon DEF PciEnable
  <2>2. Kept
    BY <1>0, <2>1 DEF HasClass, Chr
  <2>3. pc' = pc \/ pc' = [pc EXCEPT ![d] = "dma_mask"]
    BY <1>1, Zenon DEF PciEnable
  <2>4. UNCHANGED <<drvdata, todo>>
    BY <1>1 DEF PciEnable
  <2>5. Past(d)' => Past(d)
    BY <1>0, <2>3, <2>4 DEF Past, Left
  <2> QED
    BY <2>2, <2>5
<1>2. CASE ClassCreate(d)
  <2>1. CASE ~ClassExists /\ Acquire(d, "class_create", {"class"}, "device_create")
    <3>1. \A e \in Device : ~HasClass(e)
      BY <2>1 DEF ClassExists, HasClass
    <3>2. held' = [held EXCEPT ![d] = held[d] \cup {"class"}]
      BY <2>1 DEF Acquire
    <3>3. \A e \in Device : HasClass(e)' <=> e = d
      BY <1>0, <3>1, <3>2 DEF HasClass
    <3> QED
      BY <3>1, <3>3
  <2>2. CASE Fail(d, "class_create", {}, "fail_alloc_chr")
    <3>1. Kept /\ pc'[d] = "unwind"
      BY <1>0, <2>2 DEF Fail, HasClass
    <3> QED
      BY <3>1 DEF Past
  <2> QED
    BY <1>2, <2>1, <2>2 DEF ClassCreate
<1>3. CASE Calls(d) /\ ~ClassCreate(d)
  <2>1. \/ \E from \in ProbePoints, what \in SUBSET Things, label \in Labels :
              "class" \notin what /\ Fail(d, from, what, label)
        \/ \E from \in ProbePoints, to \in ProbePoints \ {"device_create", "set_drvdata", "claim", "enter"},
              what \in SUBSET Things : "class" \notin what /\ Acquire(d, from, what, to)
    <3> USE DEF ProbePoints, Things, Local, Buffers, Chr, Labels
    <3>1. CASE DmaMask(d) \/ Kzalloc(d) \/ RequestRegions(d) \/ MapBars(d)
      BY <3>1 DEF DmaMask, Kzalloc, RequestRegions, MapBars
    <3>2. CASE VecCount(d) \/ AllocVectors(d) \/ RequestIrq(d) \/ AllocateBlockDma(d)
      BY <3>2 DEF VecCount, AllocVectors, RequestIrq, AllocateBlockDma
    <3>3. CASE AllocateSglistDma(d) \/ AllocChrdev(d) \/ CdevAdd(d)
      BY <3>3 DEF AllocateSglistDma, AllocChrdev, CdevAdd
    <3> QED
      BY <1>3, <3>1, <3>2, <3>3 DEF Calls
  <2>2. CASE \E from \in ProbePoints, what \in SUBSET Things, label \in Labels :
               "class" \notin what /\ Fail(d, from, what, label)
    <3>1. Kept /\ pc'[d] = "unwind"
      BY <1>0, <2>2 DEF Fail, HasClass
    <3> QED
      BY <3>1 DEF Past
  <2>3. ASSUME NEW from \in ProbePoints,
               NEW to \in ProbePoints \ {"device_create", "set_drvdata", "claim", "enter"},
               NEW what \in SUBSET Things, "class" \notin what, Acquire(d, from, what, to)
        PROVE  Kept /\ ~Past(d)'
    <3>1. Kept /\ pc'[d] = to
      BY <1>0, <2>3 DEF Acquire, HasClass
    <3>2. to \notin {"bound", "remove"}
      BY DEF ProbePoints
    <3> QED
      BY <3>1, <3>2 DEF Past
  <2> QED
    BY <2>1, <2>2, <2>3
<1>4. CASE DeviceCreate(d)
  <2>1. held' = held \/ held' = [held EXCEPT ![devt] = held[devt] \cup {"node"}]
    BY <1>4, Zenon DEF DeviceCreate
  <2>2. Kept
    <3>1. CASE held' = held
      BY <3>1 DEF HasClass
    <3>2. CASE held' = [held EXCEPT ![devt] = held[devt] \cup {"node"}]
      <4>1. \A e \in Device : held'[e] = held[e] \/ held'[e] = held[e] \cup {"node"}
        BY <1>0, <3>2
      <4> QED
        BY <4>1 DEF HasClass
    <3> QED
      BY <2>1, <3>1, <3>2
  <2>3. Past(d)
    BY <1>4 DEF DeviceCreate, Past
  <2> QED
    BY <2>2, <2>3
<1>5. CASE SetDrvdata(d) \/ Claim(d) \/ EnterTable(d)
  <2>1. held' = held
    <3>1. CASE SetDrvdata(d)
      BY <1>0, <3>1 DEF SetDrvdata, Acquire
    <3>2. CASE Claim(d) \/ EnterTable(d)
      BY <3>2 DEF Claim, EnterTable
    <3> QED
      BY <1>5, <3>1, <3>2
  <2>2. Past(d)
    BY <1>5 DEF SetDrvdata, Acquire, Claim, EnterTable, Past
  <2> QED
    BY <2>1, <2>2 DEF HasClass
<1>6. CASE Remove(d)
  <2>1. held' = held /\ pc[d] = "bound"
    BY <1>6 DEF Remove
  <2>2. drvdata[d] => Past(d)
    BY <2>1 DEF Past
  <2>3. ~drvdata[d] => ~Past(d)'
    BY <1>0, <1>6 DEF Remove, Past
  <2> QED
    BY <2>1, <2>2, <2>3 DEF HasClass
<1>7. ASSUME NEW what, Releasing(d, what), what # "class",
             \A e \in Device : HasClass(e)' <=> HasClass(e)
      PROVE  /\ \A e \in Device : HasClass(e)' <=> HasClass(e)
             /\ Past(d)' => Past(d)
  <2>0. HoldsOK(d)
    BY DEF Holds
  <2>1. CASE pc[d] = "remove"
    <3>1. Left(d) \in 1..12 /\ Left(d)' = Left(d) - 1 /\ pc'[d] = "remove"
      BY <1>7, <2>0, <2>1, RemoveTurn
    <3> QED
      BY <1>7, <2>1, <3>1 DEF Past
  <2>2. CASE pc[d] = "unwind"
    BY <1>7, <2>2 DEF Releasing, Past
  <2> QED
    BY <1>7, <2>1, <2>2 DEF Releasing
<1>8. CASE ReleaseId(d)
  <2>1. \E what \in {"used", "entry"} : Releasing(d, what) /\ held' = held
    BY <1>8 DEF ReleaseId
  <2> QED
    BY <1>7, <2>1 DEF HasClass
<1>9. CASE FreeIrq(d)
  <2>1. Releasing(d, "irq") /\ held' = [held EXCEPT ![d] = held[d] \ {"irq"}]
    BY <1>9 DEF FreeIrq
  <2>2. Kept
    BY <1>0, <2>1 DEF HasClass
  <2> QED
    BY <1>7, <2>1, <2>2
<1>10. CASE ReleaseLocal(d)
  <2>1. PICK what \in Local : Releasing(d, what)
                              /\ held' = [held EXCEPT ![d] = held[d] \ {what}]
    BY <1>10, Zenon DEF ReleaseLocal
  <2>2. what # "class"
    BY DEF Local
  <2>3. Kept
    BY <1>0, <2>1, <2>2 DEF HasClass
  <2> QED
    BY <1>7, <2>1, <2>2, <2>3
<1>11. CASE ReleaseChr(d)
  <2>1. PICK what \in Chr \cup {"cdev"} :
          Releasing(d, what) /\ (held' = held \/ \E f : held' = [held EXCEPT ![f] = held[f] \ {what}])
    BY <1>11 DEF ReleaseChr, Chr
  <2>2. \A e \in Device : held'[e] = held[e] \/ held'[e] = held[e] \ {what}
    BY <1>0, <2>1
  <2>3. CASE what = "class"
    BY <2>1, <2>2, <2>3 DEF HasClass
  <2>4. CASE what # "class"
    <3>1. Kept
      BY <2>2, <2>4 DEF HasClass
    <3> QED
      BY <1>7, <2>1, <2>4, <3>1
  <2> QED
    BY <2>3, <2>4
<1>12. CASE Return(d)
  <2>1. held' = held /\ drvdata' = drvdata /\ pc[d] \in {"unwind", "remove"}
    BY <1>12 DEF Return
  <2>2. pc'[d] \in {"bound", "out"}
    BY <1>0, <1>12 DEF Return
  <2>3. ~drvdata'[d]
    BY <2>1 DEF Holds, HoldsOK, RestHolds
  <2> QED
    BY <2>1, <2>2, <2>3 DEF HasClass, Past
<1>13. CASE IsrStep(d)
  BY <1>13 DEF IsrStep, IsrEnter, IsrReturn, HasClass, Past, Left
<1> QED
  BY <1>1, <1>2, <1>3, <1>4, <1>5, <1>6, <1>8, <1>9, <1>10, <1>11, <1>12, <1>13,
     Zenon DEF ProbeStep, Calls, ReleaseStep

LEMMA ClassStep ==
  ASSUME TypeOK, Holds, Holds', ClassOK, NEW d \in Device,
         ProbeStep(d) \/ ReleaseStep(d) \/ IsrStep(d)
  PROVE  ClassOK'
<1>1. ASSUME NEW e \in Device, e # d PROVE Past(e)' <=> Past(e)
  BY <1>1, OthersFrame, Zenon DEF Past, Left
<1>2. CASE /\ \A e \in Device : ~HasClass(e)
           /\ \A e \in Device : HasClass(e)' <=> e = d
  <2>1. \A e \in Device : e # d => ~Past(e)'
    BY <1>1, <1>2 DEF ClassOK
  <2> QED
    BY <1>2, <2>1 DEF ClassOK
<1>3. CASE /\ Releasing(d, "class")
           /\ \A e \in Device : HasClass(e)' => HasClass(e)
  <2>0. HoldsOK(d)
    BY DEF Holds
  <2>1. pc[d] = "remove"
    <3>1. CASE pc[d] = "unwind"
      <4>1. Left(d) \in 1..6 /\ "class" = FailScript[7 - Left(d)]
        BY <1>3, <2>0, <3>1, UnwindTurn
      <4>2. \A n \in 1..6 : FailScript[7 - n] # "class"
        BY DEF FailScript
      <4> QED
        BY <4>1, <4>2
    <3> QED
      BY <1>3, <3>1 DEF Releasing
  <2>2. Left(d) \in 1..12 /\ Left(d)' = Left(d) - 1 /\ pc'[d] = "remove"
        /\ "class" = RemoveScript[13 - Left(d)]
    BY <1>3, <2>0, <2>1, RemoveTurn
  <2>3. Left(d) = 3
    BY <2>2, ScriptPlaces
  <2>4. Past(d) /\ ~Past(d)'
    BY <2>1, <2>2, <2>3 DEF Past
  <2>5. \A e \in Device : e # d => ~Past(e)'
    BY <1>1, <2>4 DEF ClassOK
  <2> QED
    BY <1>3, <2>4, <2>5 DEF ClassOK
<1>4. CASE /\ \A e \in Device : HasClass(e)' <=> HasClass(e)
           /\ Past(d)' => Past(d)
  <2>1. \A e \in Device : Past(e)' => Past(e)
    BY <1>1, <1>4
  <2> QED
    BY <1>4, <2>1 DEF ClassOK
<1> QED
  BY <1>2, <1>3, <1>4, ClassCases

\* Two devices are never past creating the class at the same time.
LEMMA OnePast ==
  ASSUME ClassOK, NEW d \in Device, NEW e \in Device, Past(d), Past(e)
  PROVE  d = e
BY DEF ClassOK

-----------------------------------------------------------------------------
(***************************************************************************)
(* The ids.  The one device that can look for an id finds 0 free, and has  *)
(* given it back before the next one looks.                                *)
(***************************************************************************)
Listed(d) == (pc[d] = "bound" /\ drvdata[d]) \/ (pc[d] = "remove" /\ Left(d) = 12)
Leaving(d) == pc[d] = "remove" /\ Left(d) = 11
HasId(d) == pc[d] = "enter" \/ Listed(d) \/ Leaving(d)

NoneUsed == \A i \in Id : ~used[i]
ZeroUsed == \A i \in Id : used[i] <=> i = 0
NoneListed == \A i \in Id : table[i] = None
OnlyListed(d) == \A i \in Id : table[i] = IF i = 0 THEN d ELSE None

IdsOK ==
  /\ (\A d \in Device : ~HasId(d)) => NoneUsed /\ NoneListed
  /\ \A d \in Device :
       /\ pc[d] = "claim" => scan[d] = 0
       /\ HasId(d) => id[d] = 0
       /\ pc[d] = "enter" => ZeroUsed /\ NoneListed
       /\ Listed(d) => ZeroUsed /\ OnlyListed(d)
       /\ Leaving(d) => NoneUsed /\ OnlyListed(d)

LEMMA IdsKnown == ASSUME IdsOK PROVE IdKnown
<1>1. 0 \in Id
  BY NumFpgasAssumption DEF Id
<1>2. \A d \in Device : HasId(d) => id[d] = 0
  BY Zenon DEF IdsOK
<1>3. ASSUME NEW d \in Device, pc[d] = "bound", drvdata[d] PROVE HasId(d)
  <2>1. Listed(d)
    BY <1>3 DEF Listed
  <2> QED
    BY <2>1 DEF HasId
<1> QED
  BY <1>1, <1>2, <1>3 DEF IdKnown

LEMMA IdsFrame ==
  ASSUME IdsOK, UNCHANGED <<used, table>>,
         \A e \in Device : /\ (pc[e] = "enter")' <=> pc[e] = "enter"
                           /\ Listed(e)' <=> Listed(e)
                           /\ Leaving(e)' <=> Leaving(e)
                           /\ HasId(e) => id'[e] = id[e]
                           /\ (pc[e] = "claim")' => scan'[e] = 0
  PROVE  IdsOK'
<1>1. NoneUsed' <=> NoneUsed
  BY DEF NoneUsed
<1>2. ZeroUsed' <=> ZeroUsed
  BY DEF ZeroUsed
<1>3. NoneListed' <=> NoneListed
  BY DEF NoneListed
<1>4. \A e \in Device : OnlyListed(e)' <=> OnlyListed(e)
  BY DEF OnlyListed
<1>5. \A e \in Device : HasId(e)' <=> HasId(e)
  BY DEF HasId
<1> HIDE DEF NoneUsed, ZeroUsed, NoneListed, OnlyListed, HasId, Listed, Leaving
<1> QED
  BY <1>1, <1>2, <1>3, <1>4, <1>5 DEF IdsOK

\* How a step can move the ids: the four changes of the table of ids, or none.
Quiet ==
  /\ UNCHANGED <<used, table>>
  /\ \A e \in Device : /\ (pc[e] = "enter")' <=> pc[e] = "enter"
                       /\ Listed(e)' <=> Listed(e)
                       /\ HasId(e) => id'[e] = id[e]

Takes(d) == pc'[d] = "enter" /\ table' = table /\ \A e \in Device : ~HasId(e)
Enters(d) == pc[d] = "enter" /\ Listed(d)'
Gives(d) == Listed(d) /\ Leaving(d)' /\ table' = table
Strikes(d) == Leaving(d) /\ \A e \in Device : ~HasId(e)'

\* The ids and the table of a step after which d is the one that has an id.
LEMMA IdsAlone ==
  ASSUME ClassOK', NEW d \in Device, HasId(d)', id'[d] = 0, pc'[d] # "claim",
         (pc[d] = "enter")' => ZeroUsed' /\ NoneListed',
         Listed(d)' => ZeroUsed' /\ OnlyListed(d)',
         Leaving(d)' => NoneUsed' /\ OnlyListed(d)'
  PROVE  IdsOK'
<1>1. \A e \in Device : HasId(e)' => Past(e)'
  BY DEF HasId, Listed, Leaving, Past
<1>2. ASSUME NEW e \in Device, e # d PROVE ~HasId(e)' /\ pc'[e] # "claim"
  <2>1. Past(d)' /\ ~Past(e)'
    BY <1>1, <1>2 DEF ClassOK
  <2> QED
    BY <1>1, <2>1 DEF Past
<1>3. \A e \in Device : (pc[e] = "enter")' \/ Listed(e)' \/ Leaving(e)' => HasId(e)'
  BY DEF HasId
<1> HIDE DEF NoneUsed, ZeroUsed, NoneListed, OnlyListed, HasId, Listed, Leaving
<1> QED
  BY <1>2, <1>3 DEF IdsOK

LEMMA IdsStep ==
  ASSUME TypeOK, Holds, Holds', ClassOK, ClassOK', IdsOK, NEW d \in Device,
         ProbeStep(d) \/ ReleaseStep(d) \/ IsrStep(d)
  PROVE  IdsOK' /\ (Quiet \/ Takes(d) \/ Enters(d) \/ Gives(d) \/ Strikes(d))
<1> USE DEF probeVars, idVars, chrVars
<1>0. /\ pc \in [Device -> Points] /\ todo \in [Device -> Seq(Releasable)]
      /\ id \in [Device -> Id \cup {NoId}] /\ scan \in [Device -> Id \cup {NumFpgas}]
      /\ table \in [Id -> Device \cup {None}]
  BY Zenon DEF TypeOK, Points
<1>b. drvdata \in [Device -> BOOLEAN] /\ used \in [Id -> BOOLEAN]
  BY Zenon DEF TypeOK
<1>c. 0 \in Id
  BY NumFpgasAssumption DEF Id
<1>d. HoldsOK(d) /\ HoldsOK(d)'
  BY DEF Holds
\* Another device stays where it is.
<1>e. ASSUME NEW e \in Device, e # d
      PROVE  /\ (pc[e] = "enter")' <=> pc[e] = "enter"
             /\ Listed(e)' <=> Listed(e)
             /\ Leaving(e)' <=> Leaving(e)
             /\ HasId(e) => id'[e] = id[e]
             /\ (pc[e] = "claim")' => scan'[e] = 0
  <2>1. /\ pc'[e] = pc[e] /\ todo'[e] = todo[e] /\ (drvdata'[e] <=> drvdata[e])
        /\ id'[e] = id[e] /\ scan'[e] = scan[e]
    BY <1>e, OthersFrame
  <2>2. pc[e] = "claim" => scan[e] = 0
    BY Zenon DEF IdsOK
  <2> QED
    BY <2>1, <2>2, Zenon DEF Listed, Leaving, Left
\* So if d does as well, the ids are as before.
<1>f. ASSUME UNCHANGED <<used, table>>,
             (pc[d] = "enter")' <=> pc[d] = "enter", Listed(d)' <=> Listed(d),
             Leaving(d)' <=> Leaving(d), HasId(d) => id'[d] = id[d],
             (pc[d] = "claim")' => scan'[d] = 0
      PROVE  IdsOK' /\ Quiet
  <2>1. IdsOK'
    BY <1>e, <1>f, IdsFrame, Zenon
  <2>2. ASSUME NEW e \in Device
        PROVE  /\ (pc[e] = "enter")' <=> pc[e] = "enter"
               /\ Listed(e)' <=> Listed(e)
               /\ HasId(e) => id'[e] = id[e]
    <3>1. CASE e = d
      BY <1>f, <3>1, Zenon
    <3>2. CASE e # d
      BY <1>e, <3>2, Zenon
    <3> QED
      BY <3>1, <3>2, Zenon
  <2>3. Quiet
    BY <1>f, <2>2, Zenon DEF Quiet
  <2> QED
    BY <2>1, <2>3
<1>g. \A e \in Device : HasId(e) => Past(e)
  BY DEF HasId, Listed, Leaving, Past
<1>h. ~drvdata[d] \/ pc[d] \in {"claim", "enter", "bound"}
  BY <1>d, Zenon DEF HoldsOK, RestHolds
<1>i. (~drvdata[d] \/ pc[d] \in {"claim", "enter", "bound"})'
  BY <1>d, Zenon DEF HoldsOK, RestHolds
<1>1. CASE PciEnable(d)
  <2>1. UNCHANGED <<used, table, todo, drvdata, id>> /\ pc[d] = "out"
    BY <1>1 DEF PciEnable
  <2>2. pc'[d] \in {"out", "dma_mask"}
    <3>1. pc' = pc \/ pc' = [pc EXCEPT ![d] = "dma_mask"]
      BY <1>1, Zenon DEF PciEnable
    <3> QED
      BY <1>0, <2>1, <3>1
  <2> QED
    BY <1>f, <2>1, <2>2 DEF Listed, Leaving, HasId
<1>2. CASE Calls(d)
  <2>1. UNCHANGED <<drvdata, id, scan, used, table>>
    BY <1>2, CallCases
  <2>2. pc[d] \in ProbePoints \ {"claim", "enter"} /\ pc'[d] \in (ProbePoints \ {"claim", "enter"}) \cup {"unwind"}
    <3>1. pc[d] \in ProbePoints \ {"claim", "enter"}
      <4> USE DEF ProbePoints, Acquire, Fail
      <4>1. CASE DmaMask(d) \/ Kzalloc(d) \/ RequestRegions(d) \/ MapBars(d)
        BY <4>1 DEF DmaMask, Kzalloc, RequestRegions, MapBars
      <4>2. CASE VecCount(d) \/ AllocVectors(d) \/ RequestIrq(d) \/ AllocateBlockDma(d)
        BY <4>2 DEF VecCount, AllocVectors, RequestIrq, AllocateBlockDma
      <4>3. CASE AllocateSglistDma(d) \/ AllocChrdev(d) \/ CdevAdd(d) \/ ClassCreate(d)
        BY <4>3 DEF AllocateSglistDma, AllocChrdev, CdevAdd, ClassCreate
      <4> QED
        BY <1>2, <4>1, <4>2, <4>3 DEF Calls
    <3>2. pc'[d] \in (ProbePoints \ {"claim", "enter"}) \cup {"unwind"}
      <4> USE DEF ProbePoints, Acquire, Fail
      <4>1. CASE DmaMask(d) \/ Kzalloc(d) \/ RequestRegions(d) \/ MapBars(d)
        BY <1>0, <4>1 DEF DmaMask, Kzalloc, RequestRegions, MapBars
      <4>2. CASE VecCount(d) \/ AllocVectors(d) \/ RequestIrq(d) \/ AllocateBlockDma(d)
        BY <1>0, <4>2 DEF VecCount, AllocVectors, RequestIrq, AllocateBlockDma
      <4>3. CASE AllocateSglistDma(d) \/ AllocChrdev(d) \/ CdevAdd(d) \/ ClassCreate(d)
        BY <1>0, <4>3 DEF AllocateSglistDma, AllocChrdev, CdevAdd, ClassCreate
      <4> QED
        BY <1>2, <4>1, <4>2, <4>3 DEF Calls
    <3> QED
      BY <3>1, <3>2
  <2>3. pc[d] \notin {"claim", "enter", "bound", "remove"}
        /\ pc'[d] \notin {"claim", "enter", "bound", "remove"}
    BY <2>2 DEF ProbePoints
  <2> QED
    BY <1>f, <2>1, <2>3 DEF Listed, Leaving
<1>3. CASE DeviceCreate(d)
  <2>1. UNCHANGED <<drvdata, id, scan, used, table>> /\ pc[d] = "device_create"
        /\ pc'[d] = "set_drvdata"
    BY <1>0, <1>3 DEF DeviceCreate
  <2> QED
    BY <1>f, <2>1 DEF Listed, Leaving
<1>4. CASE SetDrvdata(d)
  <2>1. UNCHANGED <<used, table>> /\ pc[d] = "set_drvdata" /\ pc'[d] = "claim" /\ scan'[d] = 0
    BY <1>0, <1>4 DEF SetDrvdata, Acquire
  <2> QED
    BY <1>f, <2>1 DEF Listed, Leaving, HasId
<1>5. CASE Claim(d)
  <2>1. pc[d] = "claim" /\ scan[d] = 0 /\ ~HasId(d)
    BY <1>5, Zenon DEF Claim, IdsOK, HasId, Listed, Leaving
  <2>2. \A e \in Device : ~HasId(e)
    <3>1. Past(d)
      BY <2>1 DEF Past
    <3> QED
      BY <1>g, <2>1, <3>1, OnePast
  <2>3. NoneUsed /\ NoneListed
    BY <2>2, Zenon DEF IdsOK
  <2>4. ~used[scan[d]]
    BY <1>c, <2>1, <2>3 DEF NoneUsed
  <2>5. /\ used' = [used EXCEPT ![scan[d]] = TRUE] /\ id' = [id EXCEPT ![d] = scan[d]]
        /\ pc' = [pc EXCEPT ![d] = "enter"] /\ table' = table
    BY <1>5, <2>4, Zenon DEF Claim
  <2>6. pc'[d] = "enter" /\ id'[d] = 0 /\ NoneListed'
    BY <1>0, <2>1, <2>3, <2>5 DEF NoneListed
  <2>7. ZeroUsed'
    <3>1. used' = [i \in Id |-> IF i = 0 THEN TRUE ELSE used[i]]
      BY <1>b, <2>1, <2>5, Zenon
    <3> QED
      BY <2>3, <3>1 DEF NoneUsed, ZeroUsed
  <2>8. HasId(d)' /\ ~Listed(d)' /\ ~Leaving(d)'
    BY <2>6 DEF HasId, Listed, Leaving
  <2>9. Takes(d)
    BY <2>2, <2>5, <2>6 DEF Takes
  <2> QED
    BY <2>6, <2>7, <2>8, <2>9, IdsAlone
<1>6. CASE EnterTable(d)
  <2>1. pc[d] = "enter" /\ pc'[d] = "bound" /\ UNCHANGED <<used, drvdata, id>>
        /\ table' = [table EXCEPT ![id[d]] = d]
    BY <1>0, <1>6 DEF EnterTable
  <2>2. ZeroUsed /\ NoneListed /\ id[d] = 0
    BY <2>1, Zenon DEF IdsOK, HasId
  <2>3. drvdata[d]
    BY <1>d, <2>1 DEF HoldsOK, RestHolds
  <2>4. HasId(d)' /\ Listed(d)' /\ ~Leaving(d)'
    <3>1. drvdata'[d]
      BY <2>1, <2>3
    <3>2. Listed(d)' /\ ~Leaving(d)'
      BY <2>1, <3>1 DEF Listed, Leaving
    <3> QED
      BY <3>2 DEF HasId
  <2>5. ZeroUsed'
    BY <2>1, <2>2 DEF ZeroUsed
  <2>6. OnlyListed(d)'
    BY <1>0, <2>1, <2>2 DEF NoneListed, OnlyListed
  <2>7. Enters(d)
    BY <2>1, <2>4 DEF Enters
  <2> QED
    BY <2>1, <2>2, <2>4, <2>5, <2>6, <2>7, IdsAlone
<1>7. CASE Remove(d)
  <2>1. pc[d] = "bound" /\ UNCHANGED <<used, table, id>>
    BY <1>7 DEF Remove
  <2>2. CASE drvdata[d]
    <3>1. pc'[d] = "remove" /\ todo'[d] = RemoveTodo(d)
      BY <1>0, <1>7, <2>2 DEF Remove
    <3>2. id[d] \in Id
      BY <2>1, <2>2, IdsKnown DEF IdKnown
    <3>3. Left(d)' = 12
      BY <3>1, <3>2, RemoveScripts, ScriptTypes DEF Left
    <3>4. Listed(d) /\ ~Leaving(d)
      BY <2>1, <2>2 DEF Listed, Leaving
    <3>5. Listed(d)' /\ ~Leaving(d)'
      BY <3>1, <3>3 DEF Listed, Leaving
    <3> QED
      BY <1>f, <2>1, <3>1, <3>4, <3>5
  <2>3. CASE ~drvdata[d]
    <3>1. pc'[d] = "out"
      BY <1>0, <1>7, <2>3 DEF Remove
    <3> QED
      BY <1>f, <2>1, <2>3, <3>1 DEF Listed, Leaving
  <2> QED
    BY <2>2, <2>3
<1>8. ASSUME NEW what, Releasing(d, what), what \in {"used", "entry"}
      PROVE  /\ pc[d] = "remove" /\ pc'[d] = "remove" /\ id' = id
             /\ what = "used" => Left(d) = 12 /\ Left(d)' = 11
             /\ what = "entry" => Left(d) = 11 /\ Left(d)' = 10
  <2>1. pc[d] = "remove"
    <3>1. CASE pc[d] = "unwind"
      <4>1. Left(d) \in 1..6 /\ what = FailScript[7 - Left(d)]
        BY <1>8, <1>d, <3>1, UnwindTurn
      <4>2. \A n \in 1..6 : FailScript[7 - n] \notin {"used", "entry"}
        BY DEF FailScript
      <4> QED
        BY <1>8, <4>1, <4>2
    <3> QED
      BY <1>8, <3>1 DEF Releasing
  <2>2. Left(d) \in 1..12 /\ Left(d)' = Left(d) - 1 /\ pc'[d] = "remove"
        /\ what = RemoveScript[13 - Left(d)]
    BY <1>8, <1>d, <2>1, RemoveTurn
  <2>3. /\ what = "used" => Left(d) = 12
        /\ what = "entry" => Left(d) = 11
    BY <2>2, ScriptPlaces
  <2>4. id' = id
    BY <1>8 DEF Releasing
  <2> QED
    BY <2>1, <2>2, <2>3, <2>4
<1>9. CASE ReleaseId(d)
  <2>1. CASE Releasing(d, "used") /\ table' = table /\ used' = [used EXCEPT ![id[d]] = FALSE]
    <3>1. pc[d] = "remove" /\ Left(d) = 12 /\ pc'[d] = "remove" /\ Left(d)' = 11 /\ id' = id
      BY <1>8, <2>1
    <3>2. Listed(d) /\ HasId(d) /\ Leaving(d)' /\ HasId(d)' /\ ~Listed(d)'
      BY <3>1 DEF Listed, HasId, Leaving
    <3>3. id[d] = 0 /\ ZeroUsed /\ OnlyListed(d)
      BY <3>2, Zenon DEF IdsOK
    <3>4. NoneUsed'
      <4>1. used' = [i \in Id |-> IF i = 0 THEN FALSE ELSE used[i]]
        BY <1>b, <2>1, <3>3, Zenon
      <4> QED
        BY <3>3, <4>1 DEF NoneUsed, ZeroUsed
    <3>5. OnlyListed(d)'
      BY <2>1, <3>3 DEF OnlyListed
    <3>6. Gives(d)
      BY <2>1, <3>2 DEF Gives
    <3> QED
      BY <3>1, <3>2, <3>3, <3>4, <3>5, <3>6, IdsAlone
  <2>2. CASE Releasing(d, "entry") /\ used' = used /\ table' = [table EXCEPT ![id[d]] = None]
    <3>1. pc[d] = "remove" /\ Left(d) = 11 /\ pc'[d] = "remove" /\ Left(d)' = 10 /\ id' = id
      BY <1>8, <2>2
    <3>2. Leaving(d) /\ HasId(d) /\ ~HasId(d)' /\ Past(d)'
      BY <3>1 DEF Listed, HasId, Leaving, Past
    <3>3. id[d] = 0 /\ NoneUsed /\ OnlyListed(d)
      BY <3>2, Zenon DEF IdsOK
    <3>4. NoneUsed' /\ NoneListed'
      BY <1>0, <2>2, <3>3 DEF NoneUsed, NoneListed, OnlyListed
    <3>5. \A e \in Device : e # d => ~Past(e)'
      BY <3>2 DEF ClassOK
    <3>6. \A e \in Device : ~HasId(e)' /\ pc'[e] # "claim"
      BY <3>1, <3>2, <3>5 DEF HasId, Listed, Leaving, Past
    <3>7. \A e \in Device : pc'[e] # "enter" /\ ~Listed(e)' /\ ~Leaving(e)'
      BY <3>6 DEF HasId
    <3>8. Strikes(d)
      BY <3>2, <3>6 DEF Strikes
    <3> QED
      BY <3>4, <3>6, <3>7, <3>8, Zenon DEF IdsOK
  <2> QED
    BY <1>9, <2>1, <2>2, Zenon DEF ReleaseId
<1>10. CASE FreeIrq(d) \/ ReleaseLocal(d) \/ ReleaseChr(d)
  <2>1. PICK what : Releasing(d, what) /\ what \notin {"used", "entry"} /\ UNCHANGED <<used, table>>
    BY <1>10 DEF FreeIrq, ReleaseLocal, ReleaseChr, Local
  <2>2. UNCHANGED <<pc, drvdata, id, scan>>
    BY <2>1 DEF Releasing
  <2>3. CASE pc[d] = "unwind"
    BY <1>f, <2>1, <2>2, <2>3 DEF Listed, Leaving
  <2>4. CASE pc[d] = "remove"
    <3>1. Left(d) \in 1..12 /\ Left(d)' = Left(d) - 1 /\ what = RemoveScript[13 - Left(d)]
      BY <1>d, <2>1, <2>4, RemoveTurn
    <3>2. Left(d) # 12 /\ Left(d) # 11
      BY <2>1, <3>1, ScriptPlaces
    <3>3. ~Listed(d) /\ ~Leaving(d) /\ ~Listed(d)' /\ ~Leaving(d)'
      BY <2>2, <2>4, <3>1, <3>2 DEF Listed, Leaving
    <3> QED
      BY <1>f, <2>1, <2>2, <2>4, <3>3
  <2> QED
    BY <2>1, <2>3, <2>4 DEF Releasing
<1>11. CASE Return(d)
  <2>1. /\ pc[d] \in {"unwind", "remove"} /\ todo[d] = <<>> /\ UNCHANGED <<drvdata, used, table>>
        /\ pc'[d] \in {"bound", "out"}
    BY <1>0, <1>11 DEF Return
  <2>2. Left(d) = 0 /\ ~drvdata'[d]
    BY <1>h, <2>1 DEF Left
  <2>3. ~Listed(d) /\ ~Leaving(d) /\ ~Listed(d)' /\ ~Leaving(d)' /\ ~HasId(d)
    BY <2>1, <2>2 DEF Listed, Leaving, HasId
  <2> QED
    BY <1>f, <2>1, <2>3
<1>12. CASE IsrStep(d)
  <2>1. UNCHANGED <<pc, todo, drvdata, id, scan, used, table>>
    BY <1>12 DEF IsrStep, IsrEnter, IsrReturn
  <2>2. pc[d] = "claim" => scan[d] = 0
    BY Zenon DEF IdsOK
  <2> QED
    BY <1>f, <2>1, <2>2 DEF Listed, Leaving, Left
<1> QED
  BY <1>1, <1>2, <1>3, <1>4, <1>5, <1>6, <1>7, <1>9, <1>10, <1>11, <1>12,
     Zenon DEF ProbeStep, Calls, ReleaseStep

-----------------------------------------------------------------------------
(***************************************************************************)
(* The inductive invariant, and the properties that follow from it.        *)
(***************************************************************************)
Inv == TypeOK /\ ScanOK /\ Holds /\ ClassOK /\ IdsOK

LEMMA InvInit == Init => Inv
<1> SUFFICES ASSUME Init PROVE Inv
  OBVIOUS
<1>1. TypeOK /\ ScanOK
  BY TypeInit
<1>2. \A d \in Device : pc[d] = "out" /\ held[d] = {} /\ ~drvdata[d]
  BY DEF Init
<1>3. Holds
  BY <1>2 DEF Holds, HoldsOK, ProbeHolds, RestHolds, UnwindHolds, RemoveHolds, LatePoints
<1>4. ClassOK
  BY <1>2 DEF ClassOK, Past, HasClass
<1>5. \A d \in Device : ~HasId(d) /\ pc[d] # "enter" /\ pc[d] # "claim" /\ ~Listed(d) /\ ~Leaving(d)
  BY <1>2 DEF HasId, Listed, Leaving
<1>6. NoneUsed /\ NoneListed
  BY DEF Init, NoneUsed, NoneListed
<1>7. IdsOK
  BY <1>5, <1>6, Zenon DEF IdsOK
<1> QED
  BY <1>1, <1>3, <1>4, <1>7 DEF Inv

LEMMA InvStep ==
  ASSUME Inv, NEW d \in Device, ProbeStep(d) \/ ReleaseStep(d) \/ IsrStep(d)
  PROVE  /\ Inv' /\ (Quiet \/ Takes(d) \/ Enters(d) \/ Gives(d) \/ Strikes(d))
<1>1. TypeOK' /\ ScanOK'
  <2>1. [Next]_vars
    BY Zenon DEF Next
  <2> QED
    BY <2>1, TypeStep DEF Inv
<1>2. Holds'
  <2>1. HoldsOK(d)'
    BY IdsKnown, OwnHolds DEF Inv, Holds
  <2>2. ASSUME NEW e \in Device, e # d PROVE HoldsOK(e)'
    <3>1. TypeOK /\ HoldsOK(e) /\ e \in Device \ {d}
      BY <2>2 DEF Inv, Holds
    <3>2. /\ pc'[e] = pc[e] /\ todo'[e] = todo[e] /\ (drvdata'[e] <=> drvdata[e])
          /\ isr'[e] = isr[e] /\ held'[e] \cap Full = held[e] \cap Full
      BY <3>1, OthersFrame
    <3> QED
      BY <3>1, <3>2, HoldsFrame
  <2> QED
    BY <2>1, <2>2 DEF Holds
<1>3. ClassOK'
  BY <1>2, ClassStep DEF Inv
<1>4. IdsOK' /\ (Quiet \/ Takes(d) \/ Enters(d) \/ Gives(d) \/ Strikes(d))
  BY <1>2, <1>3, IdsStep DEF Inv
<1> QED
  BY <1>1, <1>2, <1>3, <1>4 DEF Inv

LEMMA InvStutter == Inv /\ UNCHANGED vars => Inv'
<1> SUFFICES ASSUME Inv, UNCHANGED vars PROVE Inv'
  OBVIOUS
<1> USE DEF vars, probeVars, idVars, chrVars
<1>1. TypeOK' /\ ScanOK'
  BY TypeStep DEF Inv
<1>2. Holds'
  BY ZenonT(60) DEF Inv, Holds, HoldsOK, ProbeHolds, RestHolds, UnwindHolds, RemoveHolds, Left
<1>3. ClassOK'
  BY Zenon DEF Inv, ClassOK, Past, HasClass, Left
<1>4. IdsOK'
  BY Zenon DEF Inv, IdsOK, HasId, Listed, Leaving, Left, NoneUsed, ZeroUsed, NoneListed, OnlyListed
<1> QED
  BY <1>1, <1>2, <1>3, <1>4 DEF Inv

LEMMA Invariance == Spec => []Inv
<1>1. Inv /\ [Next]_vars => Inv'
  BY NextCases, InvStep, InvStutter
<1> QED
  BY <1>1, InvInit, PTL DEF Spec

LEMMA HandlerSafeFollows == Inv => HandlerSafe
<1> SUFFICES ASSUME Inv, NEW d \in Device
             PROVE  /\ "irq" \in held[d] /\ pc[d] # "unwind" /\ ~Gone(d) => Local \subseteq held[d]
                    /\ pc[d] = "remove" /\ isr[d] = "running" => "irq" \in held[d]
  BY Zenon DEF HandlerSafe
<1>1. HoldsOK(d) /\ pc[d] \in Points
  BY DEF Inv, Holds, TypeOK, Points
<1>2. ASSUME "irq" \in held[d], pc[d] # "unwind", ~Gone(d) PROVE Local \subseteq held[d]
  <2>1. "irq" \in held[d] \cap Full
    BY <1>2 DEF Full
  <2>2. CASE pc[d] \in ProbePoints
    <3>1. \/ held[d] \cap Full \in {G1, G2, G3, G4}
          \/ held[d] \cap Full \in {Local, G6, G7, Full}
      BY <1>1, <2>2 DEF HoldsOK, ProbeHolds, ProbePoints, LatePoints
    <3>2. "irq" \notin G1 /\ "irq" \notin G2 /\ "irq" \notin G3 /\ "irq" \notin G4
      BY DEF G1, G2, G3, G4
    <3>3. Local \subseteq G6 /\ Local \subseteq G7 /\ Local \subseteq Full
      BY DEF G6, G7, Full
    <3> QED
      BY <2>1, <3>1, <3>2, <3>3
  <2>3. CASE pc[d] = "bound" /\ drvdata[d]
    <3>1. held[d] \cap Full = Full
      BY <1>1, <2>3 DEF HoldsOK, RestHolds
    <3> QED
      BY <3>1 DEF Full
  <2>4. CASE pc[d] = "remove"
    <3>1. held[d] \cap Full = Full
      BY <1>1, <1>2, <2>4 DEF HoldsOK, RemoveHolds
    <3> QED
      BY <3>1 DEF Full
  <2> QED
    BY <1>1, <1>2, <2>2, <2>3, <2>4 DEF Gone, Points
<1>3. ASSUME pc[d] = "remove", isr[d] = "running" PROVE "irq" \in held[d]
  <2>1. held[d] \cap Full = Full
    BY <1>1, <1>3 DEF HoldsOK, RemoveHolds
  <2> QED
    BY <2>1 DEF Full
<1> QED
  BY <1>2, <1>3

\* Whoever is in the table is the one device that has an id, and it is listed
\* or on its way out of the table.
LEMMA EntryOf ==
  ASSUME Inv, NEW i \in Id, table[i] # None
  PROVE  \E d \in Device : /\ Listed(d) \/ Leaving(d)
                           /\ table[i] = d /\ id[d] = i /\ i = 0
<1>1. PICK d \in Device : HasId(d)
  BY Zenon DEF Inv, IdsOK, NoneListed
<1>2. /\ HasId(d) => id[d] = 0
      /\ pc[d] = "enter" => NoneListed
      /\ Listed(d) => OnlyListed(d)
      /\ Leaving(d) => OnlyListed(d)
  BY Zenon DEF Inv, IdsOK
<1>3. OnlyListed(d) /\ (Listed(d) \/ Leaving(d))
  BY <1>1, <1>2, Zenon DEF HasId, NoneListed
<1>4. table[i] = d /\ i = 0
  BY <1>3, Zenon DEF OnlyListed
<1> QED
  BY <1>1, <1>2, <1>3, <1>4

LEMMA EntriesLiveFollows == Inv => EntriesLive
<1> SUFFICES ASSUME Inv, NEW i \in Id, table[i] # None
             PROVE  /\ Local \cup Buffers \cup {"irq"} \subseteq held[table[i]]
                    /\ id[table[i]] = i
  BY Zenon DEF EntriesLive
<1>1. PICK d \in Device : /\ Listed(d) \/ Leaving(d)
                          /\ table[i] = d /\ id[d] = i
  BY EntryOf
<1>2. HoldsOK(d)
  BY DEF Inv, Holds
<1>3. held[d] \cap Full = Full
  <2>1. CASE pc[d] = "bound" /\ drvdata[d]
    BY <1>2, <2>1 DEF HoldsOK, RestHolds
  <2>2. CASE pc[d] = "remove" /\ Left(d) \in {11, 12}
    BY <1>2, <2>2 DEF HoldsOK, RemoveHolds
  <2> QED
    BY <1>1, <2>1, <2>2 DEF Listed, Leaving
<1> QED
  BY <1>1, <1>3 DEF Full

LEMMA BoundIsListedFollows == Inv => BoundIsListed
<1> SUFFICES ASSUME Inv, NEW d \in Device, pc[d] = "bound", drvdata[d]
             PROVE  id[d] \in Id /\ used[id[d]] /\ table[id[d]] = d
  BY Zenon DEF BoundIsListed
<1>1. Listed(d)
  BY DEF Listed
<1>2. HasId(d)
  BY <1>1 DEF HasId
<1>3. id[d] = 0 /\ ZeroUsed /\ OnlyListed(d)
  BY <1>1, <1>2, Zenon DEF Inv, IdsOK
<1>4. 0 \in Id
  BY NumFpgasAssumption DEF Id
<1> QED
  BY <1>3, <1>4 DEF ZeroUsed, OnlyListed

\* Until probe fails, whenever the handler can run, what it uses is there, for
\* any number of devices probed and removed at the same time.
THEOREM LifecycleHandlerSafe == Spec => []HandlerSafe
BY Invariance, HandlerSafeFollows, PTL

\* A device that an ioctl finds in the table is there with all it needs.
THEOREM LifecycleEntriesLive == Spec => []EntriesLive
BY Invariance, EntriesLiveFollows, PTL

\* A device that was probed to the end has an id, marked used, and its entry.
THEOREM LifecycleBoundIsListed == Spec => []BoundIsListed
BY Invariance, BoundIsListedFollows, PTL

-----------------------------------------------------------------------------
(***************************************************************************)
(* The refinement: ids and table implement the table of ids.               *)
(***************************************************************************)
Owner == [i \in Id |-> {d \in Device : Owns(d, i)}]

\* Whoever has claimed an id and not given it back owns id 0.
Owning(d) == pc[d] = "enter" \/ Listed(d)

LEMMA OwnsIs ==
  ASSUME Inv
  PROVE  \A d \in Device, i \in Id : Owns(d, i) <=> i = 0 /\ Owning(d)
<1> SUFFICES ASSUME NEW d \in Device, NEW i \in Id PROVE Owns(d, i) <=> i = 0 /\ Owning(d)
  OBVIOUS
<1>1. HoldsOK(d) /\ todo[d] \in Seq(Releasable)
  BY DEF Inv, Holds, TypeOK
<1>2. (pc[d] = "remove" /\ todo[d] # <<>> /\ Head(todo[d]) = "used")
        <=> (pc[d] = "remove" /\ Left(d) = 12)
  <2>1. ASSUME pc[d] = "remove", todo[d] # <<>>
        PROVE  Head(todo[d]) = "used" <=> Left(d) = 12
    <3>1. Left(d) \in 1..12 /\ todo[d] = LastOf(RemoveScript, Left(d))
      BY <1>1, <2>1 DEF HoldsOK, RemoveHolds, Left
    <3> DEFINE n == Left(d)
    <3>2. RemoveScript \in Seq(Releasable) /\ Len(RemoveScript) = 12 /\ n \in 1..Len(RemoveScript)
      BY <3>1, ScriptTypes
    <3>3. todo[d] = LastOf(RemoveScript, n)
      BY <3>1
    <3> HIDE DEF n
    <3>4. Head(todo[d]) = RemoveScript[12 - n + 1]
      BY <3>2, <3>3, LastOfStep
    <3>5. n \in 1..12 /\ 12 - n + 1 = 13 - n
      BY <3>2
    <3>6. RemoveScript[13 - n] = "used" <=> n = 12
      BY <3>5, ScriptPlaces
    <3> QED
      BY <3>4, <3>5, <3>6 DEF n
  <2>2. Left(d) = 12 => todo[d] # <<>>
    <3>1. ASSUME todo[d] = <<>> PROVE Left(d) = 0
      BY <3>1 DEF Left
    <3> QED
      BY <3>1
  <2> QED
    BY <2>1, <2>2
<1>3. (pc[d] = "enter" \/ (pc[d] = "bound" /\ drvdata[d])
        \/ (pc[d] = "remove" /\ todo[d] # <<>> /\ Head(todo[d]) = "used")) <=> Owning(d)
  BY <1>2, Zenon DEF Owning, Listed
<1>4. Owns(d, i) <=> id[d] = i /\ Owning(d)
  BY <1>3, Zenon DEF Owns
<1>5. Owning(d) => id[d] = 0
  BY Zenon DEF Owning, HasId, Inv, IdsOK
<1> QED
  BY <1>4, <1>5

LEMMA OwnerIs ==
  Inv => /\ Owner \in [Id -> SUBSET Device]
         /\ \A i \in Id, d \in Device : d \in Owner[i] <=> i = 0 /\ Owning(d)
BY OwnsIs DEF Owner

LEMMA OwnerIsNext ==
  Inv' => /\ Owner' \in [Id -> SUBSET Device]
          /\ \A i \in Id, d \in Device : d \in Owner'[i] <=> i = 0 /\ Owning(d)'
<1>1. (Inv => /\ Owner \in [Id -> SUBSET Device]
              /\ \A i \in Id, d \in Device : d \in Owner[i] <=> i = 0 /\ Owning(d))'
  BY OwnerIs, PTL
<1> QED
  BY <1>1

LEMMA TableInit == Init => Ids!Init
<1> SUFFICES ASSUME Init PROVE Ids!Init
  OBVIOUS
<1>1. \A d \in Device : pc[d] = "out"
  BY DEF Init
<1>2. [i \in Id |-> {d \in Device : Owns(d, i)}] = [i \in Id |-> {}]
  BY <1>1 DEF Owns
<1>3. table = [i \in Id |-> None]
  BY DEF Init
<1> QED
  BY <1>2, <1>3 DEF Ids!Init

LEMMA TableStep ==
  ASSUME Inv, Inv', NEW d \in Device,
         Quiet \/ Takes(d) \/ Enters(d) \/ Gives(d) \/ Strikes(d)
  PROVE  [Ids!Next]_<<Owner, table>>
<1>0. /\ Owner \in [Id -> SUBSET Device] /\ Owner' \in [Id -> SUBSET Device]
      /\ \A i \in Id, e \in Device : e \in Owner[i] <=> i = 0 /\ Owning(e)
      /\ \A i \in Id, e \in Device : e \in Owner'[i] <=> i = 0 /\ Owning(e)'
  BY OwnerIs, OwnerIsNext
<1>1. table \in [Id -> Device \cup {None}] /\ table' \in [Id -> Device \cup {None}]
  BY DEF Inv, TypeOK
<1>2. 0 \in Id
  BY NumFpgasAssumption DEF Id
<1>3. /\ \A e \in Device : Owning(e) => HasId(e)
      /\ \A e \in Device : Owning(e)' => HasId(e)'
  BY DEF Owning, HasId
<1>4. /\ \A e, f \in Device : HasId(e) /\ HasId(f) => e = f
      /\ \A e, f \in Device : HasId(e)' /\ HasId(f)' => e = f
  <2>1. \A e \in Device : (HasId(e) => Past(e)) /\ (HasId(e)' => Past(e)')
    BY DEF HasId, Listed, Leaving, Past
  <2> QED
    BY <2>1 DEF Inv, ClassOK
<1>5. /\ (\A e \in Device : ~HasId(e)) => NoneListed
      /\ pc[d] = "enter" => NoneListed
      /\ Listed(d) => OnlyListed(d)
      /\ Leaving(d) => OnlyListed(d)
  BY Zenon DEF Inv, IdsOK
<1>6. /\ (\A e \in Device : ~HasId(e)') => NoneListed'
      /\ Listed(d)' => OnlyListed(d)'
  BY Zenon DEF Inv, IdsOK
<1> HIDE DEF Inv, Owner
<1>7. CASE Quiet
  <2>1. \A e \in Device : Owning(e)' <=> Owning(e)
    BY <1>7, Zenon DEF Quiet, Owning
  <2>2. Owner' = Owner
    <3>1. \A i \in Id : Owner'[i] = Owner[i]
      BY <1>0, <2>1
    <3> QED
      BY <1>0, <3>1
  <2> QED
    BY <1>7, <2>2 DEF Quiet
<1>8. CASE Takes(d)
  <2>1. \A i \in Id : Owner[i] = {}
    BY <1>0, <1>3, <1>8 DEF Takes
  <2>2. Owning(d)' /\ HasId(d)'
    BY <1>8 DEF Takes, Owning, HasId
  <2>3. \A i \in Id : Owner'[i] = IF i = 0 THEN {d} ELSE {}
    BY <1>0, <1>3, <1>4, <2>2
  <2>4. Owner' = [Owner EXCEPT ![0] = {d}]
    BY <1>0, <2>1, <2>3
  <2>5. table[0] = None /\ table' = table
    BY <1>2, <1>5, <1>8 DEF Takes, NoneListed
  <2>6. Ids!Take(d, 0)
    BY <1>2, <2>1, <2>4, <2>5 DEF Ids!Take, Owner
  <2> QED
    BY <1>2, <2>6 DEF Ids!Next
<1>9. CASE Enters(d)
  <2>1. Owning(d) /\ Owning(d)' /\ HasId(d) /\ HasId(d)'
    BY <1>9 DEF Enters, Owning, HasId
  <2>2. \A i \in Id : /\ Owner[i] = IF i = 0 THEN {d} ELSE {}
                      /\ Owner'[i] = IF i = 0 THEN {d} ELSE {}
    BY <1>0, <1>3, <1>4, <2>1
  <2>3. Owner' = Owner
    BY <1>0, <2>2
  <2>4. NoneListed /\ OnlyListed(d)'
    BY <1>5, <1>6, <1>9 DEF Enters
  <2>5. table' = [table EXCEPT ![0] = d]
    BY <1>1, <2>4 DEF NoneListed, OnlyListed
  <2>6. Ids!Enroll(d, 0)
    BY <1>2, <2>2, <2>3, <2>4, <2>5 DEF Ids!Enroll, Owner, NoneListed
  <2> QED
    BY <1>2, <2>6 DEF Ids!Next
<1>10. CASE Gives(d)
  <2>1. Owning(d) /\ HasId(d) /\ HasId(d)' /\ ~Owning(d)'
    BY <1>10 DEF Gives, Owning, HasId, Listed, Leaving
  <2>2. \A i \in Id : /\ Owner[i] = IF i = 0 THEN {d} ELSE {}
                      /\ Owner'[i] = {}
    BY <1>0, <1>3, <1>4, <2>1
  <2>3. Owner' = [Owner EXCEPT ![0] = {}]
    BY <1>0, <2>2
  <2>4. OnlyListed(d) /\ table' = table
    BY <1>5, <1>10 DEF Gives
  <2>5. Ids!Give(d, 0)
    BY <1>2, <2>2, <2>3, <2>4 DEF Ids!Give, Owner, OnlyListed
  <2> QED
    BY <1>2, <2>5 DEF Ids!Next
<1>11. CASE Strikes(d)
  <2>1. HasId(d) /\ ~Owning(d)
    BY <1>11 DEF Strikes, Owning, HasId, Listed, Leaving
  <2>2. \A i \in Id : Owner[i] = {} /\ Owner'[i] = {}
    BY <1>0, <1>3, <1>4, <1>11, <2>1 DEF Strikes
  <2>3. Owner' = Owner
    BY <1>0, <2>2
  <2>4. OnlyListed(d) /\ NoneListed'
    BY <1>5, <1>6, <1>11 DEF Strikes
  <2>5. table' = [table EXCEPT ![0] = None] /\ table[0] # None
    BY <1>1, <1>2, <2>4, NoneAssumption DEF NoneListed, OnlyListed
  <2>6. Ids!Strike(0)
    BY <1>2, <2>2, <2>3, <2>5 DEF Ids!Strike, Owner
  <2> QED
    BY <1>2, <2>6 DEF Ids!Next
<1> QED
  BY <1>7, <1>8, <1>9, <1>10, <1>11

\* The ids and the table implement the table of ids: an id has one owner, its
\* entry is the owner, and nobody takes an id while an earlier owner is still
\* entered under it, although remove frees the id first.
THEOREM LifecycleImplementsTable == Spec => TableImplemented
<1>1. Inv /\ Inv' /\ [Next]_vars => [Ids!Next]_<<Owner, table>>
  <2> SUFFICES ASSUME Inv, Inv', [Next]_vars PROVE [Ids!Next]_<<Owner, table>>
    OBVIOUS
  <2>1. CASE UNCHANGED vars
    <3>1. UNCHANGED <<pc, drvdata, todo, id, table>>
      BY <2>1, Zenon DEF vars, probeVars, idVars, chrVars
    <3>2. Owner' = Owner
      BY <3>1, Zenon DEF Owner, Owns
    <3> QED
      BY <3>1, <3>2
  <2> QED
    BY <2>1, NextCases, InvStep, TableStep
<1>2. [Ids!Next]_<<Owner, table>> =>
        [Ids!Next]_<<[i \in Id |-> {d \in Device : Owns(d, i)}], table>>
  BY DEF Owner
<1> QED
  BY <1>1, <1>2, TableInit, Invariance, PTL DEF Spec, TableImplemented, Ids!Spec

-----------------------------------------------------------------------------
(***************************************************************************)
(* The character device, of a device that is the only one probed: then     *)
(* nobody else moves the globals that its releases act on.                 *)
(***************************************************************************)
Unprobed == \A d \in Device : probes[d] = 0 => pc[d] = "out"

EarlyPoints == {"dma_mask", "kzalloc", "request_regions", "map_bars", "vec_count",
  "alloc_vectors", "request_irq", "blockdma", "sglistdma", "alloc_chrdev"}

ChrOf(d) == held[d] \cap Chr

ChrOK(d) ==
  /\ {devt, class} \subseteq {None, d}
  /\ pc[d] \in EarlyPoints \/ Gone(d) => ChrOf(d) = {} /\ cdev = None
  /\ pc[d] = "cdev_add" => ChrOf(d) = {"region"} /\ devt = d /\ cdev = None
  /\ pc[d] = "class_create" => ChrOf(d) = {"region"} /\ devt = d
  /\ Past(d) => devt = d /\ class = d
  /\ pc[d] = "unwind" =>
       /\ ChrOf(d) \subseteq {"region"} /\ cdev = None
       /\ ChrOf(d) # {} => Left(d) = 6 /\ devt = d
  /\ pc[d] = "remove" =>
       /\ devt = d /\ class = d
       /\ "node" \in held[d] => Left(d) >= 4
       /\ "class" \in held[d] => Left(d) >= 3
       /\ cdev # None => Left(d) >= 2
       /\ "region" \in held[d] => Left(d) >= 1

LEMMA ChrFrame ==
  ASSUME NEW d \in Device, ChrOK(d), UNCHANGED <<devt, cdev, class>>,
         pc'[d] = pc[d], todo'[d] = todo[d], drvdata'[d] <=> drvdata[d], held'[d] = held[d]
  PROVE  ChrOK(d)'
<1>1. (Gone(d)' <=> Gone(d)) /\ (Past(d)' <=> Past(d)) /\ ChrOf(d)' = ChrOf(d)
      /\ Left(d)' = Left(d)
  BY Zenon DEF Gone, Past, Left, ChrOf
<1> QED
  BY <1>1, Zenon DEF ChrOK

LEMMA FailChr ==
  ASSUME TypeOK, NEW d \in Device, HoldsOK(d)', ChrOK(d),
         NEW from, from \notin {"claim", "enter", "bound"}, NEW what, what \cap Chr = {},
         NEW label, Fail(d, from, what, label), drvdata' = drvdata,
         {devt', class'} \subseteq {None, d}, cdev' = None,
         NEW n \in 1..6, FailReleases[label] = LastOf(FailScript, n),
         ChrOf(d) = {} \/ (ChrOf(d) = {"region"} /\ n = 6 /\ devt' = d)
  PROVE  ChrOK(d)'
<1>0. /\ pc \in [Device -> Points] /\ held \in [Device -> SUBSET Things]
      /\ todo \in [Device -> Seq(Releasable)]
  BY Zenon DEF TypeOK, Points, Things
<1>1. /\ pc[d] = from /\ pc'[d] = "unwind" /\ todo'[d] = LastOf(FailScript, n)
      /\ held'[d] = held[d] \cup what
  BY <1>0 DEF Fail
<1>2. Left(d)' = n
  <2>1. FailScript \in Seq(Releasable) /\ n \in 0..Len(FailScript)
    BY ScriptTypes
  <2> QED
    BY <1>1, <2>1, LastOfSeq DEF Left
<1>3. ChrOf(d)' = ChrOf(d)
  BY <1>1 DEF ChrOf
<1>4. ~Gone(d)' /\ ~Past(d)' /\ pc'[d] \notin EarlyPoints
  BY <1>1 DEF Gone, Past, EarlyPoints
<1> QED
  BY <1>1, <1>2, <1>3, <1>4 DEF ChrOK

\* A release of d that leaves the globals alone.
LEMMA ReleaseChrFrame ==
  ASSUME TypeOK, NEW d \in Device, HoldsOK(d), ChrOK(d), NEW what, Releasing(d, what),
         what \notin {"node", "class", "cdev", "region"},
         UNCHANGED <<devt, cdev, class>>, held'[d] \cap Chr = held[d] \cap Chr
  PROVE  ChrOK(d)'
<1>1. ChrOf(d)' = ChrOf(d)
  BY DEF ChrOf
<1>2. \A x \in Chr : x \in held'[d] <=> x \in held[d]
  OBVIOUS
<1>3. CASE pc[d] = "unwind"
  <2>1. /\ Left(d) \in 1..6 /\ Left(d)' = Left(d) - 1 /\ what = FailScript[7 - Left(d)]
        /\ pc'[d] = "unwind"
    BY <1>3, UnwindTurn
  <2>2. Left(d) # 6
    BY <2>1, ScriptPlaces
  <2>3. ~Gone(d)' /\ ~Past(d)' /\ pc'[d] \notin EarlyPoints
    BY <2>1 DEF Gone, Past, EarlyPoints
  <2>4. ChrOf(d) = {} /\ cdev = None /\ {devt, class} \subseteq {None, d}
    BY <1>3, <2>2 DEF ChrOK
  <2> QED
    BY <1>1, <2>1, <2>3, <2>4 DEF ChrOK
<1>4. CASE pc[d] = "remove"
  <2>1. /\ Left(d) \in 1..12 /\ Left(d)' = Left(d) - 1 /\ what = RemoveScript[13 - Left(d)]
        /\ pc'[d] = "remove"
    BY <1>4, RemoveTurn
  <2>2. Left(d) >= 5
    BY <2>1, ScriptPlaces
  <2>3. ~Gone(d)' /\ pc'[d] \notin EarlyPoints
    BY <2>1 DEF Gone, EarlyPoints
  <2>4. devt = d /\ class = d
    BY <1>4 DEF ChrOK
  <2> QED
    BY <2>1, <2>2, <2>3, <2>4 DEF ChrOK
<1> QED
  BY <1>3, <1>4 DEF Releasing

LEMMA ChrStep ==
  ASSUME TypeOK, Holds, Holds', IdKnown, NEW d \in Device, ChrOK(d),
         ProbeStep(d) \/ ReleaseStep(d) \/ IsrStep(d)
  PROVE  ChrOK(d)'
<1> USE DEF probeVars, idVars, chrVars
<1>0. /\ pc \in [Device -> Points] /\ held \in [Device -> SUBSET Things]
      /\ todo \in [Device -> Seq(Releasable)] /\ d # None
  BY NoneAssumption, Zenon DEF TypeOK, Points, Things
<1>d. drvdata \in [Device -> BOOLEAN]
  BY Zenon DEF TypeOK
<1>h. HoldsOK(d) /\ HoldsOK(d)'
  BY DEF Holds
<1>r. /\ drvdata[d] => pc[d] \in {"claim", "enter", "bound"}
      /\ drvdata'[d] => pc'[d] \in {"claim", "enter", "bound"}
  BY <1>h, Zenon DEF HoldsOK, RestHolds
\* Between two early points nothing of the character device changes.
<1>e. ASSUME ChrOf(d) = {}, cdev = None, pc'[d] \in EarlyPoints \/ Gone(d)', ~Past(d)',
             ChrOf(d)' = {}, UNCHANGED <<devt, cdev, class>>
      PROVE  ChrOK(d)'
  <2>1. pc'[d] \notin {"cdev_add", "class_create", "unwind", "remove"}
    BY <1>e DEF EarlyPoints, Gone
  <2>2. {devt, class} \subseteq {None, d}
    BY DEF ChrOK
  <2> QED
    BY <1>e, <2>1, <2>2 DEF ChrOK
\* Nor between two points past creating the class, but for what is held.
<1>p. ASSUME Past(d), Past(d)', pc[d] # "remove", UNCHANGED <<devt, cdev, class>>,
             pc'[d] = "remove" => Left(d)' = 12
      PROVE  ChrOK(d)'
  <2>1. pc'[d] \notin {"cdev_add", "class_create", "unwind"} /\ pc'[d] \notin EarlyPoints
        /\ ~Gone(d)'
    BY <1>p DEF Past, EarlyPoints, Gone
  <2>2. devt = d /\ class = d
    BY <1>p DEF ChrOK
  <2> QED
    BY <1>p, <2>1, <2>2 DEF ChrOK
<1>1. CASE PciEnable(d)
  <2>1. UNCHANGED <<todo, drvdata, devt, cdev, class>> /\ pc[d] = "out"
    BY <1>1 DEF PciEnable
  <2>2. CASE UNCHANGED <<pc, held, error>>
    BY <2>1, <2>2, ChrFrame
  <2>3. CASE pc' = [pc EXCEPT ![d] = "dma_mask"]
             /\ held' = [held EXCEPT ![d] = (@ \cap Chr) \cup {"enabled"}]
    <3>1. pc'[d] = "dma_mask" /\ held'[d] = (held[d] \cap Chr) \cup {"enabled"}
      BY <1>0, <2>3
    <3>2. ChrOf(d) = {} /\ cdev = None
      BY <2>1 DEF ChrOK, Gone
    <3>3. ChrOf(d)' = {}
      BY <3>1, <3>2 DEF ChrOf, Chr
    <3>4. pc'[d] \in EarlyPoints /\ ~Past(d)'
      BY <3>1 DEF EarlyPoints, Past
    <3> QED
      BY <1>e, <2>1, <3>2, <3>3, <3>4
  <2> QED
    BY <1>1, <2>2, <2>3, Zenon DEF PciEnable
<1>2. ASSUME NEW from \in EarlyPoints, NEW to \in EarlyPoints, NEW what,
             Acquire(d, from, what, to), what \cap Chr = {}, UNCHANGED <<devt, cdev, class>>
      PROVE  ChrOK(d)'
  <2>1. pc[d] = from /\ pc'[d] = to /\ held'[d] = held[d] \cup what
    BY <1>0, <1>2 DEF Acquire
  <2>2. ChrOf(d) = {} /\ cdev = None
    BY <2>1 DEF ChrOK
  <2>3. ChrOf(d)' = {}
    BY <1>2, <2>1, <2>2 DEF ChrOf
  <2>4. ~Past(d)'
    BY <2>1 DEF EarlyPoints, Past
  <2> QED
    BY <1>e, <1>2, <2>1, <2>2, <2>3, <2>4
<1>3. ASSUME NEW from \in EarlyPoints, NEW what, what \cap Chr = {},
             NEW label \in {"fail_disable_device", "fail_free_fpdev", "fail_release_regions",
                            "fail_irq_vectors"},
             Fail(d, from, what, label), UNCHANGED <<drvdata, devt, cdev, class>>
      PROVE  ChrOK(d)'
  <2>1. pc[d] = from /\ from \notin {"claim", "enter", "bound"}
    BY <1>3 DEF Fail, EarlyPoints
  <2>2. ChrOf(d) = {} /\ cdev = None /\ {devt, class} \subseteq {None, d}
    BY <2>1 DEF ChrOK
  <2>3. \E n \in 1..6 : FailReleases[label] = LastOf(FailScript, n)
    BY FailScripts
  <2> QED
    BY <1>h, <1>3, <2>1, <2>2, <2>3, FailChr
<1> USE DEF EarlyPoints, Chr
<1>4. CASE DmaMask(d) \/ Kzalloc(d) \/ RequestRegions(d)
  BY <1>2, <1>3, <1>4 DEF DmaMask, Kzalloc, RequestRegions
<1>5. CASE MapBars(d) \/ VecCount(d) \/ AllocVectors(d)
  BY <1>2, <1>3, <1>5 DEF MapBars, VecCount, AllocVectors
<1>6. CASE RequestIrq(d) \/ AllocateBlockDma(d) \/ AllocateSglistDma(d)
  BY <1>2, <1>3, <1>6 DEF RequestIrq, AllocateBlockDma, AllocateSglistDma
<1> HIDE DEF EarlyPoints, Chr
<1>7. CASE AllocChrdev(d)
  <2>0. UNCHANGED <<drvdata, cdev, class>>
    BY <1>7 DEF AllocChrdev
  <2>1. CASE Acquire(d, "alloc_chrdev", {"region"}, "cdev_add") /\ devt' = d
    <3>1. pc[d] = "alloc_chrdev" /\ pc'[d] = "cdev_add" /\ held'[d] = held[d] \cup {"region"}
      BY <1>0, <2>1 DEF Acquire
    <3>2. ChrOf(d) = {} /\ cdev = None /\ class \in {None, d}
      BY <3>1 DEF ChrOK, EarlyPoints
    <3>3. ChrOf(d)' = {"region"}
      BY <3>1, <3>2 DEF ChrOf, Chr
    <3>4. ~Past(d)' /\ ~Gone(d)' /\ pc'[d] \notin EarlyPoints
      BY <3>1 DEF Past, Gone, EarlyPoints
    <3> QED
      BY <2>0, <2>1, <3>1, <3>2, <3>3, <3>4 DEF ChrOK
  <2>2. CASE Fail(d, "alloc_chrdev", {}, "fail_irq_vectors") /\ devt' = devt
    BY <1>3, <2>0, <2>2 DEF EarlyPoints
  <2> QED
    BY <1>7, <2>1, <2>2 DEF AllocChrdev
<1>8. CASE CdevAdd(d)
  <2>0. UNCHANGED <<drvdata, devt, class>>
    BY <1>8 DEF CdevAdd
  <2>1. CASE Acquire(d, "cdev_add", {}, "class_create") /\ cdev' = devt
    <3>1. pc[d] = "cdev_add" /\ pc'[d] = "class_create" /\ held'[d] = held[d]
      BY <1>0, <2>1 DEF Acquire
    <3>2. ChrOf(d) = {"region"} /\ devt = d /\ class \in {None, d}
      BY <3>1 DEF ChrOK
    <3>3. ChrOf(d)' = {"region"}
      BY <3>1, <3>2 DEF ChrOf
    <3>4. ~Past(d)' /\ ~Gone(d)' /\ pc'[d] \notin EarlyPoints
      BY <3>1 DEF Past, Gone, EarlyPoints
    <3> QED
      BY <2>0, <3>1, <3>2, <3>3, <3>4 DEF ChrOK
  <2>2. CASE Fail(d, "cdev_add", {}, "fail_alloc_chr") /\ cdev' = None
    <3>1. pc[d] = "cdev_add"
      BY <2>2 DEF Fail
    <3>2. ChrOf(d) = {"region"} /\ devt = d /\ class \in {None, d}
      BY <3>1 DEF ChrOK
    <3>3. FailReleases["fail_alloc_chr"] = LastOf(FailScript, 6)
      BY FailScripts
    <3> QED
      BY <1>h, <2>0, <2>2, <3>2, <3>3, FailChr
  <2> QED
    BY <1>8, <2>1, <2>2 DEF CdevAdd
<1>9. CASE ClassCreate(d)
  <2>0. UNCHANGED <<drvdata, devt>>
    BY <1>9 DEF ClassCreate
  <2>1. CASE Acquire(d, "class_create", {"class"}, "device_create") /\ class' = d
    <3>1. pc[d] = "class_create" /\ pc'[d] = "device_create"
      BY <1>0, <2>1 DEF Acquire
    <3>2. devt = d
      BY <3>1 DEF ChrOK
    <3>4. ~Gone(d)' /\ pc'[d] \notin EarlyPoints
      BY <3>1 DEF Gone, EarlyPoints
    <3> QED
      BY <2>0, <2>1, <3>1, <3>2, <3>4 DEF ChrOK
  <2>2. CASE Fail(d, "class_create", {}, "fail_alloc_chr") /\ class' = None /\ cdev' = None
    <3>1. pc[d] = "class_create"
      BY <2>2 DEF Fail
    <3>2. ChrOf(d) = {"region"} /\ devt = d
      BY <3>1 DEF ChrOK
    <3>3. FailReleases["fail_alloc_chr"] = LastOf(FailScript, 6)
      BY FailScripts
    <3> QED
      BY <1>h, <2>0, <2>2, <3>2, <3>3, FailChr
  <2> QED
    BY <1>9, <2>1, <2>2 DEF ClassCreate
<1>10. CASE DeviceCreate(d) \/ SetDrvdata(d) \/ EnterTable(d)
  <2>1. UNCHANGED <<devt, cdev, class>> /\ Past(d) /\ pc[d] # "remove"
    BY <1>10 DEF DeviceCreate, SetDrvdata, EnterTable, Acquire, Past
  <2>2. pc'[d] \in {"set_drvdata", "claim"} \/ (pc'[d] = "bound" /\ drvdata'[d])
    <3>1. CASE DeviceCreate(d) \/ SetDrvdata(d)
      BY <1>0, <3>1 DEF DeviceCreate, SetDrvdata, Acquire
    <3>2. CASE EnterTable(d)
      <4>1. pc[d] = "enter" /\ pc'[d] = "bound" /\ drvdata' = drvdata
        BY <1>0, <3>2 DEF EnterTable
      <4>2. drvdata[d]
        BY <1>h, <4>1 DEF HoldsOK, RestHolds
      <4> QED
        BY <4>1, <4>2
    <3> QED
      BY <1>10, <3>1, <3>2
  <2>3. Past(d)' /\ pc'[d] # "remove"
    BY <2>2 DEF Past
  <2> QED
    BY <1>p, <2>1, <2>3
<1>11. CASE Claim(d)
  <2>1. UNCHANGED <<drvdata, devt, cdev, class>> /\ pc[d] = "claim"
    BY <1>11 DEF Claim
  <2>2. drvdata[d] /\ Past(d)
    BY <1>h, <2>1 DEF HoldsOK, RestHolds, Past
  <2>3. pc'[d] \in {"claim", "bound", "enter"}
    <3>1. \E to \in {"claim", "bound", "enter"} : pc' = [pc EXCEPT ![d] = to]
      <4>1. CASE used[scan[d]]
        BY <1>11, <4>1 DEF Claim
      <4>2. CASE ~used[scan[d]]
        BY <1>11, <4>2 DEF Claim
      <4> QED
        BY <4>1, <4>2
    <3> QED
      BY <1>0, <3>1
  <2>4. Past(d)' /\ pc'[d] # "remove"
    BY <2>1, <2>2, <2>3 DEF Past
  <2> QED
    BY <1>p, <2>1, <2>2, <2>4
<1>12. CASE Remove(d)
  <2>1. pc[d] = "bound" /\ UNCHANGED <<devt, cdev, class, held>>
    BY <1>12 DEF Remove
  <2>2. CASE drvdata[d]
    <3>1. pc'[d] = "remove" /\ Past(d)
      BY <1>0, <1>12, <2>1, <2>2 DEF Remove, Past
    <3>2. Left(d)' = 12
      <4>1. todo'[d] = RemoveTodo(d) /\ id[d] \in Id
        BY <1>0, <1>12, <2>1, <2>2 DEF Remove, IdKnown
      <4> QED
        BY <4>1, RemoveScripts, ScriptTypes DEF Left
    <3>3. Past(d)'
      BY <3>1, <3>2 DEF Past
    <3> QED
      BY <1>p, <2>1, <3>1, <3>2, <3>3
  <2>3. CASE ~drvdata[d]
    <3>1. pc'[d] = "out" /\ Gone(d)
      BY <1>0, <1>12, <2>1, <2>3 DEF Remove, Gone
    <3>2. ChrOf(d) = {} /\ cdev = None
      BY <3>1 DEF ChrOK
    <3>3. Gone(d)' /\ ~Past(d)' /\ ChrOf(d)' = {}
      BY <2>1, <3>1, <3>2 DEF Gone, Past, ChrOf
    <3> QED
      BY <1>e, <2>1, <3>2, <3>3
  <2> QED
    BY <2>2, <2>3
<1>13. CASE ReleaseId(d) \/ FreeIrq(d) \/ ReleaseLocal(d)
  <2>1. UNCHANGED <<devt, cdev, class>>
    BY <1>13 DEF ReleaseId, FreeIrq, ReleaseLocal
  <2>2. \E what : /\ Releasing(d, what) /\ what \notin {"node", "class", "cdev", "region"}
                  /\ held'[d] \cap Chr = held[d] \cap Chr
    <3>1. CASE ReleaseId(d)
      BY <3>1 DEF ReleaseId
    <3>2. CASE FreeIrq(d)
      BY <1>0, <3>2 DEF FreeIrq, Chr
    <3>3. CASE ReleaseLocal(d)
      BY <1>0, <3>3 DEF ReleaseLocal, Chr, Local
    <3> QED
      BY <1>13, <3>1, <3>2, <3>3
  <2> QED
    BY <1>h, <2>1, <2>2, ReleaseChrFrame
<1>15. CASE Return(d)
  <2>1. /\ pc[d] \in {"unwind", "remove"} /\ todo[d] = <<>>
        /\ UNCHANGED <<held, drvdata, devt, cdev, class>>
    BY <1>15 DEF Return
  <2>2. pc'[d] \in {"bound", "out"} /\ ~drvdata'[d]
    BY <1>0, <1>15, <1>r, <2>1 DEF Return
  <2>3. Left(d) = 0
    BY <2>1 DEF Left
  <2>4. ChrOf(d) = {} /\ cdev = None
    <3>1. CASE pc[d] = "unwind"
      BY <2>3, <3>1 DEF ChrOK
    <3>2. CASE pc[d] = "remove"
      BY <2>3, <3>2 DEF ChrOK, ChrOf, Chr
    <3> QED
      BY <2>1, <3>1, <3>2
  <2>5. Gone(d)' /\ ~Past(d)' /\ ChrOf(d)' = {}
    BY <2>1, <2>2, <2>4 DEF Gone, Past, ChrOf
  <2> QED
    BY <1>e, <2>1, <2>4, <2>5
<1>16. CASE IsrStep(d)
  BY <1>16, ChrFrame DEF IsrStep, IsrEnter, IsrReturn
<1>14. CASE ReleaseChr(d)
  <2>0. UNCHANGED <<devt, class>>
    BY <1>14 DEF ReleaseChr
  <2>1. CASE pc[d] = "unwind"
    <3>1. PICK what \in {"node", "class", "cdev", "region"} : Releasing(d, what)
      BY <1>14 DEF ReleaseChr
    <3>2. /\ Left(d) \in 1..6 /\ Left(d)' = Left(d) - 1 /\ what = FailScript[7 - Left(d)]
          /\ pc'[d] = "unwind"
      BY <1>h, <2>1, <3>1, UnwindTurn
    <3>3. what = "region"
      <4>1. \A n \in 1..6 : FailScript[7 - n] \notin {"node", "class", "cdev"}
        BY DEF FailScript
      <4> QED
        BY <3>1, <3>2, <4>1
    <3>4. Left(d) = 6
      <4>1. \A n \in 1..6 : FailScript[7 - n] = "region" <=> n = 6
        BY ScriptPlaces
      <4>2. Left(d) \in 1..6 /\ FailScript[7 - Left(d)] = "region"
        BY <3>2, <3>3
      <4> QED
        BY <4>1, <4>2
    <3>5. cdev' = cdev /\ held' = [held EXCEPT ![devt] = held[devt] \ {"region"}]
      BY <1>14, <3>1, <3>3 DEF ReleaseChr, Releasing
    <3>6. /\ ChrOf(d) \subseteq {"region"} /\ cdev = None /\ {devt, class} \subseteq {None, d}
          /\ ChrOf(d) # {} => devt = d
      BY <2>1 DEF ChrOK
    <3>7. ChrOf(d)' = {}
      <4>1. CASE devt = d
        <5>1. held'[d] = held[d] \ {"region"}
          BY <1>0, <3>5, <4>1
        <5> QED
          BY <3>6, <5>1 DEF ChrOf
      <4>2. CASE devt # d
        <5>1. held'[d] = held[d]
          BY <1>0, <3>5, <4>2
        <5> QED
          BY <3>6, <4>2, <5>1 DEF ChrOf
      <4> QED
        BY <4>1, <4>2
    <3>8. ~Gone(d)' /\ ~Past(d)' /\ pc'[d] \notin EarlyPoints
      BY <3>2 DEF Gone, Past, EarlyPoints
    <3> QED
      BY <2>0, <3>2, <3>5, <3>6, <3>7, <3>8 DEF ChrOK
  <2>2. CASE pc[d] = "remove"
    <3>0. devt = d /\ class = d
      BY <2>2 DEF ChrOK
    <3>1. PICK what \in {"node", "class", "cdev", "region"} :
            /\ Releasing(d, what)
            /\ IF what = "cdev" THEN cdev' = None /\ held' = held
               ELSE cdev' = cdev /\ held' = [held EXCEPT ![d] = held[d] \ {what}]
      <4>1. CASE Releasing(d, "node") /\ cdev' = cdev
                 /\ held' = [held EXCEPT ![d] = held[d] \ {"node"}]
        BY <4>1
      <4>2. CASE Releasing(d, "class") /\ cdev' = cdev
                 /\ held' = [held EXCEPT ![d] = held[d] \ {"class"}]
        BY <4>2
      <4>3. CASE Releasing(d, "cdev") /\ cdev' = None /\ held' = held
        BY <4>3
      <4>4. CASE Releasing(d, "region") /\ cdev' = cdev
                 /\ held' = [held EXCEPT ![d] = held[d] \ {"region"}]
        BY <4>4
      <4> QED
        BY <1>0, <1>14, <3>0, <4>1, <4>2, <4>3, <4>4, Zenon DEF ReleaseChr
    <3>2. /\ Left(d) \in 1..12 /\ Left(d)' = Left(d) - 1 /\ what = RemoveScript[13 - Left(d)]
          /\ pc'[d] = "remove"
      BY <1>h, <2>2, <3>1, RemoveTurn
    <3>3. /\ what = "region" => Left(d) = 1
          /\ what = "cdev" => Left(d) = 2
          /\ what = "class" => Left(d) = 3
          /\ what = "node" => Left(d) = 4
      BY <3>2, ScriptPlaces
    <3>p. /\ Left(d) = 1 => what = "region"
          /\ Left(d) = 2 => what = "cdev"
          /\ Left(d) = 3 => what = "class"
          /\ Left(d) = 4 => what = "node"
      BY <3>2, ScriptPlaces
    <3>4. /\ "node" \in held[d] => Left(d) >= 4
          /\ "class" \in held[d] => Left(d) >= 3
          /\ cdev # None => Left(d) >= 2
          /\ "region" \in held[d] => Left(d) >= 1
      BY <2>2 DEF ChrOK
    <3>5. held'[d] = IF what = "cdev" THEN held[d] ELSE held[d] \ {what}
      BY <1>0, <3>1
    <3>6. /\ "node" \in held'[d] => Left(d)' >= 4
          /\ "class" \in held'[d] => Left(d)' >= 3
          /\ cdev' # None => Left(d)' >= 2
          /\ "region" \in held'[d] => Left(d)' >= 1
      BY <3>1, <3>2, <3>3, <3>p, <3>4, <3>5
    <3>7. ~Gone(d)' /\ pc'[d] \notin EarlyPoints
      BY <3>2 DEF Gone, EarlyPoints
    <3> QED
      BY <2>0, <3>0, <3>2, <3>6, <3>7 DEF ChrOK
  <2> QED
    BY <1>14, <2>1, <2>2 DEF ReleaseChr, Releasing
<1> QED
  BY <1>1, <1>4, <1>5, <1>6, <1>7, <1>8, <1>9, <1>10, <1>11, <1>12, <1>13, <1>14, <1>15,
     <1>16, Zenon DEF ProbeStep, ReleaseStep

UnwoundInv ==
  /\ Inv /\ Unprobed
  /\ \A d \in Device : Sole(d) => ChrOK(d)

LEMMA UnwoundInit == Init => UnwoundInv
<1> SUFFICES ASSUME Init PROVE UnwoundInv
  OBVIOUS
<1>1. Inv /\ Unprobed
  BY InvInit DEF Init, Unprobed
<1>2. ASSUME NEW d \in Device PROVE ChrOK(d)
  <2>1. pc[d] = "out" /\ held[d] = {} /\ devt = None /\ cdev = None /\ class = None
    BY DEF Init
  <2> QED
    BY <2>1 DEF ChrOK, ChrOf, Past
<1> QED
  BY <1>1, <1>2 DEF UnwoundInv

LEMMA UnprobedStep ==
  ASSUME TypeOK, Unprobed, NEW d \in Device, ProbeStep(d) \/ ReleaseStep(d) \/ IsrStep(d)
  PROVE  Unprobed' /\ (IsrStep(d) \/ probes'[d] # 0) /\ probes'[d] >= probes[d]
<1> USE DEF probeVars
<1>0. probes \in [Device -> Nat] /\ pc \in [Device -> Points]
  BY DEF TypeOK, Points
<1>1. ASSUME NEW e \in Device, e # d PROVE pc'[e] = pc[e] /\ probes'[e] = probes[e]
  BY <1>1, OthersFrame
<1>2. CASE PciEnable(d)
  <2>1. probes'[d] = probes[d] + 1
    BY <1>0, <1>2 DEF PciEnable
  <2> QED
    BY <1>0, <1>1, <2>1 DEF Unprobed
<1>3. CASE ProbeStep(d) /\ ~PciEnable(d)
  <2>1. pc[d] # "out" /\ probes' = probes
    <3> USE DEF Acquire, Fail
    <3>1. CASE DmaMask(d) \/ Kzalloc(d) \/ RequestRegions(d) \/ MapBars(d)
      BY <3>1 DEF DmaMask, Kzalloc, RequestRegions, MapBars
    <3>2. CASE VecCount(d) \/ AllocVectors(d) \/ RequestIrq(d) \/ AllocateBlockDma(d)
      BY <3>2 DEF VecCount, AllocVectors, RequestIrq, AllocateBlockDma
    <3>3. CASE AllocateSglistDma(d) \/ AllocChrdev(d) \/ CdevAdd(d) \/ ClassCreate(d)
      BY <3>3 DEF AllocateSglistDma, AllocChrdev, CdevAdd, ClassCreate
    <3>4. CASE DeviceCreate(d) \/ SetDrvdata(d) \/ Claim(d) \/ EnterTable(d)
      BY <3>4 DEF DeviceCreate, SetDrvdata, Claim, EnterTable
    <3> QED
      BY <1>3, <3>1, <3>2, <3>3, <3>4, Zenon DEF ProbeStep
  <2> QED
    BY <1>0, <1>1, <2>1 DEF Unprobed
<1>4. CASE ReleaseStep(d)
  <2>1. pc[d] # "out" /\ probes' = probes
    BY <1>4 DEF ReleaseStep, Remove, ReleaseId, FreeIrq, ReleaseLocal, ReleaseChr, Return, Releasing
  <2> QED
    BY <1>0, <1>1, <2>1 DEF Unprobed
<1>5. CASE IsrStep(d)
  <2>1. UNCHANGED <<pc, probes>>
    BY <1>5 DEF IsrStep, IsrEnter, IsrReturn
  <2> QED
    BY <1>0, <1>5, <2>1 DEF Unprobed
<1> QED
  BY <1>2, <1>3, <1>4, <1>5

LEMMA UnwoundStep == UnwoundInv /\ [Next]_vars => UnwoundInv'
<1> SUFFICES ASSUME UnwoundInv, [Next]_vars PROVE UnwoundInv'
  OBVIOUS
<1> USE DEF probeVars, idVars, chrVars
<1>1. CASE UNCHANGED vars
  <2>1. Inv'
    BY <1>1, InvStutter DEF UnwoundInv
  <2>2. Unprobed' /\ UNCHANGED <<pc, todo, drvdata, held, devt, cdev, class, probes>>
    BY <1>1, Zenon DEF UnwoundInv, Unprobed, vars
  <2>3. ASSUME NEW d \in Device, Sole(d)' PROVE ChrOK(d)'
    <3>1. ChrOK(d)
      BY <2>2, <2>3, Zenon DEF UnwoundInv, Sole
    <3> QED
      BY <2>2, <3>1, ChrFrame
  <2> QED
    BY <2>1, <2>2, <2>3 DEF UnwoundInv
<1>2. ASSUME NEW e \in Device, ProbeStep(e) \/ ReleaseStep(e) \/ IsrStep(e)
      PROVE  UnwoundInv'
  <2>1. Inv'
    BY <1>2, InvStep DEF UnwoundInv
  <2>2. TypeOK /\ Holds /\ Holds' /\ IdKnown /\ probes \in [Device -> Nat]
    BY <2>1, IdsKnown DEF UnwoundInv, Inv, TypeOK
  <2>3. Unprobed' /\ (IsrStep(e) \/ probes'[e] # 0)
    BY <1>2, <2>2, UnprobedStep DEF UnwoundInv
  <2>4. ASSUME NEW d \in Device, Sole(d)' PROVE ChrOK(d)'
    <3>1. Sole(d)
      <4> SUFFICES ASSUME NEW f \in Device \ {d} PROVE probes[f] = 0
        BY DEF Sole
      <4>1. probes'[f] = 0
        BY <2>4 DEF Sole
      <4>2. CASE f = e
        <5>1. probes'[e] >= probes[e]
          BY <1>2, <2>2, UnprobedStep DEF UnwoundInv
        <5> QED
          BY <2>2, <4>1, <4>2, <5>1
      <4>3. CASE f # e
        BY <1>2, <2>2, <4>1, <4>3, OthersFrame
      <4> QED
        BY <4>2, <4>3
    <3>2. ChrOK(d)
      BY <3>1 DEF UnwoundInv
    <3>3. CASE e = d
      BY <1>2, <2>2, <3>2, <3>3, ChrStep
    <3>4. CASE e # d
      <4>1. IsrStep(e)
        BY <2>3, <2>4, <3>4 DEF Sole
      <4>2. UNCHANGED <<pc, todo, drvdata, held, devt, cdev, class>>
        BY <4>1 DEF IsrStep, IsrEnter, IsrReturn
      <4> QED
        BY <3>2, <4>2, ChrFrame
    <3> QED
      BY <3>3, <3>4
  <2> QED
    BY <2>1, <2>3, <2>4 DEF UnwoundInv
<1> QED
  BY <1>1, <1>2, NextCases

LEMMA UnwoundFollows == UnwoundInv => Unwound
<1> SUFFICES ASSUME UnwoundInv, NEW d \in Device, Gone(d)
             PROVE  /\ held[d] \cap Local = {}
                    /\ Sole(d) => held[d] \cap Chr = {} /\ cdev = None
  BY Zenon DEF Unwound
<1>1. held[d] \cap Local = {}
  BY Zenon DEF UnwoundInv, Inv, Holds, HoldsOK, RestHolds, Gone
<1>2. Sole(d) => ChrOf(d) = {} /\ cdev = None
  BY Zenon DEF UnwoundInv, ChrOK
<1> QED
  BY <1>1, <1>2 DEF ChrOf

\* Whatever call of probe failed, its label releases what was acquired until
\* then, and a remove that returns what probe acquired, but for the DMA buffers
\* and the handler; the character device too, if no other device was probed.
THEOREM LifecycleUnwound == Spec => []Unwound
BY UnwoundInit, UnwoundStep, UnwoundFollows, PTL DEF Spec
==============================================================================
