-------------------------------- MODULE SgDma --------------------------------
(***************************************************************************)
(* The scatter-gather path from end to end: sg_c2h and sg_h2c              *)
(* (fpga_driver/linux/fpdev_driver/sgdma.c), the MSI handler (fpdev_mod.c), *)
(* the SG registers (rtl/pcie_bar_register.v), the two list engines        *)
(* (rtl/sgdma_if_pcie_axis_wr.v, rtl/sgdma_if_pcie_axis_rd.v), the         *)
(* completion router between them (rtl/sgdma_if_pcie_ctrl.v) and the two   *)
(* completion counters (rtl/dma_tx_wr_irq.v, rtl/dma_rx_rd_irq.v).         *)
(*                                                                         *)
(* A call is a handshake in two phases: START=1 makes the engine fetch the *)
(* list of the user's pages and report status 1; START=2 makes it walk the *)
(* list, and a counter of bytes reports status 2.  One caller per          *)
(* direction; a page or a list is moved by one bus word, which stands for  *)
(* the completion that ends it.                                            *)
(***************************************************************************)
EXTENDS Naturals, Sequences, SequencesExt

CONSTANTS
  CallBound, \* how many calls may be made each way, for every order of them
  Pages,     \* pages of a user buffer, which are the entries of its list
  None       \* no call, no request, an idle counter

Chan == {"c2h", "h2c"}

ASSUME CallBoundAssumption == CallBound \subseteq [Chan -> Nat]
ASSUME PagesAssumption == Pages \in Nat \ {0}

Call == Chan \X Nat

\* Page p of the buffer of a call; page 0 is its list.
Entry == [of : Call \cup {None}, page : 0..Pages]

\* A read of host memory by the engine of direction to.
Read == [to : Chan, what : Entry]

ASSUME NoneAssumption == None \notin Call \cup Nat \cup Read

VARIABLES
  \* The caller of each direction.
  pc,         \* where it is in sg_c2h or sg_h2c
  serial,     \* how many calls it has made
  \* Driver state, one per direction.
  pinned,     \* the calls whose pages get_sg_list holds
  sgl,        \* the call whose list is in the coherent list buffer
  flag,       \* intr_sgc2h_status, intr_sgh2c_status
  \* The interrupt handler.
  isr,        \* where fpga_irq_handler is, "off" when it does not run
  seen,       \* the local copies of the status registers it has read
  \* The device.
  listReg,    \* whose list length the BAR registers hold
  lengthReg,  \* whose transfer length they hold
  fsm,        \* sgdma_rd_state_reg, sgdma_state_reg
  entries,    \* dma_rd_sglist_fifo, dma_wr_sglist_fifo
  asked,      \* the read its read engine is receiving, or None
  wire,       \* reads sent to the host and not answered
  counter,    \* words its completion counter has seen, or None when idle
  status,     \* C2H_SgDMA_Status_reg, H2C_SgDMA_Status_reg
  msi,        \* the MSIs whose handler has not been entered
  \* History, read by no action.
  moved,      \* the pages moved between their place and the card
  served,     \* the calls whose START=1 was taken
  calm,       \* calm[c]: no call on c has given up
  crossed,    \* an engine took a word another engine had asked for
  miscounted  \* the H2C counter counted a word the C2H engine had asked for

driverVars == <<pc, serial, pinned, sgl, flag>>
isrVars    == <<isr, seen>>
regVars    == <<listReg, lengthReg>>
engineVars == <<fsm, entries, asked, wire>>
irqVars    == <<counter, status, msi>>
history    == <<moved, served, calm, crossed, miscounted>>
vars == <<driverVars, isrVars, regVars, engineVars, irqVars, history>>

PC == {"idle", "pin", "list", "start_list", "length", "wait", "asleep",
       "giveup", "check", "read", "ack_list", "clear_list", "start_move",
       "clear", "ack", "free"}

IsrStage == {"off", "read_c2h", "read_h2c", "store_c2h", "store_h2c",
             "wake_c2h", "wake_h2c"}

\* Idle; list asked for; list in the FIFO; walking the list; waiting for the
\* user to take a page that has been read.
FsmState == {"idle", "fetch", "listed", "move", "drain"}

TypeOK ==
  /\ pc \in [Chan -> PC]
  /\ serial \in [Chan -> Nat]
  /\ pinned \subseteq Call
  /\ sgl \in [Chan -> Call \cup {None}]
  /\ flag \in [Chan -> 0..2]
  /\ isr \in IsrStage
  /\ seen \in [Chan -> 0..2]
  /\ listReg \in [Chan -> Call \cup {None}]
  /\ lengthReg \in [Chan -> Call \cup {None}]
  /\ fsm \in [Chan -> FsmState]
  /\ entries \in [Chan -> Seq(Entry)]
  /\ asked \in [Chan -> Read \cup {None}]
  /\ wire \in Seq(Read)
  /\ counter \in [Chan -> 0..(Pages - 1) \cup {None}]
  /\ status \in [Chan -> 0..2]
  /\ msi \in Nat
  /\ moved \subseteq Entry
  /\ served \subseteq Call
  /\ calm \in [Chan -> BOOLEAN]
  /\ crossed \in BOOLEAN
  /\ miscounted \in BOOLEAN

Init ==
  /\ pc = [c \in Chan |-> "idle"]
  /\ serial = [c \in Chan |-> 0]
  /\ pinned = {}
  /\ sgl = [c \in Chan |-> None]
  /\ flag = [c \in Chan |-> 0]
  /\ isr = "off"
  /\ seen = [c \in Chan |-> 0]
  /\ listReg = [c \in Chan |-> None]
  /\ lengthReg = [c \in Chan |-> None]
  /\ fsm = [c \in Chan |-> "idle"]
  /\ entries = [c \in Chan |-> <<>>]
  /\ asked = [c \in Chan |-> None]
  /\ wire = <<>>
  /\ counter = [c \in Chan |-> None]
  /\ status = [c \in Chan |-> 0]
  /\ msi = 0
  /\ moved = {}
  /\ served = {}
  /\ calm = [c \in Chan |-> TRUE]
  /\ crossed = FALSE
  /\ miscounted = FALSE

-----------------------------------------------------------------------------
(***************************************************************************)
(* sg_c2h and sg_h2c.  A write_reg or read_reg is one access at the device. *)
(***************************************************************************)

\* The call in progress on direction c, or the last one.
Op(c) == <<c, serial[c]>>

Goto(c, place) == pc' = [pc EXCEPT ![c] = place]

Return(c) == Goto(c, "idle")

\* IOCTL_SG_WR and IOCTL_SG_RD; sg_h2c returns at once for size 0, sg_c2h does
\* not.
Enter(c) ==
  /\ pc[c] = "idle"
  /\ serial' = [serial EXCEPT ![c] = @ + 1] /\ serial' \in CallBound
  /\ Goto(c, "pin") \/ (c = "h2c" /\ Return(c))
  /\ UNCHANGED <<pinned, sgl, flag, isrVars, regVars, engineVars, irqVars,
                 history>>

\* get_sg_list: pin and map the pages and write the list over the one before.
\* When it fails it has released what it took and returns NULL, which the
\* caller uses at once: the fault ends the calling thread, which holds nothing
\* here, and the next call on the direction is another thread's.
Pin(c) ==
  /\ pc[c] = "pin"
  /\ \/ /\ pinned' = pinned \cup {Op(c)}
        /\ sgl' = [sgl EXCEPT ![c] = Op(c)]
        /\ Goto(c, "list")
     \/ Return(c) /\ UNCHANGED <<pinned, sgl>>
  /\ UNCHANGED <<serial, flag, isrVars, regVars, engineVars, irqVars, history>>

\* LIST_ADDR, which never changes, and LIST_LENGTH.
WriteList(c) ==
  /\ pc[c] = "list"
  /\ listReg' = [listReg EXCEPT ![c] = Op(c)]
  /\ Goto(c, "start_list")
  /\ UNCHANGED <<serial, pinned, sgl, flag, isrVars, lengthReg,
                 engineVars, irqVars, history>>

\* Faulty variant: a START=1 while a list waits fetches the list again.
TakesStart(c) == fsm[c] \in {"idle", "listed"}

\* START=1 is a pulse, and only an idle engine looks at it.
StartTaken(c) == fsm[c] = "idle"

StartList(c) ==
  /\ pc[c] = "start_list"
  /\ Goto(c, "length")
  /\ IF StartTaken(c)
       THEN LET r == [to |-> c, what |-> [of |-> listReg[c], page |-> 0]]
            IN  /\ fsm' = [fsm EXCEPT ![c] = "fetch"]
                /\ asked' = [asked EXCEPT ![c] = r]
                /\ wire' = Append(wire, r)
                /\ served' = served \cup {Op(c)}
       ELSE UNCHANGED <<fsm, asked, wire, served>>
  /\ UNCHANGED <<serial, pinned, sgl, flag, isrVars, regVars, entries,
                 irqVars, moved, calm, crossed, miscounted>>

\* SGDMA_LENGTH.
WriteLength(c) ==
  /\ pc[c] = "length"
  /\ lengthReg' = [lengthReg EXCEPT ![c] = Op(c)]
  /\ Goto(c, "wait")
  /\ UNCHANGED <<serial, pinned, sgl, flag, isrVars, listReg, engineVars,
                 irqVars, history>>

\* A step of the caller that touches nothing but its place.
Move(c, from, to) ==
  /\ pc[c] = from
  /\ Goto(c, to)
  /\ UNCHANGED <<serial, pinned, sgl, flag, isrVars, regVars, engineVars,
                 irqVars, history>>

\* wait_event_interruptible_timeout: test and queue up.
WaitTest(c) == Move(c, "wait", IF flag[c] # 0 THEN "check" ELSE "asleep")

\* The timer runs out or a signal arrives: the condition is tested once more.
WaitEnds(c) == Move(c, "asleep", IF flag[c] # 0 THEN "check" ELSE "giveup")

\* Faulty variant: the pages stay pinned.
GiveUpPinned(c) ==
  /\ pc[c] = "giveup"
  /\ flag' = [flag EXCEPT ![c] = 0]
  /\ Return(c)
  /\ calm' = [calm EXCEPT ![c] = FALSE]
  /\ UNCHANGED <<serial, pinned, sgl, isrVars, regVars, engineVars, irqVars,
                 moved, served, crossed, miscounted>>

\* Clear the flag, release the pages and return; the engine is not told.
GiveUp(c) ==
  /\ pc[c] = "giveup"
  /\ flag' = [flag EXCEPT ![c] = 0]
  /\ pinned' = pinned \ {Op(c)}
  /\ Return(c)
  /\ calm' = [calm EXCEPT ![c] = FALSE]
  /\ UNCHANGED <<serial, sgl, isrVars, regVars, engineVars, irqVars, moved,
                 served, crossed, miscounted>>

Check(c) == Move(c, "check", IF flag[c] # 0 THEN "read" ELSE "wait")

\* Where the two directions differ: sg_c2h clears the status register before
\* it clears the flag and frees, sg_h2c after.
DoneFirst(c) == IF c = "c2h" THEN "clear" ELSE "ack"

\* Read the status register.
ReadStatus(c) ==
  Move(c, "read", IF status[c] = 1 THEN "ack_list"
                  ELSE IF status[c] = 2 THEN DoneFirst(c) ELSE "wait")

SetFlag0(c, from, to) ==
  /\ pc[c] = from
  /\ flag' = [flag EXCEPT ![c] = 0]
  /\ Goto(c, to)
  /\ UNCHANGED <<serial, pinned, sgl, isrVars, regVars, engineVars,
                 irqVars, history>>

\* The list has been read: atomic_set(flag, 0), then clear the status.
AckList(c) == SetFlag0(c, "ack_list", "clear_list")

\* Faulty variant: the status is left as it is.
LeaveList(c) == Move(c, "clear_list", "start_move")

ClearList(c) ==
  /\ pc[c] = "clear_list"
  /\ status' = [status EXCEPT ![c] = 0]
  /\ Goto(c, "start_move")
  /\ UNCHANGED <<serial, pinned, sgl, flag, isrVars, regVars, engineVars,
                 counter, msi, history>>

\* START=2 is a pulse too: the engine takes it when it has a list, and an
\* idle counter starts to count.
StartMove(c) ==
  /\ pc[c] = "start_move"
  /\ Goto(c, "wait")
  /\ fsm' = [fsm EXCEPT ![c] = IF @ = "listed" THEN "move" ELSE @]
  /\ counter' = [counter EXCEPT ![c] = IF @ = None THEN 0 ELSE @]
  /\ UNCHANGED <<serial, pinned, sgl, flag, isrVars, regVars, entries,
                 asked, wire, status, msi, history>>

\* The transfer is done: the flag,
AckDone(c) == SetFlag0(c, "ack", "free")

\* free_sg_buf, which sg_c2h returns from,
Free(c) ==
  /\ pc[c] = "free"
  /\ pinned' = pinned \ {Op(c)}
  /\ IF c = "c2h" THEN Return(c) ELSE Goto(c, "clear")
  /\ UNCHANGED <<serial, sgl, flag, isrVars, regVars, engineVars, irqVars,
                 history>>

\* and the status register, which sg_h2c returns from.
ClearDone(c) ==
  /\ pc[c] = "clear"
  /\ status' = [status EXCEPT ![c] = 0]
  /\ IF c = "c2h" THEN Goto(c, "ack") ELSE Return(c)
  /\ UNCHANGED <<serial, pinned, sgl, flag, isrVars, regVars, engineVars,
                 counter, msi, history>>

-----------------------------------------------------------------------------
(***************************************************************************)
(* The device.                                                             *)
(***************************************************************************)

\* One more word for a counter: the last one stops it.
Counted(n) == IF n = None \/ n + 1 = Pages THEN None ELSE n + 1

\* Faulty variant: the counter stops one word early.
LastWordEarly(n) == n # None /\ n + 2 >= Pages

LastWord(n) == n # None /\ n + 1 = Pages

\* A pulse makes an MSI of its own, or is covered by one still to be handled;
\* so may be others that are pending (Doorbell).
Msis(pulse) == IF \E c \in Chan : pulse[c] # 0 THEN 1..msi + 1 ELSE {msi}

\* Faulty variant: a pulse is added to what the register holds.
ReportAdded(pulse) ==
  /\ status' = [c \in Chan |-> status[c] + pulse[c]]
  /\ msi' \in Msis(pulse)

\* Faulty variant: no MSI is raised while the handler runs.
ReportMasked(pulse) ==
  /\ status' = [c \in Chan |-> IF status[c] = 0 THEN pulse[c] ELSE status[c]]
  /\ msi' \in IF isr = "off" THEN Msis(pulse) ELSE {msi}

\* Pulses on the status wires are latched by a register that is 0, and each
\* raises the MSI.
Report(pulse) ==
  /\ status' = [c \in Chan |-> IF status[c] = 0 THEN pulse[c] ELSE status[c]]
  /\ msi' \in Msis(pulse)

\* Write the page of the next entry into host memory and count it.
WritePage ==
  /\ fsm["c2h"] = "move" /\ entries["c2h"] # <<>>
  /\ moved' = moved \cup {Head(entries["c2h"])}
  /\ entries' = [entries EXCEPT !["c2h"] = Tail(@)]
  /\ fsm' = [fsm EXCEPT !["c2h"] =
               IF Len(entries["c2h"]) = 1 THEN "idle" ELSE "move"]
  /\ counter' = [counter EXCEPT !["c2h"] = Counted(@)]
  /\ Report([c \in Chan |->
               IF c = "c2h" /\ LastWord(counter[c]) THEN 2 ELSE 0])
  /\ UNCHANGED <<driverVars, isrVars, regVars, asked, wire, served, calm,
                 crossed, miscounted>>

\* Ask the host for the page of the next entry.
AskPage ==
  /\ fsm["h2c"] = "move" /\ asked["h2c"] = None /\ entries["h2c"] # <<>>
  /\ LET r == [to |-> "h2c", what |-> Head(entries["h2c"])]
     IN  /\ asked' = [asked EXCEPT !["h2c"] = r]
         /\ wire' = Append(wire, r)
  /\ entries' = [entries EXCEPT !["h2c"] = Tail(@)]
  /\ UNCHANGED <<driverVars, isrVars, regVars, fsm, irqVars, history>>

\* The entries an engine that fetches a list finds in a word: those of the
\* list in the buffer when the host answers, or nonsense.
ListIn(w) ==
  IF w.what.page = 0
    THEN [p \in 1..Pages |-> [of |-> sgl[w.to], page |-> p]]
    ELSE <<[of |-> None, page |-> 0]>>

\* Who takes a completion: every engine that is receiving one.
Takers(w) == {c \in Chan : asked[c] # None}

\* The host answers the i-th read.  Each engine takes the word as the one it
\* asked for, and the H2C counter counts it whoever asked.
Receive(i) ==
  LET w     == wire[i]
      takes == Takers(w)
      pulse == [c \in Chan |->
                  IF c \in takes /\ fsm[c] = "fetch" THEN 1
                  ELSE IF c = "h2c" /\ LastWord(counter[c]) THEN 2 ELSE 0]
  IN  /\ takes # {}
      /\ wire' = RemoveAt(wire, i)
      /\ asked' = [c \in Chan |-> IF c \in takes THEN None ELSE asked[c]]
      /\ fsm' = [c \in Chan |->
                   IF c \in takes
                     THEN IF fsm[c] = "fetch" THEN "listed" ELSE "drain"
                     ELSE fsm[c]]
      /\ entries' = [c \in Chan |->
                       IF c \in takes /\ fsm[c] = "fetch"
                         THEN entries[c] \o ListIn(w) ELSE entries[c]]
      /\ moved' = moved \cup
                    {asked[c].what : c \in {d \in takes : /\ fsm[d] = "move"
                                                          /\ asked[d] = w}}
      /\ counter' = [counter EXCEPT !["h2c"] = Counted(@)]
      /\ Report(pulse)
      /\ crossed' = (crossed \/ takes # {w.to})
      /\ miscounted' =
           (miscounted \/ (counter["h2c"] # None /\ w.to = "c2h"))
      /\ UNCHANGED <<driverVars, isrVars, regVars, served, calm>>

\* The user takes the last beat of the page: next entry, or done.
Drain ==
  /\ fsm["h2c"] = "drain"
  /\ fsm' = [fsm EXCEPT !["h2c"] =
               IF entries["h2c"] = <<>> THEN "idle" ELSE "move"]
  /\ UNCHANGED <<driverVars, isrVars, regVars, entries, asked, wire, irqVars,
                 history>>

-----------------------------------------------------------------------------
(***************************************************************************)
(* fpga_irq_handler: read both status registers, store both flags, wake.   *)
(***************************************************************************)

IsrEnter ==
  /\ isr = "off" /\ msi > 0
  /\ msi' = msi - 1
  /\ isr' = "read_c2h"
  /\ UNCHANGED <<driverVars, seen, regVars, engineVars, counter, status,
                 history>>

\* Faulty variant: the queues are woken before the flags are stored.
WakeThenStore ==
  [read_c2h |-> "read_h2c", read_h2c |-> "wake_c2h",
   wake_c2h |-> "wake_h2c", wake_h2c |-> "store_c2h",
   store_c2h |-> "store_h2c", store_h2c |-> "off"]

AfterStage ==
  [read_c2h |-> "read_h2c", read_h2c |-> "store_c2h",
   store_c2h |-> "store_h2c", store_h2c |-> "wake_c2h",
   wake_c2h |-> "wake_h2c", wake_h2c |-> "off"]

IsrRead(c) ==
  /\ isr = IF c = "c2h" THEN "read_c2h" ELSE "read_h2c"
  /\ seen' = [seen EXCEPT ![c] = status[c]]
  /\ isr' = AfterStage[isr]
  /\ UNCHANGED <<driverVars, regVars, engineVars, irqVars, history>>

IsrStore(c) ==
  /\ isr = IF c = "c2h" THEN "store_c2h" ELSE "store_h2c"
  /\ flag' = [flag EXCEPT ![c] = seen[c]]
  /\ isr' = AfterStage[isr]
  /\ UNCHANGED <<pc, serial, pinned, sgl, seen, regVars, engineVars,
                 irqVars, history>>

\* Faulty variant: only the end of the list wakes the caller.
WakesOnList(s) == s = 1

\* The values process_irq calls wake_up for.
Wakes(s) == s \in {1, 2}

\* The copies of a handler that returns are gone.
IsrWake(c) ==
  /\ isr = IF c = "c2h" THEN "wake_c2h" ELSE "wake_h2c"
  /\ pc' = [pc EXCEPT ![c] = IF @ = "asleep" /\ Wakes(seen[c])
                               THEN "wait" ELSE @]
  /\ isr' = AfterStage[isr]
  /\ seen' = IF isr' = "off" THEN [d \in Chan |-> 0] ELSE seen
  /\ UNCHANGED <<serial, pinned, sgl, flag, regVars, engineVars, irqVars,
                 history>>

-----------------------------------------------------------------------------

\* What a caller does once it is running in the driver.
DriverStep(c) ==
  \/ Pin(c) \/ WriteList(c) \/ StartList(c) \/ WriteLength(c)
  \/ WaitTest(c) \/ GiveUp(c) \/ Check(c) \/ ReadStatus(c)
  \/ AckList(c) \/ ClearList(c) \/ StartMove(c)
  \/ AckDone(c) \/ Free(c) \/ ClearDone(c)

IsrStep ==
  \/ IsrEnter
  \/ \E c \in Chan : IsrRead(c) \/ IsrStore(c) \/ IsrWake(c)

Answer == \E i \in DOMAIN wire : Receive(i)

Next ==
  \/ \E c \in Chan : Enter(c) \/ DriverStep(c) \/ WaitEnds(c)
  \/ WritePage \/ AskPage \/ Answer \/ Drain
  \/ IsrStep

Spec == Init /\ [][Next]_vars

\* The kernel schedules a runnable thread and a pending interrupt; the card's
\* user gives and takes data; the host answers.  The timer owes nothing.
Fairness ==
  /\ \A c \in Chan : WF_vars(DriverStep(c))
  /\ WF_vars(IsrStep)
  /\ WF_vars(WritePage) /\ WF_vars(AskPage)
  /\ WF_vars(Answer) /\ WF_vars(Drain)

LiveSpec == Spec /\ Fairness

-----------------------------------------------------------------------------
(***************************************************************************)
(* Properties.                                                             *)
(***************************************************************************)

IsrToRead(c) ==
  isr \in (IF c = "c2h" THEN {"read_c2h"} ELSE {"read_c2h", "read_h2c"})

IsrToStore(c) ==
  isr \in {"read_h2c", "store_c2h"} \cup
          (IF c = "c2h" THEN {} ELSE {"store_h2c"})

IsrToWake(c) ==
  isr \in {"store_h2c", "wake_c2h"} \cup
          (IF c = "c2h" THEN {} ELSE {"wake_h2c"})

\* No call on c has given up, and no word of a read has gone astray.
Clean(c) == calm[c] /\ ~crossed /\ ~miscounted

\* The entries of the list of call o, and the pages they stand for.
ListOf(o) == [p \in 1..Pages |-> [of |-> o, page |-> p]]
PagesOf(o) == {[of |-> o, page |-> p] : p \in 1..Pages}

\* No caller sleeps on a queue whose flag is set, unless the handler that set
\* it is still on its way to the wake_up (sgdma.c:502, 601; fpdev_mod.c:519-578).
NoLostWakeup ==
  \A c \in Chan :
    (pc[c] = "asleep" /\ flag[c] # 0)
      => (IsrToWake(c) /\ seen[c] = flag[c])

\* A status the device has latched and the caller has not read is on its way
\* to the flag: an MSI is pending, or the handler has yet to read it, or has
\* read it and has yet to store it, or the flag is set and the handler will
\* not overwrite it with what it read before.  Both phases use one flag and one
\* register, so the report of the second must survive the end of the first.
StatusReported ==
  \A c \in Chan :
    (Clean(c) /\ status[c] # 0
       /\ pc[c] \in {"start_list", "length", "wait", "asleep", "check", "read"})
      => \/ msi > 0
         \/ IsrToRead(c)
         \/ IsrToStore(c) /\ seen[c] = status[c]
         \/ flag[c] # 0 /\ (IsrToStore(c) => seen[c] = status[c])

\* Whenever the register says "list read", and until the caller has answered
\* with START=2, the engine stands in the one state that looks at START=2,
\* whatever was given up before: the pulse is never lost.
ListWaitsForStart ==
  \A c \in Chan :
    (status[c] = 1 \/ pc[c] \in {"ack_list", "clear_list", "start_move"})
      => fsm[c] = "listed"

\* The engine of a clean direction moves only pages get_sg_list still holds:
\* free_sg_buf must not run before the last of them has been moved.
InUse(c) ==
  {entries[c][i].of : i \in DOMAIN entries[c]} \cup
  (IF asked[c] # None /\ fsm[c] = "move" THEN {asked[c].what.of} ELSE {})

PinnedWhileInUse == \A c \in Chan : Clean(c) => InUse(c) \subseteq pinned

\* The places of a call between get_sg_list and free_sg_buf.
Holds(c) ==
  /\ pc[c] \notin {"idle", "pin"}
  /\ ~(c = "h2c" /\ pc[c] = "clear")

\* Pages are held from get_sg_list to free_sg_buf and by nobody else: every
\* return, failure and give-up included, leaves none pinned.
PinsBalance == pinned = {Op(c) : c \in {d \in Chan : Holds(d)}}

\* A call that reads status 2 on a clean direction has had all its own pages
\* moved, whatever the other direction did with the handler and the MSI.
SuccessIsOwn ==
  \A c \in Chan :
    (Clean(c) /\ pc[c] \in {"clear", "ack", "free"})
      => PagesOf(Op(c)) \subseteq moved

(***************************************************************************)
(* Ownership.  On a clean direction the engine and its counter are as far  *)
(* as the call in progress believes, or one report ahead of it.            *)
(***************************************************************************)

\* Nothing left of the call before, except that a slow user may still have to
\* take the last page of an H2C transfer.
AtRest(c) ==
  /\ fsm[c] = "idle" \/ (c = "h2c" /\ fsm[c] = "drain")
  /\ entries[c] = <<>> /\ asked[c] = None
  /\ counter[c] = None

Fetching(c) ==
  /\ fsm[c] = "fetch" /\ entries[c] = <<>> /\ counter[c] = None
  /\ asked[c] = [to |-> c, what |-> [of |-> Op(c), page |-> 0]]

Listed(c) ==
  /\ fsm[c] = "listed" /\ asked[c] = None /\ counter[c] = None
  /\ entries[c] = ListOf(Op(c))

\* As many words counted as pages moved; what is left is in the FIFO or asked.
Moving(c) ==
  /\ fsm[c] \in {"move", "drain"} /\ counter[c] \in 0..(Pages - 1)
  /\ LET done == IF asked[c] = None THEN counter[c] ELSE counter[c] + 1
     IN  entries[c] = SubSeq(ListOf(Op(c)), done + 1, Pages)
  /\ asked[c] # None =>
       asked[c] = [to |-> c, what |-> ListOf(Op(c))[counter[c] + 1]]
  /\ \A p \in 1..counter[c] : [of |-> Op(c), page |-> p] \in moved

\* What the caller may find at the device, by where it is.  A caller whose
\* START=1 was lost finds a device at rest until it gives up.
OwnedBy(c) ==
  CASE pc[c] \in {"idle", "pin", "list", "start_list"} ->
         AtRest(c) /\ status[c] = 0
    [] pc[c] \in {"length", "wait", "asleep", "giveup", "check", "read"} ->
         \/ (Fetching(c) \/ Moving(c)) /\ status[c] = 0
         \/ Listed(c) /\ status[c] = 1
         \/ AtRest(c) /\ status[c] = 2 /\ PagesOf(Op(c)) \subseteq moved
         \/ c = "h2c" /\ AtRest(c) /\ status[c] = 0 /\ Op(c) \notin served
    [] pc[c] \in {"ack_list", "clear_list"} -> Listed(c) /\ status[c] = 1
    [] pc[c] = "start_move" -> Listed(c) /\ status[c] = 0
    [] pc[c] \in {"clear", "ack", "free"} ->
         /\ AtRest(c) /\ PagesOf(Op(c)) \subseteq moved
         /\ status[c] = IF pc[c] = "clear" \/ c = "h2c" THEN 2 ELSE 0

\* On a direction where no call gave up and no word went astray, the list the
\* engine walks, its counter and its status belong to the call in progress.
Ownership == \A c \in Chan : Clean(c) => OwnedBy(c)

\* A call on a clean direction whose list start was taken returns, although its
\* timer may never run out.
StartedCallReturns ==
  \A c \in Chan :
    (pc[c] # "idle" /\ Op(c) \in served)
      ~> (pc[c] = "idle" \/ ~Clean(c))

\* "read dma data done" (sgdma.c:628): an H2C call that reads status 2 has had
\* its pages read, even while the C2H engine fetches its list.
DoneMeansRead ==
  (calm["h2c"] /\ ~crossed /\ pc["h2c"] \in {"ack", "free"})
    => PagesOf(Op("h2c")) \subseteq moved

=============================================================================
