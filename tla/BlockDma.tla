------------------------------ MODULE BlockDma ------------------------------
(***************************************************************************)
(* The block-DMA path from end to end: the ioctl threads that run          *)
(* block_c2h and block_h2c (fpga_driver/linux/fpdev_driver/block_dma.c),   *)
(* the MSI handler fpga_irq_handler / process_irq (fpdev_mod.c), and the   *)
(* device side they talk to: the start pulse and the sticky status         *)
(* register of rtl/pcie_bar_register.v, the transfer engine and its        *)
(* completion pulse (rtl/dma_tx_wr_irq.v, rtl/dma_rx_rd_irq.v), and the    *)
(* single MSI line of rtl/dma_intr_queue.v.                                *)
(*                                                                         *)
(* There is one bounce buffer, one wait queue, one completion flag and one *)
(* set of registers per direction, and no lock: every call of every thread *)
(* shares them.  A call is identified by its thread and serial number; a   *)
(* register, the engine or a buffer holds the call whose value it holds.   *)
(***************************************************************************)
EXTENDS Naturals

CONSTANTS
  Thread,    \* kernel contexts that issue ioctls
  Uses,      \* Uses[t]: the directions thread t transfers in
  MaxCalls,  \* MaxCalls[t]: bound on the calls of thread t
  None       \* no call: an idle engine, a register or buffer never written

Chan == {"c2h", "h2c"}

ASSUME UsesAssumption == Uses \in [Thread -> SUBSET Chan]
ASSUME MaxCallsAssumption == MaxCalls \in [Thread -> Nat]

Call == Thread \X Nat

ASSUME NoneAssumption == None \notin Call

Transfer == [sdram : Call, length : Call]

ASSUME NoneNotTransfer == None \notin Transfer

VARIABLES
  \* The ioctl threads.
  pc,         \* pc[t]: where thread t is in block_c2h or block_h2c
  chan,       \* chan[t]: the direction of its current or last call
  serial,     \* serial[t]: how many calls it has made
  ret,        \* ret[t]: what its last call returned
  user,       \* user[t]: the call whose data is in its buffer
  \* Driver state shared by all threads, one per direction.
  bounce,     \* c2h_bl_dma_vaddr, h2c_bl_dma_vaddr: whose data they hold
  flag,       \* intr_c2h_status, intr_h2c_status
  \* The interrupt handler.
  isr,        \* where fpga_irq_handler is, "off" when it does not run
  seen,       \* the local copies of the status registers it has read
  \* The device.
  sdramReg,   \* whose SDRAM address the BAR registers hold
  lengthReg,  \* whose length the BAR registers hold
  engine,     \* the transfer in progress, None when the engine is idle
  status,     \* C2HBlockDMA_Status_reg, H2CBlockDMA_Status_reg
  msi,        \* the MSIs whose handler has not been entered
  \* History, read by no action.
  moved,      \* the calls whose own data was moved by the engine
  clean       \* clean[c]: calls on c never overlapped, none gave up

threadVars == <<pc, chan, serial, ret, user>>
isrVars    == <<isr, seen>>
deviceVars == <<sdramReg, lengthReg, engine, status, msi>>
vars == <<threadVars, bounce, flag, isrVars, deviceVars, moved, clean>>

Bit == 0..1

PC == {"idle", "copyin", "sdram", "length", "start", "wait", "asleep",
       "giveup", "check", "read", "clear", "ack", "copyout"}

Result == {"none", "ok", "efault", "einval", "again"}

IsrStage == {"off", "read_c2h", "read_h2c", "store_c2h", "store_h2c",
             "wake_c2h", "wake_h2c"}

TypeOK ==
  /\ pc \in [Thread -> PC]
  /\ chan \in [Thread -> Chan]
  /\ serial \in [Thread -> Nat]
  /\ ret \in [Thread -> Result]
  /\ user \in [Thread -> Call \cup {None}]
  /\ bounce \in [Chan -> Call \cup {None}]
  /\ flag \in [Chan -> Bit]
  /\ isr \in IsrStage
  /\ seen \in [Chan -> Bit]
  /\ sdramReg \in [Chan -> Call \cup {None}]
  /\ lengthReg \in [Chan -> Call \cup {None}]
  /\ engine \in [Chan -> Transfer \cup {None}]
  /\ status \in [Chan -> Bit]
  /\ msi \in Nat
  /\ moved \subseteq Call
  /\ clean \in [Chan -> BOOLEAN]

Init ==
  /\ pc = [t \in Thread |-> "idle"]
  /\ chan = [t \in Thread |-> "c2h"]
  /\ serial = [t \in Thread |-> 0]
  /\ ret = [t \in Thread |-> "none"]
  /\ user = [t \in Thread |-> None]
  /\ bounce = [c \in Chan |-> None]
  /\ flag = [c \in Chan |-> 0]
  /\ isr = "off"
  /\ seen = [c \in Chan |-> 0]
  /\ sdramReg = [c \in Chan |-> None]
  /\ lengthReg = [c \in Chan |-> None]
  /\ engine = [c \in Chan |-> None]
  /\ status = [c \in Chan |-> 0]
  /\ msi = 0
  /\ moved = {}
  /\ clean = [c \in Chan |-> TRUE]

-----------------------------------------------------------------------------
(***************************************************************************)
(* Names for the state of a call.                                          *)
(***************************************************************************)

\* The call thread t is making, or made last.
Op(t) == <<t, serial[t]>>

\* t is inside block_c2h or block_h2c on direction c.
Active(t, c) == pc[t] # "idle" /\ chan[t] = c

Goto(t, place) == pc' = [pc EXCEPT ![t] = place]

Return(t, result) ==
  /\ Goto(t, "idle")
  /\ ret' = [ret EXCEPT ![t] = result]

-----------------------------------------------------------------------------
(***************************************************************************)
(* block_c2h and block_h2c.  A write_reg or read_reg is one access at the  *)
(* device, so each register the two sides share is its own step.           *)
(***************************************************************************)

\* IOCTL_BL_WR and IOCTL_BL_RD: nothing keeps a second call out.
Enter(t, c) ==
  /\ pc[t] = "idle" /\ serial[t] < MaxCalls[t] /\ c \in Uses[t]
  /\ serial' = [serial EXCEPT ![t] = @ + 1]
  /\ chan' = [chan EXCEPT ![t] = c]
  /\ Goto(t, IF c = "h2c" THEN "copyin" ELSE "sdram")
  /\ ret' = [ret EXCEPT ![t] = "none"]
  /\ clean' = [clean EXCEPT ![c] = @ /\ \A u \in Thread : ~Active(u, c)]
  /\ UNCHANGED <<user, bounce, flag, isrVars, deviceVars, moved>>

\* block_h2c: copy_from_user into the one H2C buffer.  A fault part of the
\* way through leaves the buffer with nobody's data, a mapping that fails
\* (STREAM_DMA) with the caller's; a zero size is refused.
CopyIn(t) ==
  /\ pc[t] = "copyin"
  /\ \/ /\ bounce' = [bounce EXCEPT !["h2c"] = Op(t)]
        /\ Goto(t, "sdram")
        /\ UNCHANGED ret
     \/ /\ \E data \in {None, Op(t)} : bounce' = [bounce EXCEPT !["h2c"] = data]
        /\ Return(t, "efault")
     \/ /\ Return(t, "einval")
        /\ UNCHANGED bounce
  /\ UNCHANGED <<chan, serial, user, flag, isrVars, deviceVars, moved, clean>>

WriteSdram(t) ==
  /\ pc[t] = "sdram"
  /\ sdramReg' = [sdramReg EXCEPT ![chan[t]] = Op(t)]
  /\ Goto(t, "length")
  /\ UNCHANGED <<chan, serial, ret, user, bounce, flag, isrVars, lengthReg,
                 engine, status, msi, moved, clean>>

WriteLength(t) ==
  /\ pc[t] = "length"
  /\ lengthReg' = [lengthReg EXCEPT ![chan[t]] = Op(t)]
  /\ Goto(t, "start")
  /\ UNCHANGED <<chan, serial, ret, user, bounce, flag, isrVars, sdramReg,
                 engine, status, msi, moved, clean>>

\* The engine takes the registers on a start pulse, and only when idle: a
\* pulse that arrives during a transfer is lost.
EngineOnStart(c) ==
  IF engine[c] = None
    THEN [sdram |-> sdramReg[c], length |-> lengthReg[c]]
    ELSE engine[c]

\* The write to the start register makes the pulse.
Start(t) ==
  /\ pc[t] = "start"
  /\ engine' = [engine EXCEPT ![chan[t]] = EngineOnStart(chan[t])]
  /\ Goto(t, "wait")
  /\ UNCHANGED <<chan, serial, ret, user, bounce, flag, isrVars, sdramReg,
                 lengthReg, status, msi, moved, clean>>

\* Faulty variant: the thread sleeps without testing the flag.
WaitWithoutTest(t) ==
  /\ pc[t] = "wait"
  /\ Goto(t, "asleep")
  /\ UNCHANGED <<chan, serial, ret, user, bounce, flag, isrVars, deviceVars,
                 moved, clean>>

\* wait_event_interruptible_timeout: test the flag and queue up, in one step
\* because a wake-up between the two makes the thread runnable again.
WaitTest(t) ==
  /\ pc[t] = "wait"
  /\ Goto(t, IF flag[chan[t]] # 0 THEN "check" ELSE "asleep")
  /\ UNCHANGED <<chan, serial, ret, user, bounce, flag, isrVars, deviceVars,
                 moved, clean>>

\* The timer runs out or a signal arrives while the thread sleeps.  The
\* condition is tested once more and wins.
WaitEnds(t) ==
  /\ pc[t] = "asleep"
  /\ Goto(t, IF flag[chan[t]] # 0 THEN "check" ELSE "giveup")
  /\ UNCHANGED <<chan, serial, ret, user, bounce, flag, isrVars, deviceVars,
                 moved, clean>>

\* -ERESTARTSYS or -ETIMEDOUT: clear the flag and return.  The engine is
\* left running and the status register is left alone.
GiveUp(t) ==
  /\ pc[t] = "giveup"
  /\ flag' = [flag EXCEPT ![chan[t]] = 0]
  /\ Return(t, "again")
  /\ clean' = [clean EXCEPT ![chan[t]] = FALSE]
  /\ UNCHANGED <<chan, serial, user, bounce, isrVars, deviceVars, moved>>

\* The second atomic_read after the wait.
Check(t) ==
  /\ pc[t] = "check"
  /\ Goto(t, IF flag[chan[t]] # 0 THEN "read" ELSE "wait")
  /\ UNCHANGED <<chan, serial, ret, user, bounce, flag, isrVars, deviceVars,
                 moved, clean>>

\* Faulty variant: the flag is trusted and the register not looked at.
TrustFlag(t) ==
  /\ pc[t] = "read"
  /\ Goto(t, "clear")
  /\ UNCHANGED <<chan, serial, ret, user, bounce, flag, isrVars, deviceVars,
                 moved, clean>>

\* Read the status register; unless it says done, wait again.
ReadStatus(t) ==
  /\ pc[t] = "read"
  /\ Goto(t, IF status[chan[t]] = 1 THEN "clear" ELSE "wait")
  /\ UNCHANGED <<chan, serial, ret, user, bounce, flag, isrVars, deviceVars,
                 moved, clean>>

\* Faulty variant: the status register is not cleared.
ForgetStatus(t) ==
  /\ pc[t] = "clear"
  /\ Goto(t, "ack")
  /\ UNCHANGED <<chan, serial, ret, user, bounce, flag, isrVars, deviceVars,
                 moved, clean>>

\* Write 0 to the status register.
ClearStatus(t) ==
  /\ pc[t] = "clear"
  /\ status' = [status EXCEPT ![chan[t]] = 0]
  /\ Goto(t, "ack")
  /\ UNCHANGED <<chan, serial, ret, user, bounce, flag, isrVars, sdramReg,
                 lengthReg, engine, msi, moved, clean>>

\* atomic_set(flag, 0); block_h2c returns here.
AckFlag(t) ==
  /\ pc[t] = "ack"
  /\ flag' = [flag EXCEPT ![chan[t]] = 0]
  /\ IF chan[t] = "c2h"
       THEN Goto(t, "copyout") /\ UNCHANGED ret
       ELSE Return(t, "ok")
  /\ UNCHANGED <<chan, serial, user, bounce, isrVars, deviceVars, moved, clean>>

\* block_c2h: copy_to_user.  A fault is logged and the size returned all the
\* same; a size above BLOCK_DMA_BUF_SIZE is copied and then refused.
CopyOut(t) ==
  /\ pc[t] = "copyout"
  /\ \E copied \in {bounce["c2h"], None} : user' = [user EXCEPT ![t] = copied]
  /\ \E result \in {"ok", "einval"} : Return(t, result)
  /\ UNCHANGED <<chan, serial, bounce, flag, isrVars, deviceVars, moved, clean>>

-----------------------------------------------------------------------------
(***************************************************************************)
(* The device.                                                             *)
(***************************************************************************)

\* A pulse makes an MSI of its own, or is covered by one still to be handled;
\* so may be others that are pending (Doorbell).
RaiseMsi == msi' \in 1..msi + 1

\* Faulty variant: the status register counts pulses.
CountStatus(c) == [status EXCEPT ![c] = @ + 1]

\* The status register takes the completion pulse only when it is zero.
LatchStatus(c) == [status EXCEPT ![c] = IF @ = 0 THEN 1 ELSE @]

\* The transfer belongs to the call whose registers it was started with and
\* whose data the H2C buffer holds.
Moved(c) ==
  {o \in {engine[c].sdram} : /\ engine[c].length = o
                             /\ c = "h2c" => bounce[c] = o}

\* The last byte of a transfer: C2H data is in the host buffer, H2C data in
\* the card, and the engine is idle again.
Transferred(c) ==
  /\ engine[c] # None
  /\ engine' = [engine EXCEPT ![c] = None]
  /\ moved' = moved \cup Moved(c)
  /\ bounce' = IF c = "c2h" THEN [bounce EXCEPT ![c] = engine[c].sdram]
                            ELSE bounce

\* Faulty variant: no MSI is raised while the handler runs.
CompleteMasked(c) ==
  /\ Transferred(c)
  /\ status' = LatchStatus(c)
  /\ IF isr = "off" THEN RaiseMsi ELSE UNCHANGED msi
  /\ UNCHANGED <<threadVars, flag, isrVars, sdramReg, lengthReg, clean>>

\* The completion pulse is latched as status and raises the MSI line.
Complete(c) ==
  /\ Transferred(c)
  /\ status' = LatchStatus(c)
  /\ RaiseMsi
  /\ UNCHANGED <<threadVars, flag, isrVars, sdramReg, lengthReg, clean>>

\* The pulse falls in the cycle in which a driver write clears the status:
\* the write has priority and the pulse is lost, but the MSI is raised.
CompleteDuringClear(t) ==
  /\ pc[t] = "clear"
  /\ Transferred(chan[t])
  /\ status' = [status EXCEPT ![chan[t]] = 0]
  /\ RaiseMsi
  /\ Goto(t, "ack")
  /\ UNCHANGED <<chan, serial, ret, user, flag, isrVars, sdramReg, lengthReg,
                 clean>>

-----------------------------------------------------------------------------
(***************************************************************************)
(* fpga_irq_handler.  Linux never runs it twice at once: an MSI that comes *)
(* while it runs makes it run again.                                       *)
(***************************************************************************)

IsrEnter ==
  /\ isr = "off" /\ msi > 0
  /\ msi' = msi - 1
  /\ isr' = "read_c2h"
  /\ UNCHANGED <<threadVars, bounce, flag, seen, sdramReg, lengthReg, engine,
                 status, moved, clean>>

\* Faulty variant: the queues are woken before the flags are stored.
WakeThenStore ==
  [read_c2h |-> "read_h2c", read_h2c |-> "wake_c2h",
   wake_c2h |-> "wake_h2c", wake_h2c |-> "store_c2h",
   store_c2h |-> "store_h2c", store_h2c |-> "off"]

\* The next stage of the handler.
AfterStage ==
  [read_c2h |-> "read_h2c", read_h2c |-> "store_c2h",
   store_c2h |-> "store_h2c", store_h2c |-> "wake_c2h",
   wake_c2h |-> "wake_h2c", wake_h2c |-> "off"]

IsrNextStage == isr' = AfterStage[isr]

IsrRead(c) ==
  /\ isr = IF c = "c2h" THEN "read_c2h" ELSE "read_h2c"
  /\ seen' = [seen EXCEPT ![c] = status[c]]
  /\ IsrNextStage
  /\ UNCHANGED <<threadVars, bounce, flag, deviceVars, moved, clean>>

\* process_irq: atomic_set of what was read, whether 1 or 0.
IsrStore(c) ==
  /\ isr = IF c = "c2h" THEN "store_c2h" ELSE "store_h2c"
  /\ flag' = [flag EXCEPT ![c] = seen[c]]
  /\ IsrNextStage
  /\ UNCHANGED <<threadVars, bounce, seen, deviceVars, moved, clean>>

\* wake_up: every thread asleep on the queue tests its condition again.
Woken(c) ==
  [t \in Thread |-> IF pc[t] = "asleep" /\ chan[t] = c THEN "wait" ELSE pc[t]]

IsrWake(c) ==
  /\ isr = IF c = "c2h" THEN "wake_c2h" ELSE "wake_h2c"
  /\ pc' = IF seen[c] = 1 THEN Woken(c) ELSE pc
  /\ IsrNextStage
  /\ UNCHANGED <<chan, serial, ret, user, bounce, flag, seen, deviceVars,
                 moved, clean>>

-----------------------------------------------------------------------------

\* What a thread does once it is running in the driver.
DriverStep(t) ==
  \/ CopyIn(t) \/ WriteSdram(t) \/ WriteLength(t) \/ Start(t)
  \/ WaitTest(t) \/ GiveUp(t) \/ Check(t) \/ ReadStatus(t)
  \/ ClearStatus(t) \/ AckFlag(t) \/ CopyOut(t)

ThreadStep(t) ==
  \/ \E c \in Chan : Enter(t, c)
  \/ DriverStep(t)
  \/ WaitEnds(t)
  \/ CompleteDuringClear(t)

IsrStep ==
  \/ IsrEnter
  \/ \E c \in Chan : IsrRead(c) \/ IsrStore(c) \/ IsrWake(c)

Next ==
  \/ \E t \in Thread : ThreadStep(t)
  \/ \E c \in Chan : Complete(c)
  \/ IsrStep

Spec == Init /\ [][Next]_vars

\* The kernel schedules a runnable thread and a pending interrupt.
DriverFairness ==
  /\ \A t \in Thread : WF_vars(DriverStep(t))
  /\ WF_vars(IsrStep)

\* The engine finishes every transfer it started.
DeviceFairness == \A c \in Chan : WF_vars(Complete(c))

LiveSpec == Spec /\ DriverFairness /\ DeviceFairness

-----------------------------------------------------------------------------
(***************************************************************************)
(* Properties.                                                             *)
(***************************************************************************)

IsrToRead(c) ==
  isr \in (IF c = "c2h" THEN {"read_c2h"} ELSE {"read_c2h", "read_h2c"})

IsrToStore(c) ==
  isr \in {"read_h2c", "store_c2h"} \cup
          (IF c = "c2h" THEN {} ELSE {"store_h2c"})

IsrToWake(c) ==
  isr \in {"store_h2c", "wake_c2h"} \cup
          (IF c = "c2h" THEN {} ELSE {"wake_h2c"})

\* No thread sleeps on a queue whose flag is set, unless the handler that set
\* the flag is still on its way to the wake_up: process_irq must store before
\* it wakes (fpdev_mod.c:493-498), and the wait must test after it queues.
NoLostWakeup ==
  \A t \in Thread :
    (pc[t] = "asleep" /\ flag[chan[t]] = 1)
      => (IsrToWake(chan[t]) /\ seen[chan[t]] = 1)

\* A completion the device has latched is never forgotten on its way to the
\* flag: an MSI is pending, or the running handler has yet to read this
\* register, or it has read 1 and has yet to store it, or the flag is set and
\* the running handler will not overwrite it with a 0 it read before.  Holds
\* as long as calls on the direction did not overlap or give up.
CompletionReported ==
  \A c \in Chan :
    (clean[c] /\ status[c] = 1)
      => \/ msi > 0
         \/ IsrToRead(c)
         \/ IsrToStore(c) /\ seen[c] = 1
         \/ flag[c] = 1 /\ ~IsrToStore(c)

\* A call that found its transfer complete found its own: its data went with
\* its own address and length, and the shared C2H buffer it is about to hand
\* to the user holds its data.  Traffic on the other direction, which shares
\* the handler and the MSI, must not disturb that.
SuccessIsOwn ==
  \A t \in Thread :
    (clean[chan[t]] /\ pc[t] \in {"ack", "copyout"})
      => /\ Op(t) \in moved
         /\ chan[t] = "c2h" => bounce["c2h"] = Op(t)

(***************************************************************************)
(* Ownership.  On a direction whose calls have neither overlapped nor      *)
(* given up, the state of the device belongs to the one call in progress,  *)
(* and how far the device is follows from where that call is.              *)
(***************************************************************************)

\* Places before the engine is started, and between the start and the moment
\* the call has read the status register as done.
Preparing == {"copyin", "sdram", "length", "start"}
Waiting   == {"wait", "asleep", "giveup", "check", "read"}

\* The engine works on t's call, with t's registers and buffer.
Running(t, c) ==
  /\ engine[c] = [sdram |-> Op(t), length |-> Op(t)]
  /\ status[c] = 0
  /\ c = "h2c" => bounce[c] = Op(t)

\* t's data has been moved and the engine is idle.
Delivered(t, c) ==
  /\ engine[c] = None
  /\ Op(t) \in moved
  /\ c = "c2h" => bounce[c] = Op(t)

OwnedBy(t, c) ==
  /\ pc[t] \in Preparing => engine[c] = None /\ status[c] = 0
  /\ pc[t] \in {"length", "start"} => sdramReg[c] = Op(t)
  /\ pc[t] = "start" => lengthReg[c] = Op(t)
  /\ (c = "h2c" /\ pc[t] \in {"sdram", "length", "start"}) => bounce[c] = Op(t)
  /\ pc[t] \in Waiting => Running(t, c) \/ (Delivered(t, c) /\ status[c] = 1)
  /\ pc[t] = "clear" => Delivered(t, c) /\ status[c] = 1
  /\ pc[t] \in {"ack", "copyout"} => Delivered(t, c) /\ status[c] = 0

Exclusive(c) ==
  \A t, u \in Thread : (Active(t, c) /\ Active(u, c)) => t = u

Quiet(c) ==
  (\A t \in Thread : ~Active(t, c)) => engine[c] = None /\ status[c] = 0

OwnInv(c) ==
  clean[c] => /\ Exclusive(c)
              /\ Quiet(c)
              /\ \A t \in Thread : Active(t, c) => OwnedBy(t, c)

\* The two ends of the data path are places of one direction only.
PlaceOK ==
  \A t \in Thread : /\ pc[t] = "copyin"  => chan[t] = "h2c"
                    /\ pc[t] = "copyout" => chan[t] = "c2h"

\* On a direction whose calls have neither overlapped nor given up, the device
\* belongs to the one call in progress and is as far as that call believes.
Ownership == PlaceOK /\ \A c \in Chan : OwnInv(c)

\* The same without the proviso, as README.md:44 tells the story: the thread
\* is released when its transfer is complete and copies out its data.
SuccessIsAlwaysOwn ==
  \A t \in Thread :
    pc[t] = "copyout" => bounce["c2h"] = Op(t)

\* Every call returns.
EveryCallReturns ==
  \A t \in Thread : pc[t] # "idle" ~> pc[t] = "idle"

=============================================================================
