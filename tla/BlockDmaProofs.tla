--------------------------- MODULE BlockDmaProofs ---------------------------
(***************************************************************************)
(* Proofs about BlockDma, for any set of threads, any choice of the        *)
(* directions they use and any bound on their calls.                       *)
(***************************************************************************)
EXTENDS BlockDma, TLAPS

(***************************************************************************)
(* Next, split into its actions: what a step preserves is proved action by *)
(* action from these cases.                                                *)
(***************************************************************************)
LEMMA NextCases ==
  ASSUME [Next]_vars
  PROVE  \/ \E t \in Thread, c \in Chan : Enter(t, c)
         \/ \E t \in Thread :
              \/ CopyIn(t) \/ WriteSdram(t) \/ WriteLength(t) \/ Start(t)
              \/ WaitTest(t) \/ WaitEnds(t) \/ GiveUp(t) \/ Check(t)
              \/ ReadStatus(t) \/ ClearStatus(t) \/ AckFlag(t) \/ CopyOut(t)
              \/ CompleteDuringClear(t)
         \/ \E c \in Chan : Complete(c) \/ IsrRead(c) \/ IsrStore(c) \/ IsrWake(c)
         \/ IsrEnter
         \/ UNCHANGED vars
BY Zenon DEF Next, ThreadStep, DriverStep, IsrStep

-----------------------------------------------------------------------------

LEMMA OpIsCall ==
  ASSUME TypeOK, NEW t \in Thread
  PROVE  Op(t) \in Call
BY DEF TypeOK, Op, Call

(***************************************************************************)
(* TypeOK is not inductive by itself: Start copies the registers into the  *)
(* engine, so the proof has to know that they have been written by then.   *)
(***************************************************************************)
RegsWritten ==
  \A t \in Thread :
    /\ pc[t] \in {"length", "start"} => sdramReg[chan[t]] \in Call
    /\ pc[t] = "start" => lengthReg[chan[t]] \in Call

LEMMA TypeInit == Init => TypeOK /\ RegsWritten
<1> SUFFICES ASSUME Init PROVE TypeOK /\ RegsWritten
  OBVIOUS
<1>1. clean \in [Chan -> BOOLEAN]
  BY Zenon DEF Init
<1>2. TypeOK
  BY <1>1 DEF Init, TypeOK, PC, Result, IsrStage, Chan, Bit
<1>3. RegsWritten
  BY DEF Init, RegsWritten
<1>4. QED
  BY <1>2, <1>3

LEMMA TypeStep == TypeOK /\ RegsWritten /\ [Next]_vars => TypeOK'
<1> SUFFICES ASSUME TypeOK, RegsWritten, [Next]_vars PROVE TypeOK'
  OBVIOUS
<1> USE DEF threadVars, isrVars, deviceVars, PC, Result
<1>1. ASSUME NEW t \in Thread, NEW c \in Chan, Enter(t, c) PROVE TypeOK'
  BY <1>1 DEF Enter, TypeOK, Goto, Active
<1>2. ASSUME NEW t \in Thread, CopyIn(t) PROVE TypeOK'
  BY <1>2, OpIsCall DEF CopyIn, TypeOK, Goto, Return
<1>3. ASSUME NEW t \in Thread, WriteSdram(t) PROVE TypeOK'
  BY <1>3, OpIsCall DEF WriteSdram, TypeOK, Goto
<1>4. ASSUME NEW t \in Thread, WriteLength(t) PROVE TypeOK'
  BY <1>4, OpIsCall DEF WriteLength, TypeOK, Goto
<1>5. ASSUME NEW t \in Thread, Start(t) PROVE TypeOK'
  BY <1>5 DEF Start, TypeOK, Goto, EngineOnStart, Transfer, RegsWritten
<1>6. ASSUME NEW t \in Thread, WaitTest(t) PROVE TypeOK'
  BY <1>6 DEF WaitTest, TypeOK, Goto
<1>7. ASSUME NEW t \in Thread, WaitEnds(t) PROVE TypeOK'
  BY <1>7 DEF WaitEnds, TypeOK, Goto
<1>8. ASSUME NEW t \in Thread, GiveUp(t) PROVE TypeOK'
  BY <1>8 DEF GiveUp, TypeOK, Goto, Return, Bit
<1>9. ASSUME NEW t \in Thread, Check(t) PROVE TypeOK'
  BY <1>9 DEF Check, TypeOK, Goto
<1>10. ASSUME NEW t \in Thread, ReadStatus(t) PROVE TypeOK'
  BY <1>10 DEF ReadStatus, TypeOK, Goto
<1>11. ASSUME NEW t \in Thread, ClearStatus(t) PROVE TypeOK'
  BY <1>11 DEF ClearStatus, TypeOK, Goto, Bit
<1>12. ASSUME NEW t \in Thread, AckFlag(t) PROVE TypeOK'
  BY <1>12 DEF AckFlag, TypeOK, Goto, Return, Bit
<1>13. ASSUME NEW t \in Thread, CopyOut(t) PROVE TypeOK'
  BY <1>13 DEF CopyOut, TypeOK, Goto, Return, Chan
<1>14. ASSUME NEW t \in Thread, CompleteDuringClear(t) PROVE TypeOK'
  BY <1>14 DEF CompleteDuringClear, RaiseMsi, Transferred, Moved, TypeOK, Goto, Bit, Transfer
<1>15. ASSUME NEW c \in Chan, Complete(c) PROVE TypeOK'
  BY <1>15 DEF Complete, RaiseMsi, Transferred, Moved, LatchStatus, TypeOK, Bit, Transfer
<1>16. ASSUME NEW c \in Chan, IsrRead(c) PROVE TypeOK'
  BY <1>16 DEF IsrRead, IsrNextStage, AfterStage, TypeOK, IsrStage
<1>17. ASSUME NEW c \in Chan, IsrStore(c) PROVE TypeOK'
  BY <1>17 DEF IsrStore, IsrNextStage, AfterStage, TypeOK, IsrStage
<1>18. ASSUME NEW c \in Chan, IsrWake(c) PROVE TypeOK'
  BY <1>18 DEF IsrWake, IsrNextStage, AfterStage, Woken, TypeOK, IsrStage
<1>19. ASSUME IsrEnter PROVE TypeOK'
  BY <1>19 DEF IsrEnter, TypeOK, IsrStage
<1>20. ASSUME UNCHANGED vars PROVE TypeOK'
  BY <1>20 DEF vars, TypeOK
<1> QED
  BY NextCases, <1>1, <1>2, <1>3, <1>4, <1>5, <1>6, <1>7, <1>8, <1>9, <1>10,
     <1>11, <1>12, <1>13, <1>14, <1>15, <1>16, <1>17, <1>18, <1>19, <1>20

LEMMA RegsStep == TypeOK /\ RegsWritten /\ [Next]_vars => RegsWritten'
<1> SUFFICES ASSUME TypeOK, RegsWritten, [Next]_vars PROVE RegsWritten'
  OBVIOUS
<1> USE DEF threadVars, isrVars, deviceVars, RegsWritten, Goto, Return
<1>1. ASSUME NEW t \in Thread, NEW c \in Chan, Enter(t, c) PROVE RegsWritten'
  BY <1>1 DEF Enter, TypeOK
<1>2. ASSUME NEW t \in Thread, CopyIn(t) \/ WaitTest(t) \/ WaitEnds(t) \/ GiveUp(t)
      PROVE RegsWritten'
  BY <1>2 DEF CopyIn, WaitTest, WaitEnds, GiveUp, TypeOK
<1>3. ASSUME NEW t \in Thread, WriteSdram(t) PROVE RegsWritten'
  BY <1>3, OpIsCall DEF WriteSdram, TypeOK
<1>4. ASSUME NEW t \in Thread, WriteLength(t) PROVE RegsWritten'
  BY <1>4, OpIsCall DEF WriteLength, TypeOK
<1>5. ASSUME NEW t \in Thread, Start(t) PROVE RegsWritten'
  BY <1>5 DEF Start, TypeOK
<1>6. ASSUME NEW t \in Thread, Check(t) \/ ReadStatus(t) \/ ClearStatus(t) \/ AckFlag(t)
      PROVE RegsWritten'
  BY <1>6 DEF Check, ReadStatus, ClearStatus, AckFlag, TypeOK
<1>7. ASSUME NEW t \in Thread, CopyOut(t) \/ CompleteDuringClear(t) PROVE RegsWritten'
  BY <1>7 DEF CopyOut, CompleteDuringClear, TypeOK
<1>8. ASSUME NEW c \in Chan, Complete(c) \/ IsrRead(c) \/ IsrStore(c) PROVE RegsWritten'
  BY <1>8 DEF Complete, IsrRead, IsrStore
<1>9. ASSUME NEW c \in Chan, IsrWake(c) PROVE RegsWritten'
  BY <1>9 DEF IsrWake, Woken, TypeOK
<1>10. ASSUME IsrEnter \/ UNCHANGED vars PROVE RegsWritten'
  BY <1>10 DEF IsrEnter, vars
<1> QED
  BY NextCases, <1>1, <1>2, <1>3, <1>4, <1>5, <1>6, <1>7, <1>8, <1>9, <1>10

\* Every variable keeps its type: in particular the sticky status register and
\* the flag the handler copies it to stay bits.
THEOREM TypeCorrect == Spec => []TypeOK
BY TypeInit, TypeStep, RegsStep, PTL DEF Spec

-----------------------------------------------------------------------------
(***************************************************************************)
(* No lost wake-up.  The invariant is inductive: a thread falls asleep     *)
(* only while the flag is clear, the flag is set only by the handler's     *)
(* store, and the wake-up of that queue comes after it.                    *)
(***************************************************************************)
LEMMA WakeupInit == Init => NoLostWakeup
BY DEF Init, NoLostWakeup

LEMMA WakeupStep == TypeOK /\ NoLostWakeup /\ [Next]_vars => NoLostWakeup'
<1> SUFFICES ASSUME TypeOK, NoLostWakeup, [Next]_vars PROVE NoLostWakeup'
  OBVIOUS
<1> USE DEF threadVars, isrVars, deviceVars, NoLostWakeup, IsrToWake, Goto, Return
<1>1. ASSUME NEW t \in Thread, NEW c \in Chan, Enter(t, c) PROVE NoLostWakeup'
  BY <1>1 DEF Enter, TypeOK
<1>2. ASSUME NEW t \in Thread, CopyIn(t) \/ WriteSdram(t) \/ WriteLength(t) \/ Start(t)
      PROVE NoLostWakeup'
  BY <1>2 DEF CopyIn, WriteSdram, WriteLength, Start, TypeOK
<1>3. ASSUME NEW t \in Thread, WaitTest(t) \/ WaitEnds(t) PROVE NoLostWakeup'
  BY <1>3 DEF WaitTest, WaitEnds, TypeOK, Bit
<1>4. ASSUME NEW t \in Thread, GiveUp(t) \/ AckFlag(t) PROVE NoLostWakeup'
  BY <1>4 DEF GiveUp, AckFlag, TypeOK
<1>5. ASSUME NEW t \in Thread, Check(t) \/ ReadStatus(t) \/ ClearStatus(t)
      PROVE NoLostWakeup'
  BY <1>5 DEF Check, ReadStatus, ClearStatus, TypeOK
<1>6. ASSUME NEW t \in Thread, CopyOut(t) \/ CompleteDuringClear(t) PROVE NoLostWakeup'
  BY <1>6 DEF CopyOut, CompleteDuringClear, TypeOK
<1>7. ASSUME NEW c \in Chan, Complete(c) PROVE NoLostWakeup'
  BY <1>7 DEF Complete
<1>8. ASSUME NEW c \in Chan, IsrRead(c) PROVE NoLostWakeup'
  BY <1>8 DEF IsrRead, IsrNextStage, AfterStage, TypeOK, Chan
<1>9. ASSUME NEW c \in Chan, IsrStore(c) PROVE NoLostWakeup'
  BY <1>9 DEF IsrStore, IsrNextStage, AfterStage, TypeOK, Chan
<1>10. ASSUME NEW c \in Chan, IsrWake(c) PROVE NoLostWakeup'
  BY <1>10 DEF IsrWake, IsrNextStage, AfterStage, Woken, TypeOK, Chan
<1>11. ASSUME IsrEnter PROVE NoLostWakeup'
  BY <1>11 DEF IsrEnter
<1>12. ASSUME UNCHANGED vars PROVE NoLostWakeup'
  BY <1>12 DEF vars
<1> QED
  BY NextCases, <1>1, <1>2, <1>3, <1>4, <1>5, <1>6, <1>7, <1>8, <1>9, <1>10,
     <1>11, <1>12

\* No thread sleeps on a queue whose flag is set once the handler has passed
\* the wake_up of that queue (fpdev_mod.c:513-547, block_dma.c:132, 234).
THEOREM NoLostWakeupCorrect == Spec => []NoLostWakeup
BY TypeCorrect, WakeupInit, WakeupStep, PTL DEF Spec
-----------------------------------------------------------------------------
(***************************************************************************)
(* Ownership is inductive: see its definition in BlockDma.                 *)
(***************************************************************************)
LEMMA OwnInit == Init => Ownership
BY DEF Init, Ownership, PlaceOK, OwnInv, Exclusive, Quiet, OwnedBy, Active

LEMMA PlaceStep == TypeOK /\ PlaceOK /\ [Next]_vars => PlaceOK'
<1> SUFFICES ASSUME TypeOK, PlaceOK, [Next]_vars PROVE PlaceOK'
  OBVIOUS
<1> USE DEF threadVars, isrVars, deviceVars, Goto, Return, PlaceOK, TypeOK
<1>1. ASSUME NEW t \in Thread, NEW c \in Chan, Enter(t, c) PROVE PlaceOK'
  BY <1>1 DEF Enter, Chan
<1>2. ASSUME NEW t \in Thread, CopyIn(t) PROVE PlaceOK'
  BY <1>2 DEF CopyIn
<1>3. ASSUME NEW t \in Thread, WriteSdram(t) PROVE PlaceOK'
  BY <1>3 DEF WriteSdram
<1>4. ASSUME NEW t \in Thread, WriteLength(t) PROVE PlaceOK'
  BY <1>4 DEF WriteLength
<1>5. ASSUME NEW t \in Thread, Start(t) PROVE PlaceOK'
  BY <1>5 DEF Start
<1>6. ASSUME NEW t \in Thread, WaitTest(t) PROVE PlaceOK'
  BY <1>6 DEF WaitTest
<1>7. ASSUME NEW t \in Thread, WaitEnds(t) PROVE PlaceOK'
  BY <1>7 DEF WaitEnds
<1>8. ASSUME NEW t \in Thread, GiveUp(t) PROVE PlaceOK'
  BY <1>8 DEF GiveUp
<1>9. ASSUME NEW t \in Thread, Check(t) PROVE PlaceOK'
  BY <1>9 DEF Check
<1>10. ASSUME NEW t \in Thread, ReadStatus(t) PROVE PlaceOK'
  BY <1>10 DEF ReadStatus
<1>11. ASSUME NEW t \in Thread, ClearStatus(t) PROVE PlaceOK'
  BY <1>11 DEF ClearStatus
<1>12. ASSUME NEW t \in Thread, AckFlag(t) PROVE PlaceOK'
  BY <1>12 DEF AckFlag
<1>13. ASSUME NEW t \in Thread, CopyOut(t) PROVE PlaceOK'
  BY <1>13 DEF CopyOut
<1>14. ASSUME NEW t \in Thread, CompleteDuringClear(t) PROVE PlaceOK'
  BY <1>14 DEF CompleteDuringClear
<1>15. ASSUME NEW c \in Chan, Complete(c) PROVE PlaceOK'
  BY <1>15 DEF Complete
<1>16. ASSUME NEW c \in Chan, IsrRead(c) PROVE PlaceOK'
  BY <1>16 DEF IsrRead
<1>17. ASSUME NEW c \in Chan, IsrStore(c) PROVE PlaceOK'
  BY <1>17 DEF IsrStore
<1>18. ASSUME NEW c \in Chan, IsrWake(c) PROVE PlaceOK'
  BY <1>18 DEF IsrWake, Woken
<1>19. ASSUME IsrEnter PROVE PlaceOK'
  BY <1>19 DEF IsrEnter
<1>20. ASSUME UNCHANGED vars PROVE PlaceOK'
  BY <1>20 DEF vars
<1> QED
  BY NextCases, <1>1, <1>2, <1>3, <1>4, <1>5, <1>6, <1>7, <1>8, <1>9, <1>10,
     <1>11, <1>12, <1>13, <1>14, <1>15, <1>16, <1>17, <1>18, <1>19, <1>20

\* A step that leaves direction d alone leaves its ownership alone.
LEMMA OwnFrame ==
  ASSUME NEW d \in Chan, OwnInv(d),
         clean'[d] => clean[d],
         engine'[d] = engine[d], status'[d] = status[d], bounce'[d] = bounce[d],
         sdramReg'[d] = sdramReg[d], lengthReg'[d] = lengthReg[d],
         moved \subseteq moved',
         \A t \in Thread : /\ Active(t, d)' <=> Active(t, d)
                           /\ Active(t, d) => pc'[t] = pc[t] /\ serial'[t] = serial[t]
  PROVE  OwnInv(d)'
<1> SUFFICES ASSUME clean'[d] PROVE OwnInv(d)'
  BY DEF OwnInv
<1>1. clean[d]
  OBVIOUS
<1>2. \A t \in Thread : Active(t, d) => OwnedBy(t, d)
  BY <1>1 DEF OwnInv
<1>3. Exclusive(d) /\ Quiet(d)
  BY <1>1 DEF OwnInv
<1>4. Exclusive(d)' /\ Quiet(d)'
  BY <1>3 DEF Exclusive, Quiet, Active
<1>5. ASSUME NEW t \in Thread, Active(t, d)' PROVE OwnedBy(t, d)'
  <2>1. OwnedBy(t, d) /\ pc'[t] = pc[t] /\ Op(t)' = Op(t)
    BY <1>5, <1>2 DEF Op, Active
  <2>2. QED
    BY <2>1 DEF OwnedBy, Running, Delivered
<1>6. QED
  BY <1>4, <1>5 DEF OwnInv

\* How a call is alone on its direction.
LEMMA OwnAlone ==
  ASSUME Ownership, NEW t \in Thread, NEW d \in Chan, Active(t, d), clean[d]
  PROVE  /\ OwnedBy(t, d)
         /\ \A u \in Thread : Active(u, d) => u = t
BY DEF Ownership, OwnInv, Exclusive

LEMMA OwnStep == TypeOK /\ Ownership /\ [Next]_vars => Ownership'
<1> SUFFICES ASSUME TypeOK, Ownership, [Next]_vars, NEW d \in Chan PROVE OwnInv(d)'
  BY PlaceStep DEF Ownership
<1> USE DEF threadVars, isrVars, deviceVars, Goto, Return
<1>0. OwnInv(d) /\ PlaceOK
  BY DEF Ownership
<1>1. ASSUME NEW t \in Thread, NEW c \in Chan, Enter(t, c) PROVE OwnInv(d)'
  <2>1. CASE d # c
    BY <1>0, <1>1, <2>1, OwnFrame DEF Enter, TypeOK, Active
  <2>2. CASE d = c
    <3> SUFFICES ASSUME clean'[d] PROVE OwnInv(d)'
      BY DEF OwnInv
    <3>1. clean[d] /\ \A u \in Thread : ~Active(u, d)
      BY Zenon, <1>1, <2>2 DEF Enter, TypeOK
    <3>2. engine'[d] = None /\ status'[d] = 0
      BY <1>0, <1>1, <3>1 DEF Enter, OwnInv, Quiet
    <3>3. \A u \in Thread : Active(u, d)' => u = t
      BY <1>1, <3>1 DEF Enter, TypeOK, Active
    <3>4. OwnedBy(t, d)'
      BY <1>1, <2>2, <3>2 DEF Enter, TypeOK, OwnedBy, Preparing, Waiting
    <3>5. QED
      BY <3>2, <3>3, <3>4 DEF OwnInv, Exclusive, Quiet
  <2>3. QED
    BY <2>1, <2>2
<1>2. ASSUME NEW t \in Thread, CopyIn(t) PROVE OwnInv(d)'
  <2>1. CASE d # chan[t]
    BY <1>0, <1>2, <2>1, OwnFrame DEF CopyIn, TypeOK, Active, PlaceOK
  <2>2. CASE d = chan[t]
    <3> SUFFICES ASSUME clean[d] PROVE OwnInv(d)'
      BY <1>2 DEF OwnInv, CopyIn
    <3>1. d = "h2c" /\ Active(t, d)
      BY <1>0, <1>2, <2>2 DEF CopyIn, PlaceOK, Active
    <3>2. engine'[d] = None /\ status'[d] = 0
      BY <1>2, <3>1, OwnAlone DEF CopyIn, OwnedBy, Preparing
    <3>3. \A u \in Thread : Active(u, d)' => u = t
      BY <1>2, <3>1, OwnAlone DEF CopyIn, TypeOK, Active
    <3>4. Active(t, d)' => OwnedBy(t, d)'
      BY <1>2, <3>1, <3>2 DEF CopyIn, TypeOK, OwnedBy, Preparing, Waiting, Active, Op
    <3>5. QED
      BY <3>2, <3>3, <3>4 DEF OwnInv, Exclusive, Quiet
  <2>3. QED
    BY <2>1, <2>2
<1>3. ASSUME NEW t \in Thread, WriteSdram(t) PROVE OwnInv(d)'
  BY <1>3 DEF WriteSdram, Ownership, PlaceOK, TypeOK,
     OwnInv, Exclusive, Quiet, OwnedBy, Active, Preparing, Waiting, Running, Delivered, Op
<1>4. ASSUME NEW t \in Thread, WriteLength(t) PROVE OwnInv(d)'
  BY <1>4 DEF WriteLength, Ownership, PlaceOK, TypeOK,
     OwnInv, Exclusive, Quiet, OwnedBy, Active, Preparing, Waiting, Running, Delivered, Op
<1>5. ASSUME NEW t \in Thread, Start(t) PROVE OwnInv(d)'
  <2>1. CASE d # chan[t]
    BY <1>0, <1>5, <2>1, OwnFrame DEF Start, TypeOK, Active, PlaceOK
  <2>2. CASE d = chan[t]
    <3> SUFFICES ASSUME clean[d] PROVE OwnInv(d)'
      BY <1>5 DEF OwnInv, Start
    <3>1. Active(t, d)
      BY <1>5, <2>2 DEF Start, Active
    <3>2. \A u \in Thread : Active(u, d)' => u = t
      BY <1>5, <3>1, OwnAlone DEF Start, TypeOK, Active
    <3>3. OwnedBy(t, d)'
      BY <1>5, <2>2, <3>1, OwnAlone
         DEF Start, EngineOnStart, TypeOK, OwnedBy, Preparing, Waiting, Running, Op
    <3>4. Active(t, d)'
      BY <1>5, <3>1 DEF Start, TypeOK, Active
    <3>5. QED
      BY <3>2, <3>3, <3>4 DEF OwnInv, Exclusive, Quiet
  <2>3. QED
    BY <2>1, <2>2
<1>6. ASSUME NEW t \in Thread, WaitTest(t) PROVE OwnInv(d)'
  BY <1>6 DEF WaitTest, Ownership, PlaceOK, TypeOK,
     OwnInv, Exclusive, Quiet, OwnedBy, Active, Preparing, Waiting, Running, Delivered, Op
<1>7. ASSUME NEW t \in Thread, WaitEnds(t) PROVE OwnInv(d)'
  BY <1>7 DEF WaitEnds, Ownership, PlaceOK, TypeOK,
     OwnInv, Exclusive, Quiet, OwnedBy, Active, Preparing, Waiting, Running, Delivered, Op
<1>8. ASSUME NEW t \in Thread, GiveUp(t) PROVE OwnInv(d)'
  BY <1>8 DEF GiveUp, Ownership, PlaceOK, TypeOK,
     OwnInv, Exclusive, Quiet, OwnedBy, Active, Preparing, Waiting, Running, Delivered, Op
<1>9. ASSUME NEW t \in Thread, Check(t) PROVE OwnInv(d)'
  BY <1>9 DEF Check, Ownership, PlaceOK, TypeOK,
     OwnInv, Exclusive, Quiet, OwnedBy, Active, Preparing, Waiting, Running, Delivered, Op
<1>10. ASSUME NEW t \in Thread, ReadStatus(t) PROVE OwnInv(d)'
  BY <1>10 DEF ReadStatus, Ownership, PlaceOK, TypeOK,
     OwnInv, Exclusive, Quiet, OwnedBy, Active, Preparing, Waiting, Running, Delivered, Op
<1>11. ASSUME NEW t \in Thread, ClearStatus(t) PROVE OwnInv(d)'
  BY <1>11 DEF ClearStatus, Ownership, PlaceOK, TypeOK,
     OwnInv, Exclusive, Quiet, OwnedBy, Active, Preparing, Waiting, Running, Delivered, Op
<1>12. ASSUME NEW t \in Thread, AckFlag(t) PROVE OwnInv(d)'
  <2>1. CASE d # chan[t]
    BY <1>0, <1>12, <2>1, OwnFrame DEF AckFlag, TypeOK, Active, PlaceOK
  <2>2. CASE d = chan[t]
    <3> SUFFICES ASSUME clean[d] PROVE OwnInv(d)'
      BY <1>12 DEF OwnInv, AckFlag
    <3>1. Active(t, d)
      BY <1>12, <2>2 DEF AckFlag, Active
    <3>2. \A u \in Thread : Active(u, d)' => u = t
      BY <1>12, <3>1, OwnAlone DEF AckFlag, TypeOK, Active
    <3>3. engine'[d] = None /\ status'[d] = 0
      BY <1>12, <3>1, OwnAlone DEF AckFlag, OwnedBy, Delivered
    <3>4. Active(t, d)' => OwnedBy(t, d)'
      BY <1>12, <2>2, <3>1, OwnAlone
         DEF AckFlag, TypeOK, OwnedBy, Preparing, Waiting, Delivered, Active, Op
    <3>5. QED
      BY <3>2, <3>3, <3>4 DEF OwnInv, Exclusive, Quiet
  <2>3. QED
    BY <2>1, <2>2
<1>13. ASSUME NEW t \in Thread, CopyOut(t) PROVE OwnInv(d)'
  <2>1. CASE d # chan[t]
    BY <1>0, <1>13, <2>1, OwnFrame DEF CopyOut, TypeOK, Active, PlaceOK
  <2>2. CASE d = chan[t]
    <3> SUFFICES ASSUME clean[d] PROVE OwnInv(d)'
      BY <1>13 DEF OwnInv, CopyOut
    <3>1. Active(t, d)
      BY <1>13, <2>2 DEF CopyOut, Active
    <3>2. \A u \in Thread : Active(u, d)' => u = t
      BY <1>13, <3>1, OwnAlone DEF CopyOut, TypeOK, Active
    <3>3. engine'[d] = None /\ status'[d] = 0
      BY <1>13, <3>1, OwnAlone DEF CopyOut, OwnedBy, Delivered
    <3>4. Active(t, d)' => OwnedBy(t, d)'
      BY <1>13, <2>2, <3>1, OwnAlone
         DEF CopyOut, TypeOK, Active
    <3>5. QED
      BY <3>2, <3>3, <3>4 DEF OwnInv, Exclusive, Quiet
  <2>3. QED
    BY <2>1, <2>2
<1>14. ASSUME NEW t \in Thread, CompleteDuringClear(t) PROVE OwnInv(d)'
  <2>1. CASE d # chan[t]
    BY <1>0, <1>14, <2>1, OwnFrame DEF CompleteDuringClear, Transferred, TypeOK, Active
  <2>2. CASE d = chan[t]
    <3>1. Active(t, d) /\ engine[d] # None /\ pc[t] = "clear"
      BY <1>14, <2>2 DEF CompleteDuringClear, Transferred, Active
    <3>2. ~clean[d]
      BY <3>1, OwnAlone DEF OwnedBy, Delivered
    <3>3. QED
      BY <1>14, <3>2 DEF OwnInv, CompleteDuringClear
  <2>3. QED
    BY <2>1, <2>2
<1>15. ASSUME NEW c \in Chan, Complete(c) PROVE OwnInv(d)'
  <2>1. CASE d # c
    BY <1>0, <1>15, <2>1, OwnFrame DEF Complete, LatchStatus, Transferred, TypeOK, Active
  <2>2. CASE d = c
    <3> SUFFICES ASSUME clean[d] PROVE OwnInv(d)'
      BY <1>15 DEF OwnInv, Complete
    <3>1. PICK t \in Thread : Active(t, d)
      BY <1>0, <1>15, <2>2 DEF Complete, Transferred, OwnInv, Quiet
    <3>2. Running(t, d) /\ pc[t] \in Waiting
      BY <1>15, <2>2, <3>1, OwnAlone
         DEF Complete, Transferred, TypeOK, PC, Active, OwnedBy, Preparing, Waiting, Delivered
    <3>3. Delivered(t, d)' /\ status'[d] = 1
      BY <1>15, <2>2, <3>2, OpIsCall, NoneAssumption
         DEF Complete, Transferred, Moved, LatchStatus, TypeOK, Running, Delivered, Op
    <3>4. OwnedBy(t, d)'
      BY <1>15, <3>2, <3>3 DEF Complete, OwnedBy, Preparing, Waiting
    <3>5. \A u \in Thread : Active(u, d)' <=> u = t
      BY <1>15, <3>1, OwnAlone DEF Complete, Active
    <3>6. QED
      BY <3>4, <3>5 DEF OwnInv, Exclusive, Quiet
  <2>3. QED
    BY <2>1, <2>2
<1>16. ASSUME NEW c \in Chan, IsrRead(c) PROVE OwnInv(d)'
  BY <1>0, <1>16, OwnFrame DEF IsrRead, Active
<1>17. ASSUME NEW c \in Chan, IsrStore(c) PROVE OwnInv(d)'
  BY <1>0, <1>17, OwnFrame DEF IsrStore, Active
<1>18. ASSUME NEW c \in Chan, IsrWake(c) PROVE OwnInv(d)'
  BY <1>18 DEF IsrWake, Woken, Ownership, PlaceOK, TypeOK,
     OwnInv, Exclusive, Quiet, OwnedBy, Active, Preparing, Waiting, Running, Delivered, Op
<1>19. ASSUME IsrEnter PROVE OwnInv(d)'
  BY <1>0, <1>19, OwnFrame DEF IsrEnter, Active
<1>20. ASSUME UNCHANGED vars PROVE OwnInv(d)'
  BY <1>0, <1>20, OwnFrame DEF vars, Active
<1> QED
  BY NextCases, <1>1, <1>2, <1>3, <1>4, <1>5, <1>6, <1>7, <1>8, <1>9, <1>10,
     <1>11, <1>12, <1>13, <1>14, <1>15, <1>16, <1>17, <1>18, <1>19, <1>20

\* On a direction whose calls have neither overlapped nor given up, the device
\* belongs to the one call in progress and is as far as that call believes.
THEOREM OwnershipCorrect == Spec => []Ownership
BY TypeCorrect, OwnInit, OwnStep, PTL DEF Spec

LEMMA OwnershipSuccess == TypeOK /\ Ownership => SuccessIsOwn
BY DEF TypeOK, Ownership, OwnInv, OwnedBy, Delivered, Active, SuccessIsOwn

\* A call that read the status register as done (block_dma.c:154, 256) found
\* its own transfer complete, whatever happens on the other direction.
THEOREM SuccessIsOwnCorrect == Spec => []SuccessIsOwn
BY TypeCorrect, OwnershipCorrect, OwnershipSuccess, PTL

-----------------------------------------------------------------------------
(***************************************************************************)
(* A latched completion is on its way to the flag.  The step that could    *)
(* lose one is AckFlag: it clears the flag after the status register was   *)
(* cleared, and Ownership says that no completion can fall in between.     *)
(***************************************************************************)
Reported(c) ==
  \/ msi > 0
  \/ IsrToRead(c)
  \/ IsrToStore(c) /\ seen[c] = 1
  \/ flag[c] = 1 /\ ~IsrToStore(c)

LEMMA ReportedInit == Init => CompletionReported
BY DEF Init, CompletionReported

LEMMA ReportedStep ==
  TypeOK /\ Ownership /\ CompletionReported /\ [Next]_vars => CompletionReported'
<1> SUFFICES ASSUME TypeOK, Ownership, CompletionReported, [Next]_vars,
                    NEW d \in Chan, clean'[d], status'[d] = 1
             PROVE  Reported(d)'
  BY DEF CompletionReported, Reported
<1> USE DEF threadVars, isrVars, deviceVars
<1> DEFINE Kept == clean[d] /\ status[d] = 1
<1>0. Kept => Reported(d)
  BY DEF CompletionReported, Reported
<1>1. ASSUME NEW t \in Thread, NEW c \in Chan, Enter(t, c) PROVE Reported(d)'
  <2>1. Kept
    BY <1>1 DEF Enter, TypeOK
  <2>2. QED
    BY <1>0, <1>1, <2>1 DEF Enter, Reported, IsrToRead, IsrToStore
<1>2. ASSUME NEW t \in Thread, CopyIn(t) \/ WriteSdram(t) \/ WriteLength(t) \/ Start(t)
      PROVE Reported(d)'
  BY <1>0, <1>2 DEF CopyIn, WriteSdram, WriteLength, Start, Reported, IsrToRead, IsrToStore
<1>3. ASSUME NEW t \in Thread, WaitTest(t) \/ WaitEnds(t) \/ Check(t) \/ ReadStatus(t)
      PROVE Reported(d)'
  BY <1>0, <1>3 DEF WaitTest, WaitEnds, Check, ReadStatus, Reported, IsrToRead, IsrToStore
<1>4. ASSUME NEW t \in Thread, GiveUp(t) PROVE Reported(d)'
  <2>1. Kept /\ d # chan[t]
    BY <1>4 DEF GiveUp, TypeOK
  <2>2. QED
    BY <1>0, <1>4, <2>1 DEF GiveUp, TypeOK, Reported, IsrToRead, IsrToStore
<1>5. ASSUME NEW t \in Thread, ClearStatus(t) PROVE Reported(d)'
  BY <1>0, <1>5 DEF ClearStatus, TypeOK, Reported, IsrToRead, IsrToStore
<1>6. ASSUME NEW t \in Thread, AckFlag(t) PROVE Reported(d)'
  <2>1. Kept
    BY <1>6 DEF AckFlag
  <2>2. d # chan[t]
    BY <1>6, <2>1, OwnAlone DEF AckFlag, Active, OwnedBy
  <2>3. QED
    BY <1>0, <1>6, <2>1, <2>2 DEF AckFlag, TypeOK, Reported, IsrToRead, IsrToStore
<1>7. ASSUME NEW t \in Thread, CopyOut(t) PROVE Reported(d)'
  BY <1>0, <1>7 DEF CopyOut, Reported, IsrToRead, IsrToStore
<1>8. ASSUME NEW t \in Thread, CompleteDuringClear(t) PROVE Reported(d)'
  BY <1>8 DEF CompleteDuringClear, RaiseMsi, TypeOK, Reported
<1>9. ASSUME NEW c \in Chan, Complete(c) PROVE Reported(d)'
  BY <1>9 DEF Complete, RaiseMsi, TypeOK, Reported
<1>10. ASSUME NEW c \in Chan, IsrRead(c) PROVE Reported(d)'
  BY <1>0, <1>10 DEF IsrRead, IsrNextStage, AfterStage, TypeOK, Chan,
     Reported, IsrToRead, IsrToStore
<1>11. ASSUME NEW c \in Chan, IsrStore(c) PROVE Reported(d)'
  BY <1>0, <1>11 DEF IsrStore, IsrNextStage, AfterStage, TypeOK, Chan,
     Reported, IsrToRead, IsrToStore
<1>12. ASSUME NEW c \in Chan, IsrWake(c) PROVE Reported(d)'
  BY <1>0, <1>12 DEF IsrWake, IsrNextStage, AfterStage, TypeOK, Chan,
     Reported, IsrToRead, IsrToStore
<1>13. ASSUME IsrEnter PROVE Reported(d)'
  BY <1>13 DEF IsrEnter, Reported, IsrToRead, Chan
<1>14. ASSUME UNCHANGED vars PROVE Reported(d)'
  BY <1>0, <1>14 DEF vars, Reported, IsrToRead, IsrToStore
<1> QED
  BY NextCases, <1>1, <1>2, <1>3, <1>4, <1>5, <1>6, <1>7, <1>8, <1>9, <1>10,
     <1>11, <1>12, <1>13, <1>14

\* A completion latched in the status register is reported: an MSI is pending,
\* the running handler will see it, or the flag is set and will stay so.
THEOREM CompletionReportedCorrect == Spec => []CompletionReported
BY TypeCorrect, OwnershipCorrect, ReportedInit, ReportedStep, PTL DEF Spec

=============================================================================
