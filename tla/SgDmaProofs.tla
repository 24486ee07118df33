----------------------------- MODULE SgDmaProofs -----------------------------
(***************************************************************************)
(* Proofs about SgDma, for lists of any length and any bound on the calls. *)
(***************************************************************************)
EXTENDS SgDma, SequenceTheorems, TLAPS

(***************************************************************************)
(* Next, split into its actions.                                           *)
(***************************************************************************)
LEMMA NextCases ==
  ASSUME [Next]_vars
  PROVE  \/ \E c \in Chan :
              \/ Enter(c) \/ Pin(c) \/ WriteList(c) \/ StartList(c)
              \/ WriteLength(c) \/ WaitTest(c) \/ WaitEnds(c) \/ GiveUp(c)
              \/ Check(c) \/ ReadStatus(c) \/ AckList(c) \/ ClearList(c)
              \/ StartMove(c) \/ AckDone(c) \/ Free(c) \/ ClearDone(c)
              \/ IsrRead(c) \/ IsrStore(c) \/ IsrWake(c)
         \/ WritePage \/ AskPage \/ Drain \/ IsrEnter
         \/ \E i \in DOMAIN wire : Receive(i)
         \/ UNCHANGED vars
BY Zenon DEF Next, DriverStep, IsrStep, Answer

\* The steps of a caller that change only its place and the flag.
LEMMA MoveCases ==
  ASSUME NEW c \in Chan,
         WaitTest(c) \/ WaitEnds(c) \/ Check(c) \/ ReadStatus(c)
  PROVE  \E from, to \in PC : Move(c, from, to) /\ from \notin {"idle", "pin", "clear"}
                              /\ to \notin {"idle", "pin"}
BY DEF WaitTest, WaitEnds, Check, ReadStatus, DoneFirst, PC

-----------------------------------------------------------------------------
(***************************************************************************)
(* Types.  TypeOK is inductive: one lemma for the sequences, one step per  *)
(* action.                                                                 *)
(***************************************************************************)
LEMMA TypeInit == Init => TypeOK
<1> SUFFICES ASSUME Init PROVE TypeOK
  OBVIOUS
<1>1. calm \in [Chan -> BOOLEAN] /\ crossed \in BOOLEAN
      /\ miscounted \in BOOLEAN
  BY Zenon DEF Init
<1>2. /\ pc \in [Chan -> PC] /\ serial \in [Chan -> Nat] /\ flag \in [Chan -> 0..2]
      /\ seen \in [Chan -> 0..2] /\ status \in [Chan -> 0..2] /\ isr \in IsrStage
      /\ fsm \in [Chan -> FsmState]
  BY DEF Init, PC, IsrStage, FsmState
<1>3. /\ sgl \in [Chan -> Call \cup {None}] /\ listReg \in [Chan -> Call \cup {None}]
      /\ lengthReg \in [Chan -> Call \cup {None}] /\ asked \in [Chan -> Read \cup {None}]
      /\ counter \in [Chan -> 0..(Pages - 1) \cup {None}]
  BY DEF Init
<1>4. entries \in [Chan -> Seq(Entry)] /\ wire \in Seq(Read)
  BY DEF Init
<1>5. pinned \subseteq Call /\ moved \subseteq Entry /\ served \subseteq Call
      /\ msi \in Nat
  BY DEF Init
<1> QED
  BY <1>1, <1>2, <1>3, <1>4, <1>5, Zenon DEF TypeOK

LEMMA OpIsCall ==
  ASSUME TypeOK, NEW c \in Chan
  PROVE  Op(c) \in Call
BY DEF TypeOK, Op, Call

\* What an engine finds in a word is a list of entries.
LEMMA ListInType ==
  ASSUME TypeOK, NEW w \in Read
  PROVE  ListIn(w) \in Seq(Entry)
<1>1. w.to \in Chan /\ w.what \in Entry
  BY DEF Read
<1>2. sgl[w.to] \in Call \cup {None}
  BY <1>1 DEF TypeOK
<1>3. Pages \in Nat
  BY PagesAssumption
<1>4. \A p \in 1..Pages : [of |-> sgl[w.to], page |-> p] \in Entry
  BY <1>2, <1>3 DEF Entry
<1>5. [p \in 1..Pages |-> [of |-> sgl[w.to], page |-> p]] \in Seq(Entry)
  BY <1>3, <1>4, IsASeq
<1>6. [of |-> None, page |-> 0] \in Entry
  BY <1>3 DEF Entry
<1>7. <<[of |-> None, page |-> 0]>> \in Seq(Entry)
  BY <1>6
<1> QED
  BY <1>5, <1>7, Zenon DEF ListIn

LEMMA RemoveType ==
  ASSUME NEW S, NEW s \in Seq(S), NEW i \in DOMAIN s
  PROVE  RemoveAt(s, i) \in Seq(S)
<1>1. i \in 1..Len(s) /\ Len(s) \in Nat
  OBVIOUS
<1>2. SubSeq(s, 1, i - 1) \in Seq(S)
  BY <1>1, SubSeqProperties
<1>3. SubSeq(s, i + 1, Len(s)) \in Seq(S)
  BY <1>1, SubSeqProperties
<1> QED
  BY <1>2, <1>3, ConcatProperties DEF RemoveAt

LEMMA CountedType ==
  ASSUME NEW n \in 0..(Pages - 1) \cup {None}
  PROVE  Counted(n) \in 0..(Pages - 1) \cup {None}
<1>1. CASE n = None \/ n + 1 = Pages
  BY <1>1 DEF Counted
<1>2. CASE ~(n = None \/ n + 1 = Pages)
  <2>1. n \in 0..(Pages - 1) /\ n + 1 # Pages /\ Pages \in Nat
    BY <1>2, PagesAssumption
  <2>2. n + 1 \in 0..(Pages - 1)
    BY <2>1
  <2> QED
    BY <1>2, <2>2 DEF Counted
<1> QED
  BY <1>1, <1>2

LEMMA ReportType ==
  ASSUME TypeOK, NEW pulse \in [Chan -> 0..2], Report(pulse)
  PROVE  status' \in [Chan -> 0..2] /\ msi' \in Nat
<1>1. status' \in [Chan -> 0..2]
  BY DEF Report, TypeOK
<1>2. msi' \in Nat
  BY DEF Report, Msis, TypeOK
<1> QED
  BY <1>1, <1>2

LEMMA ReceiveType ==
  ASSUME TypeOK, NEW i \in DOMAIN wire, Receive(i)
  PROVE  TypeOK'
<1> DEFINE w == wire[i]
           takes == Takers(w)
           pulse == [c \in Chan |->
                       IF c \in takes /\ fsm[c] = "fetch" THEN 1
                       ELSE IF c = "h2c" /\ LastWord(counter[c]) THEN 2 ELSE 0]
<1>1. w \in Read
  BY DEF TypeOK
<1>2. pulse \in [Chan -> 0..2]
  OBVIOUS
<1>3. Report(pulse)
  BY Zenon DEF Receive
<1>4. ListIn(w) \in Seq(Entry)
  BY <1>1, ListInType
<1>5. wire' \in Seq(Read)
  BY RemoveType DEF Receive, TypeOK
<1>6. asked' = [c \in Chan |-> IF c \in takes THEN None ELSE asked[c]]
  BY Zenon DEF Receive
<1>7. asked' \in [Chan -> Read \cup {None}]
  BY <1>6 DEF TypeOK
<1>8. fsm' \in [Chan -> FsmState]
  <2>1. fsm' = [c \in Chan |->
                 IF c \in takes
                   THEN IF fsm[c] = "fetch" THEN "listed" ELSE "drain"
                   ELSE fsm[c]]
    BY Zenon DEF Receive
  <2> QED
    BY <2>1 DEF TypeOK, FsmState
<1>9. entries' \in [Chan -> Seq(Entry)]
  <2>1. entries' = [c \in Chan |->
                     IF c \in takes /\ fsm[c] = "fetch"
                       THEN entries[c] \o ListIn(w) ELSE entries[c]]
    BY Zenon DEF Receive
  <2>2. \A c \in Chan : entries[c] \in Seq(Entry)
    BY DEF TypeOK
  <2>3. \A c \in Chan : entries[c] \o ListIn(w) \in Seq(Entry)
    BY <1>4, <2>2, ConcatProperties
  <2> HIDE DEF takes, w
  <2> QED
    BY <2>1, <2>2, <2>3
<1>10. moved' \subseteq Entry
  <2>1. moved' = moved \cup
                   {asked[c].what : c \in {d \in takes : /\ fsm[d] = "move"
                                                         /\ asked[d] = w}}
    BY Zenon DEF Receive
  <2>2. \A d \in takes : asked[d] = w => asked[d].what \in Entry
    BY <1>1 DEF Read
  <2>3. moved \subseteq Entry
    BY DEF TypeOK
  <2> HIDE DEF takes, w
  <2> QED
    BY <2>1, <2>2, <2>3
<1>11. counter' \in [Chan -> 0..(Pages - 1) \cup {None}]
  <2>1. counter' = [counter EXCEPT !["h2c"] = Counted(counter["h2c"])]
    BY DEF Receive
  <2>2. Counted(counter["h2c"]) \in 0..(Pages - 1) \cup {None}
    BY CountedType DEF TypeOK, Chan
  <2> QED
    BY <2>1, <2>2 DEF TypeOK
<1>12. status' \in [Chan -> 0..2] /\ msi' \in Nat
  BY <1>2, <1>3, ReportType
<1>13. crossed' \in BOOLEAN /\ miscounted' \in BOOLEAN
  BY Zenon DEF Receive, TypeOK
<1>14. UNCHANGED <<driverVars, isrVars, regVars, served, calm>>
  BY Zenon DEF Receive
<1> HIDE DEF w, takes, pulse
<1> QED
  BY <1>5, <1>7, <1>8, <1>9, <1>10, <1>11, <1>12, <1>13, <1>14
     DEF TypeOK, driverVars, isrVars, regVars

LEMMA TypeStep == TypeOK /\ [Next]_vars => TypeOK'
<1> SUFFICES ASSUME TypeOK, [Next]_vars PROVE TypeOK'
  OBVIOUS
<1> USE DEF driverVars, isrVars, regVars, engineVars, irqVars, history, Goto, Return
<1>1. ASSUME NEW c \in Chan, Enter(c) PROVE TypeOK'
  <2>1. pc' \in [Chan -> PC]
    BY <1>1 DEF Enter, TypeOK, PC
  <2>2. serial' \in [Chan -> Nat]
    BY <1>1 DEF Enter, TypeOK
  <2> QED
    BY <1>1, <2>1, <2>2 DEF Enter, TypeOK
<1>2. ASSUME NEW c \in Chan, Pin(c) PROVE TypeOK'
  <2>1. pc' \in [Chan -> PC]
    BY <1>2, ZenonT(60) DEF Pin, TypeOK, PC
  <2>2. pinned' \subseteq Call /\ sgl' \in [Chan -> Call \cup {None}]
    BY <1>2, OpIsCall, ZenonT(60) DEF Pin, TypeOK
  <2> QED
    BY <1>2, <2>1, <2>2 DEF Pin, TypeOK
<1>3. ASSUME NEW c \in Chan, WriteList(c) PROVE TypeOK'
  BY <1>3, OpIsCall DEF WriteList, TypeOK, PC
<1>4. ASSUME NEW c \in Chan, StartList(c) PROVE TypeOK'
  <2> DEFINE r == [to |-> c, what |-> [of |-> listReg[c], page |-> 0]]
  <2>1. r \in Read
    BY PagesAssumption DEF TypeOK, Read, Entry
  <2>2. Append(wire, r) \in Seq(Read)
    BY <2>1 DEF TypeOK
  <2> HIDE DEF r
  <2>3. \/ /\ fsm' = [fsm EXCEPT ![c] = "fetch"] /\ asked' = [asked EXCEPT ![c] = r]
           /\ wire' = Append(wire, r) /\ served' = served \cup {Op(c)}
        \/ UNCHANGED <<fsm, asked, wire, served>>
    BY <1>4, Zenon DEF StartList, r
  <2>4. fsm' \in [Chan -> FsmState]
    BY <2>3 DEF TypeOK, FsmState
  <2>5. asked' \in [Chan -> Read \cup {None}]
    BY <2>1, <2>3 DEF TypeOK
  <2>6. wire' \in Seq(Read)
    BY <2>2, <2>3 DEF TypeOK
  <2>7. served' \subseteq Call
    BY <2>3, OpIsCall DEF TypeOK
  <2> QED
    BY <1>4, <2>4, <2>5, <2>6, <2>7 DEF StartList, TypeOK, PC
<1>5. ASSUME NEW c \in Chan, WriteLength(c) PROVE TypeOK'
  BY <1>5, OpIsCall DEF WriteLength, TypeOK, PC
<1>6. ASSUME NEW c \in Chan, NEW from \in PC, NEW to \in PC, Move(c, from, to)
      PROVE TypeOK'
  BY <1>6 DEF Move, TypeOK
<1>7. ASSUME NEW c \in Chan, GiveUp(c) PROVE TypeOK'
  BY <1>7 DEF GiveUp, TypeOK, PC
<1>8. ASSUME NEW c \in Chan, AckList(c) \/ AckDone(c) PROVE TypeOK'
  <2>1. pc' \in [Chan -> PC]
    BY <1>8 DEF AckList, AckDone, SetFlag0, TypeOK, PC
  <2>2. /\ flag' = [flag EXCEPT ![c] = 0]
        /\ UNCHANGED <<serial, pinned, sgl, isrVars, regVars, engineVars, irqVars,
                       history>>
    BY <1>8, Zenon DEF AckList, AckDone, SetFlag0
  <2> QED
    BY <2>1, <2>2 DEF TypeOK
<1>9. ASSUME NEW c \in Chan, ClearList(c) PROVE TypeOK'
  BY <1>9 DEF ClearList, TypeOK, PC
<1>10. ASSUME NEW c \in Chan, StartMove(c) PROVE TypeOK'
  <2>1. 0 \in 0..(Pages - 1)
    BY PagesAssumption
  <2> QED
    BY <1>10, <2>1 DEF StartMove, TypeOK, PC, FsmState
<1>11. ASSUME NEW c \in Chan, Free(c) PROVE TypeOK'
  BY <1>11 DEF Free, TypeOK, PC
<1>12. ASSUME NEW c \in Chan, ClearDone(c) PROVE TypeOK'
  <2>1. pc' \in [Chan -> PC]
    <3>1. pc' = [pc EXCEPT ![c] = "ack"] \/ pc' = [pc EXCEPT ![c] = "idle"]
      BY <1>12, Zenon DEF ClearDone
    <3> QED
      BY <3>1 DEF TypeOK, PC
  <2>2. /\ status' = [status EXCEPT ![c] = 0]
        /\ UNCHANGED <<serial, pinned, sgl, flag, isrVars, regVars, engineVars,
                       counter, msi, history>>
    BY <1>12, Zenon DEF ClearDone
  <2> QED
    BY <2>1, <2>2 DEF TypeOK
<1>13. ASSUME NEW c \in Chan, IsrRead(c) PROVE TypeOK'
  BY <1>13 DEF IsrRead, AfterStage, TypeOK, IsrStage
<1>14. ASSUME NEW c \in Chan, IsrStore(c) PROVE TypeOK'
  BY <1>14 DEF IsrStore, AfterStage, TypeOK, IsrStage
<1>15. ASSUME NEW c \in Chan, IsrWake(c) PROVE TypeOK'
  BY <1>15 DEF IsrWake, AfterStage, TypeOK, IsrStage, PC
<1>16. ASSUME WritePage PROVE TypeOK'
  <2> DEFINE pulse == [c \in Chan |-> IF c = "c2h" /\ LastWord(counter[c]) THEN 2 ELSE 0]
  <2>1. pulse \in [Chan -> 0..2]
    OBVIOUS
  <2>2. Report(pulse)
    BY <1>16 DEF WritePage
  <2> HIDE DEF pulse
  <2>3. status' \in [Chan -> 0..2] /\ msi' \in Nat
    BY <2>1, <2>2, ReportType
  <2>4. entries["c2h"] \in Seq(Entry) /\ entries["c2h"] # <<>>
    BY <1>16 DEF WritePage, TypeOK, Chan
  <2>5. Head(entries["c2h"]) \in Entry /\ Tail(entries["c2h"]) \in Seq(Entry)
    BY <2>4, HeadTailProperties
  <2>6. moved' \subseteq Entry /\ entries' \in [Chan -> Seq(Entry)]
    BY <1>16, <2>5 DEF WritePage, TypeOK
  <2>7. Counted(counter["c2h"]) \in 0..(Pages - 1) \cup {None}
    BY CountedType DEF TypeOK, Chan
  <2>8. counter' \in [Chan -> 0..(Pages - 1) \cup {None}]
    BY <1>16, <2>7 DEF WritePage, TypeOK
  <2>9. fsm' \in [Chan -> FsmState]
    BY <1>16 DEF WritePage, TypeOK, FsmState
  <2> QED
    BY <1>16, <2>3, <2>6, <2>8, <2>9 DEF WritePage, TypeOK
<1>17. ASSUME AskPage PROVE TypeOK'
  <2> DEFINE r == [to |-> "h2c", what |-> Head(entries["h2c"])]
  <2>1. entries["h2c"] \in Seq(Entry) /\ entries["h2c"] # <<>>
    BY <1>17 DEF AskPage, TypeOK, Chan
  <2>2. Head(entries["h2c"]) \in Entry /\ Tail(entries["h2c"]) \in Seq(Entry)
    BY <2>1, HeadTailProperties
  <2>3. r \in Read
    BY <2>2 DEF Read, Chan
  <2>4. Append(wire, r) \in Seq(Read)
    BY <2>3 DEF TypeOK
  <2> HIDE DEF r
  <2>5. asked' = [asked EXCEPT !["h2c"] = r] /\ wire' = Append(wire, r)
    BY <1>17, Zenon DEF AskPage, r
  <2>6. asked' \in [Chan -> Read \cup {None}]
    BY <2>3, <2>5 DEF TypeOK
  <2>7. wire' \in Seq(Read)
    BY <2>4, <2>5
  <2>8. entries' \in [Chan -> Seq(Entry)]
    BY <1>17, <2>2 DEF AskPage, TypeOK
  <2> QED
    BY <1>17, <2>6, <2>7, <2>8 DEF AskPage, TypeOK
<1>18. ASSUME Drain PROVE TypeOK'
  BY <1>18 DEF Drain, TypeOK, FsmState
<1>19. ASSUME IsrEnter PROVE TypeOK'
  BY <1>19 DEF IsrEnter, TypeOK, IsrStage
<1>20. ASSUME NEW i \in DOMAIN wire, Receive(i) PROVE TypeOK'
  BY <1>20, ReceiveType
<1>21. ASSUME UNCHANGED vars PROVE TypeOK'
  BY <1>21 DEF vars, TypeOK
<1>22. ASSUME NEW c \in Chan, WaitTest(c) \/ WaitEnds(c) \/ Check(c) \/ ReadStatus(c)
       PROVE TypeOK'
  BY <1>6, <1>22, MoveCases
<1> QED
  BY NextCases, <1>1, <1>2, <1>3, <1>4, <1>5, <1>7, <1>8, <1>9, <1>10, <1>11,
     <1>12, <1>13, <1>14, <1>15, <1>16, <1>17, <1>18, <1>19, <1>20, <1>21, <1>22

\* Every variable keeps its type: the sticky status registers never hold
\* anything but the value of one report, and the counters stop in time.
THEOREM SgDmaTypes == Spec => []TypeOK
BY TypeInit, TypeStep, PTL DEF Spec

-----------------------------------------------------------------------------
(***************************************************************************)
(* No lost wake-up.  As in the block transfer, only the handler sets a     *)
(* flag, and a caller sleeps only after it saw its flag clear.             *)
(***************************************************************************)
LEMMA WakeupStep == TypeOK /\ NoLostWakeup /\ [Next]_vars => NoLostWakeup'
<1> SUFFICES ASSUME TypeOK, NoLostWakeup, [Next]_vars PROVE NoLostWakeup'
  OBVIOUS
<1> USE DEF driverVars, isrVars, regVars, engineVars, irqVars, history, Goto,
            Return, NoLostWakeup, IsrToWake
\* The handler stands still, and the caller does not fall asleep.
<1>1. ASSUME NEW c \in Chan, UNCHANGED <<isr, seen>>,
             \E place \in PC \ {"asleep"} : pc' = [pc EXCEPT ![c] = place],
             flag' = flag \/ flag' = [flag EXCEPT ![c] = 0]
      PROVE  NoLostWakeup'
  BY <1>1 DEF TypeOK
<1>2. ASSUME NEW c \in Chan, Enter(c) \/ Pin(c) \/ WriteList(c) \/ StartList(c)
      PROVE  NoLostWakeup'
  BY <1>1, <1>2 DEF Enter, Pin, WriteList, StartList, PC
<1>3. ASSUME NEW c \in Chan, WriteLength(c) \/ GiveUp(c) \/ ClearList(c) \/ StartMove(c)
      PROVE  NoLostWakeup'
  BY <1>1, <1>3 DEF WriteLength, GiveUp, ClearList, StartMove, PC
<1>4. ASSUME NEW c \in Chan, AckList(c) \/ AckDone(c) \/ Free(c) \/ ClearDone(c)
      PROVE  NoLostWakeup'
  BY <1>1, <1>4 DEF AckList, AckDone, SetFlag0, Free, ClearDone, PC
<1>5. ASSUME NEW c \in Chan, WaitEnds(c) \/ Check(c) \/ ReadStatus(c)
      PROVE  NoLostWakeup'
  BY <1>1, <1>5 DEF WaitEnds, Check, ReadStatus, DoneFirst, Move, PC
<1>6. ASSUME NEW c \in Chan, WaitTest(c) PROVE NoLostWakeup'
  BY <1>6 DEF WaitTest, Move, TypeOK
<1>7. ASSUME NEW c \in Chan, IsrRead(c) PROVE NoLostWakeup'
  BY <1>7 DEF IsrRead, AfterStage, TypeOK, Chan
<1>8. ASSUME NEW c \in Chan, IsrStore(c) PROVE NoLostWakeup'
  BY <1>8 DEF IsrStore, AfterStage, TypeOK, Chan
<1>9. ASSUME NEW c \in Chan, IsrWake(c) PROVE NoLostWakeup'
  <2>1. \A d \in Chan : Wakes(seen[d]) <=> seen[d] # 0
    BY DEF TypeOK, Wakes
  <2> QED
    BY <1>9, <2>1 DEF IsrWake, AfterStage, TypeOK, Chan
<1>10. ASSUME WritePage \/ AskPage \/ Drain \/ UNCHANGED vars PROVE NoLostWakeup'
  BY <1>10 DEF WritePage, AskPage, Drain, vars
<1>11. ASSUME IsrEnter PROVE NoLostWakeup'
  BY <1>11 DEF IsrEnter
<1>12. ASSUME NEW i \in DOMAIN wire, Receive(i) PROVE NoLostWakeup'
  <2>1. UNCHANGED <<pc, flag, isr, seen>>
    BY <1>12, Zenon DEF Receive
  <2> QED
    BY <2>1
<1> QED
  BY NextCases, <1>2, <1>3, <1>4, <1>5, <1>6, <1>7, <1>8, <1>9, <1>10, <1>11, <1>12

\* No caller sleeps through its report, in either phase of its call.
THEOREM SgDmaNoLostWakeup == Spec => []NoLostWakeup
<1>1. Init => NoLostWakeup
  BY DEF Init, NoLostWakeup
<1> QED
  BY <1>1, TypeInit, TypeStep, WakeupStep, PTL DEF Spec

-----------------------------------------------------------------------------
(***************************************************************************)
(* The list waits for START=2.  What makes it inductive: an engine that    *)
(* has its list has no read out, so no completion, its own or another's,   *)
(* can move it on; and once the caller has cleared the report of the list, *)
(* the report cannot come back before START=2.                             *)
(***************************************************************************)
AskedWhileBusy ==
  \A c \in Chan : asked[c] # None => fsm[c] = "fetch" \/ (c = "h2c" /\ fsm[c] = "move")

ReportCleared == \A c \in Chan : pc[c] = "start_move" => status[c] # 1

WaitInv == ListWaitsForStart /\ AskedWhileBusy /\ ReportCleared

LEMMA WaitInit == Init => WaitInv
BY DEF Init, WaitInv, ListWaitsForStart, AskedWhileBusy, ReportCleared

LEMMA WaitStep == TypeOK /\ WaitInv /\ [Next]_vars => WaitInv'
<1> SUFFICES ASSUME TypeOK, WaitInv, [Next]_vars PROVE WaitInv'
  OBVIOUS
<1> USE DEF driverVars, isrVars, regVars, engineVars, irqVars, history, Goto,
            Return, WaitInv, ListWaitsForStart, AskedWhileBusy, ReportCleared
\* Elsewhere in its call, and nothing happens at the device.
<1>1. ASSUME NEW c \in Chan, UNCHANGED <<fsm, asked>>,
             status' = status \/ status' = [status EXCEPT ![c] = 0],
             \E place \in PC \ {"ack_list", "clear_list", "start_move"} :
               pc' = [pc EXCEPT ![c] = place]
      PROVE  WaitInv'
  BY <1>1 DEF TypeOK
<1>2. ASSUME NEW c \in Chan, Enter(c) \/ Pin(c) \/ WriteList(c) \/ WriteLength(c)
      PROVE  WaitInv'
  BY <1>1, <1>2 DEF Enter, Pin, WriteList, WriteLength, PC
<1>3. ASSUME NEW c \in Chan, GiveUp(c) \/ AckDone(c) \/ Free(c) \/ ClearDone(c)
      PROVE  WaitInv'
  BY <1>1, <1>3 DEF GiveUp, AckDone, SetFlag0, Free, ClearDone, PC
<1>4. ASSUME NEW c \in Chan, WaitTest(c) \/ WaitEnds(c) \/ Check(c) PROVE WaitInv'
  BY <1>1, <1>4 DEF WaitTest, WaitEnds, Check, Move, PC
<1>5. ASSUME NEW c \in Chan, ReadStatus(c) PROVE WaitInv'
  BY <1>5 DEF ReadStatus, DoneFirst, Move, TypeOK
<1>6. ASSUME NEW c \in Chan, AckList(c) PROVE WaitInv'
  BY <1>6 DEF AckList, SetFlag0, TypeOK
<1>7. ASSUME NEW c \in Chan, ClearList(c) PROVE WaitInv'
  BY <1>7 DEF ClearList, TypeOK
<1>8. ASSUME NEW c \in Chan, StartMove(c) PROVE WaitInv'
  BY <1>8 DEF StartMove, TypeOK
<1>9. ASSUME NEW c \in Chan, StartList(c) PROVE WaitInv'
  <2>1. /\ pc' = [pc EXCEPT ![c] = "length"] /\ status' = status
        /\ \/ /\ fsm[c] = "idle" /\ fsm' = [fsm EXCEPT ![c] = "fetch"]
              /\ \E r : asked' = [asked EXCEPT ![c] = r]
           \/ UNCHANGED <<fsm, asked>>
    BY <1>9, Zenon DEF StartList, StartTaken
  <2> QED
    BY <2>1, ZenonT(60) DEF TypeOK
<1>10. ASSUME NEW c \in Chan, IsrRead(c) \/ IsrStore(c) \/ IsrEnter \/ UNCHANGED vars
       PROVE WaitInv'
  BY <1>10 DEF IsrRead, IsrStore, IsrEnter, vars
<1>11. ASSUME NEW c \in Chan, IsrWake(c) PROVE WaitInv'
  BY <1>11 DEF IsrWake, TypeOK
<1>12. ASSUME WritePage PROVE WaitInv'
  <2>1. \A c \in Chan : status'[c] \in {0, 2} \/ status'[c] = status[c]
    BY <1>12 DEF WritePage, Report
  <2>2. status["c2h"] # 1 /\ pc["c2h"] \notin {"ack_list", "clear_list", "start_move"}
        /\ asked["c2h"] = None
    BY <1>12 DEF WritePage, Chan
  <2> QED
    BY <1>12, <2>1, <2>2 DEF WritePage, TypeOK, Chan
<1>13. ASSUME AskPage PROVE WaitInv'
  BY <1>13 DEF AskPage, TypeOK
<1>14. ASSUME Drain PROVE WaitInv'
  BY <1>14 DEF Drain, TypeOK
<1>15. ASSUME NEW i \in DOMAIN wire, Receive(i) PROVE WaitInv'
  <2> DEFINE takes == Takers(wire[i])
             pulse == [c \in Chan |->
                         IF c \in takes /\ fsm[c] = "fetch" THEN 1
                         ELSE IF c = "h2c" /\ LastWord(counter[c]) THEN 2 ELSE 0]
  <2>1. /\ asked' = [c \in Chan |-> IF c \in takes THEN None ELSE asked[c]]
        /\ fsm' = [c \in Chan |->
                     IF c \in takes
                       THEN IF fsm[c] = "fetch" THEN "listed" ELSE "drain"
                       ELSE fsm[c]]
        /\ status' = [c \in Chan |-> IF status[c] = 0 THEN pulse[c] ELSE status[c]]
    BY <1>15, Zenon DEF Receive, Report
  <2>2. pc' = pc
    BY <1>15, Zenon DEF Receive
  <2>3. ASSUME NEW c \in Chan
        PROVE  /\ fsm[c] = "listed" => fsm'[c] = "listed"
               /\ status'[c] = 1 => fsm'[c] = "listed"
               /\ fsm[c] = "listed" /\ status[c] # 1 => status'[c] # 1
               /\ asked'[c] # None => asked[c] # None /\ fsm'[c] = fsm[c]
    <3>1. c \in takes <=> asked[c] # None
      BY DEF Takers
    <3>2. fsm[c] = "listed" => c \notin takes
      BY <3>1
    <3> HIDE DEF takes
    <3>3. pulse[c] = 1 <=> c \in takes /\ fsm[c] = "fetch"
      OBVIOUS
    <3> HIDE DEF pulse
    <3> QED
      BY <2>1, <3>1, <3>2, <3>3
  <2> QED
    BY <2>2, <2>3
<1> QED
  BY NextCases, <1>2, <1>3, <1>4, <1>5, <1>6, <1>7, <1>8, <1>9, <1>10, <1>11,
     <1>12, <1>13, <1>14, <1>15

\* Between the report of the list and START=2 the engine stands in the state
\* that looks at START=2, so the pulse is not lost, whatever was given up.
THEOREM SgDmaListWaits == Spec => []ListWaitsForStart
<1>1. WaitInv => ListWaitsForStart
  BY DEF WaitInv
<1> QED
  BY <1>1, TypeInit, TypeStep, WaitInit, WaitStep, PTL DEF Spec

-----------------------------------------------------------------------------
(***************************************************************************)
(* Pages are held by the calls that hold them.  Read call by call, the     *)
(* property is preserved because a step changes the place of one caller    *)
(* and the pages of that caller's call only.                               *)
(***************************************************************************)
Held == \A o : o \in pinned <=> \E c \in Chan : Holds(c) /\ o = Op(c)

LEMMA HeldIsBalance == Held <=> PinsBalance
<1> DEFINE S == {Op(c) : c \in {d \in Chan : Holds(d)}}
<1>1. \A o : o \in S <=> \E c \in Chan : Holds(c) /\ o = Op(c)
  OBVIOUS
<1>2. PinsBalance <=> pinned = S
  BY Zenon DEF PinsBalance
<1> HIDE DEF S
<1>3. pinned = S <=> \A o : o \in pinned <=> o \in S
  OBVIOUS
<1> QED
  BY <1>1, <1>2, <1>3, Zenon DEF Held

LEMMA HeldStep == TypeOK /\ Held /\ [Next]_vars => Held'
<1> SUFFICES ASSUME TypeOK, Held, [Next]_vars PROVE Held'
  OBVIOUS
<1> USE DEF driverVars, isrVars, regVars, engineVars, irqVars, history, Goto, Return
\* A step of c that leaves the pages alone and c on the same side.
<1>1. ASSUME NEW c \in Chan, UNCHANGED <<serial, pinned>>,
             NEW place \in PC, pc' = [pc EXCEPT ![c] = place],
             Holds(c)' <=> Holds(c)
      PROVE  Held'
  <2>1. \A d \in Chan : Op(d)' = Op(d)
    BY <1>1 DEF Op
  <2>2. \A d \in Chan : Holds(d)' <=> Holds(d)
    BY <1>1 DEF Holds, TypeOK
  <2> QED
    BY <1>1, <2>1, <2>2, Zenon DEF Held
<1>2. ASSUME NEW c \in Chan, Enter(c) PROVE Held'
  <2>1. ~Holds(c) /\ ~Holds(c)'
    BY <1>2 DEF Enter, Holds, TypeOK
  <2>2. \A d \in Chan \ {c} : (Holds(d)' <=> Holds(d)) /\ Op(d)' = Op(d)
    BY <1>2 DEF Enter, Holds, Op, TypeOK
  <2>3. pinned' = pinned
    BY <1>2 DEF Enter
  <2> QED
    BY <2>1, <2>2, <2>3 DEF Held
<1>3. ASSUME NEW c \in Chan, Pin(c) PROVE Held'
  <2>1. ~Holds(c) /\ \A d \in Chan : Op(d)' = Op(d)
    BY <1>3 DEF Pin, Holds, Op
  <2>2. \A d \in Chan \ {c} : Holds(d)' <=> Holds(d)
    BY <1>3 DEF Pin, Holds, TypeOK
  <2>3. \/ pinned' = pinned \cup {Op(c)} /\ Holds(c)'
        \/ pinned' = pinned /\ ~Holds(c)'
    BY <1>3 DEF Pin, Holds, TypeOK
  <2> QED
    BY <2>1, <2>2, <2>3 DEF Held
<1>4. ASSUME NEW c \in Chan, GiveUp(c) \/ Free(c) PROVE Held'
  <2>1. Holds(c) /\ ~Holds(c)'
    <3>1. CASE GiveUp(c)
      BY <3>1 DEF GiveUp, Holds, TypeOK
    <3>2. CASE Free(c)
      BY <3>2 DEF Free, Holds, TypeOK, Chan
    <3> QED
      BY <1>4, <3>1, <3>2
  <2>2. \A d \in Chan \ {c} : Holds(d)' <=> Holds(d)
    BY <1>4 DEF GiveUp, Free, Holds, TypeOK
  <2>3. pinned' = pinned \ {Op(c)} /\ \A d \in Chan : Op(d)' = Op(d)
    BY <1>4 DEF GiveUp, Free, Op
  <2>4. \A d \in Chan \ {c} : Op(d) # Op(c)
    BY DEF Op
  <2> QED
    BY <2>1, <2>2, <2>3, <2>4 DEF Held
<1>5. ASSUME NEW c \in Chan, WriteList(c) \/ StartList(c) \/ WriteLength(c) PROVE Held'
  BY <1>1, <1>5, ZenonT(60) DEF WriteList, StartList, WriteLength, Holds, TypeOK, PC
<1>6. ASSUME NEW c \in Chan, WaitTest(c) \/ WaitEnds(c) \/ Check(c) \/ ReadStatus(c)
      PROVE  Held'
  BY <1>1, <1>6, ZenonT(60) DEF WaitTest, WaitEnds, Check, ReadStatus, DoneFirst, Move,
                    Holds, TypeOK, PC
<1>7. ASSUME NEW c \in Chan, AckList(c) \/ ClearList(c) \/ StartMove(c) \/ AckDone(c)
      PROVE  Held'
  <2>1. CASE AckList(c)
    BY <1>1, <2>1 DEF AckList, SetFlag0, Holds, TypeOK, PC
  <2>2. CASE AckDone(c)
    BY <1>1, <2>2 DEF AckDone, SetFlag0, Holds, TypeOK, PC
  <2>3. CASE ClearList(c) \/ StartMove(c)
    BY <1>1, <2>3 DEF ClearList, StartMove, Holds, TypeOK, PC
  <2> QED
    BY <1>7, <2>1, <2>2, <2>3
<1>8. ASSUME NEW c \in Chan, ClearDone(c) PROVE Held'
  <2>1. CASE c = "c2h"
    BY <1>1, <1>8, <2>1 DEF ClearDone, Holds, TypeOK, PC
  <2>2. CASE c = "h2c"
    BY <1>1, <1>8, <2>2 DEF ClearDone, Holds, TypeOK, PC
  <2> QED
    BY <2>1, <2>2 DEF Chan
<1>9. ASSUME NEW c \in Chan, IsrWake(c) PROVE Held'
  BY <1>1, <1>9 DEF IsrWake, Holds, TypeOK, PC
<1>10. ASSUME UNCHANGED <<pc, serial, pinned>> PROVE Held'
  BY <1>10, Zenon DEF Held, Holds, Op
<1>11. ASSUME NEW c \in Chan, IsrRead(c) \/ IsrStore(c) PROVE Held'
  BY <1>10, <1>11 DEF IsrRead, IsrStore
<1>12. ASSUME WritePage \/ AskPage \/ Drain \/ IsrEnter \/ UNCHANGED vars PROVE Held'
  BY <1>10, <1>12 DEF WritePage, AskPage, Drain, IsrEnter, vars
<1>13. ASSUME NEW i \in DOMAIN wire, Receive(i) PROVE Held'
  <2>1. UNCHANGED <<pc, serial, pinned>>
    BY <1>13, Zenon DEF Receive
  <2> QED
    BY <1>10, <2>1
<1> QED
  BY NextCases, <1>2, <1>3, <1>4, <1>5, <1>6, <1>7, <1>8, <1>9, <1>11, <1>12, <1>13

\* However a call ends, its pages are released, and never before.
THEOREM SgDmaPinsBalance == Spec => []PinsBalance
<1>1. Init => Held
  BY DEF Init, Held, Holds
<1>2. Held => PinsBalance
  BY HeldIsBalance
<1> QED
  BY <1>1, <1>2, TypeInit, TypeStep, HeldStep, PTL DEF Spec

=============================================================================
